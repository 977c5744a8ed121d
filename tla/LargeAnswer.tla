---------------------------- MODULE LargeAnswer -----------------------------
(***************************************************************************)
(* The generated large fixtures on the wire: what generate-large-fixtures  *)
(* puts into the zone and promises in its manifest, the response BIND      *)
(* makes of it, one record a step, and what smoke-test.sh asks of that     *)
(* response over TCP and, truncated, over UDP. A record is its RDATA's     *)
(* content and number of octets.                                           *)
(***************************************************************************)
EXTENDS Integers, Sequences, FiniteSets, SequencesExt

(* The zone: NS and glue of example.test, and $GENERATE 1-64 srv-$ ... A.  *)
Generated == 1 .. 64

(* Octets of labels and the wire form of a name below example.test. *)
NameOctets == [large_512 |-> 9, large_1232 |-> 10, large_multi_a |-> 13,
               large_multi_aaaa |-> 16, large_srv |-> 9, near_max_tcp |-> 12]
UnderZone(labelOctets) == 1 + labelOctets + 14
Fixture == DOMAIN NameOctets

-----------------------------------------------------------------------------
(* Mutant: the chunks of a TXT record are not repeated. *)
TxtRecordOnce(chunks, chunkSize) == <<[data |-> <<0, 0>>, octets |-> chunkSize + 1]>>

(* Strings of chunkSize octets, each with its length octet. *)
TxtRecord(chunks, chunkSize) == <<[data |-> <<0, 0>>, octets |-> chunks * (chunkSize + 1)]>>

(* Mutant: the suffix wraps, as a signed octet's would. *)
AddressRecordsWrapping(octets) ==
  [suffix \in 1 .. 128 |-> [data |-> <<0, suffix % 127>>, octets |-> octets]]

AddressRecords(octets) ==
  [suffix \in 1 .. 128 |-> [data |-> <<0, suffix>>, octets |-> octets]]

SrvTarget(n) == UnderZone(4 + IF n < 10 THEN 1 ELSE 2)

(* Priorities 0 .. 63 at srv-1 .. srv-64. *)
SrvRecords ==
  [i \in 1 .. 64 |-> [data |-> <<i - 1, i>>, octets |-> 6 + SrvTarget(i)]]

Records(f) ==
  CASE f = "large_512" -> TxtRecord(4, 200)
    [] f = "large_1232" -> TxtRecord(8, 200)
    [] f = "large_multi_a" -> AddressRecords(4)
    [] f = "large_multi_aaaa" -> AddressRecords(16)
    [] f = "large_srv" -> SrvRecords
    [] f = "near_max_tcp" -> TxtRecord(240, 250)

Entry(minimum, maximum) == [minimum |-> minimum, maximum |-> maximum]
Manifest ==
  [large_512 |-> Entry(700, 1200), large_1232 |-> Entry(1500, 2200),
   large_multi_a |-> Entry(2000, 4000), large_multi_aaaa |-> Entry(3000, 6000),
   large_srv |-> Entry(2000, 8000), near_max_tcp |-> Entry(58001, 65535)]
AnswerCount(f) == Len(Records(f))

-----------------------------------------------------------------------------
(* The responses: over TCP, and over UDP to a client that takes 512 octets *)
(* without EDNS or 1232 with it.                                           *)
Limits == {65535, 512, 1232}
OptOctets == 11 .. 39     \* alone, or with a COOKIE of 28 octets
RecordOctets(octets) == 12 + octets  \* owner compressed: 2, type .. length: 10

VARIABLES
  fixture, limit,
  size,    \* octets of the response so far
  answers, \* the answer section
  rest,    \* the records of the set that are not in it yet
  extra,   \* "none", then the sections that follow: "authority", "additional"
  tc, done

vars == <<fixture, limit, size, answers, rest, extra, tc, done>>

(* An RRset is a set: equal records are one. *)
RRset(f) == ToSet(Records(f))

Init ==
  /\ fixture \in Fixture /\ limit \in Limits
  /\ \E opt \in OptOctets \cup {0} :
       /\ limit = 512 => opt = 0
       /\ limit = 1232 => opt # 0
       /\ size = 12 + UnderZone(NameOctets[fixture]) + 4 + opt
  /\ answers = {} /\ rest = RRset(fixture) /\ extra = "none" /\ tc = FALSE /\ done = FALSE

Fits(octets) == size + octets <= limit

(* BIND may give the set in any order; its records of one fixture are      *)
(* alike but for one octet, so one order stands for all.                   *)
First == CHOOSE r \in rest : \A s \in rest : r.data[2] <= s.data[2]
Answer ==
  /\ ~done /\ extra = "none" /\ rest # {} /\ Fits(RecordOctets(First.octets))
  /\ size' = size + RecordOctets(First.octets)
  /\ answers' = answers \cup {First} /\ rest' = rest \ {First}
  /\ UNCHANGED <<fixture, limit, extra, tc, done>>

Truncate ==
  /\ ~done /\ rest # {} /\ ~Fits(RecordOctets(First.octets))
  /\ tc' = TRUE /\ done' = TRUE
  /\ UNCHANGED <<fixture, limit, size, answers, rest, extra>>

(* minimal-responses no: the zone's NS records, then the addresses of the  *)
(* names in the response, as far as they fit.                              *)
Authority ==
  /\ ~done /\ extra = "none" /\ rest = {} /\ Fits(2 * RecordOctets(6))
  /\ size' = size + 2 * RecordOctets(6) /\ extra' = "authority"
  /\ UNCHANGED <<fixture, limit, answers, rest, tc, done>>

Glue == 2 * RecordOctets(4) + 2 * RecordOctets(16)
Targets == Cardinality({r \in answers : r.data[2] \in Generated /\ fixture = "large_srv"}) * RecordOctets(4)
Additional ==
  /\ ~done /\ extra = "authority" /\ Fits(Glue + Targets)
  /\ size' = size + Glue + Targets /\ extra' = "additional"
  /\ UNCHANGED <<fixture, limit, answers, rest, tc, done>>

Finish ==
  /\ ~done /\ rest = {}
  /\ done' = TRUE
  /\ UNCHANGED <<fixture, limit, size, answers, rest, extra, tc>>

Next == Answer \/ Truncate \/ Authority \/ Additional \/ Finish

Spec == Init /\ [][Next]_vars

-----------------------------------------------------------------------------
(* What the manifest promises holds of every response over TCP, with BIND  *)
(* adding what it may: it fits a frame, its size is within the bounds, no  *)
(* two generated records are the same and every target of an SRV record is *)
(* a host that the zone generates (build_fixtures, smoke-test.sh).         *)
ManifestHolds ==
  done /\ limit = 65535 =>
    /\ ~tc
    /\ size \in Manifest[fixture].minimum .. Manifest[fixture].maximum
    /\ Cardinality(answers) = AnswerCount(fixture)
    /\ fixture = "large_srv" => \A r \in answers : r.data[2] \in Generated

(* Over UDP every fixture is truncated at 512 octets and all but the one   *)
(* named for 512 at 1232: that one measures the other limit by fitting.    *)
TruncatedAsNamed ==
  done /\ limit # 65535 => (tc <=> limit = 512 \/ fixture # "large_512")

=============================================================================
