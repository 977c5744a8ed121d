---------------------------- MODULE QuestionName ----------------------------
(***************************************************************************)
(* How the proxy reads a query's name and what scenario it takes from it:  *)
(* _query_scenario, _question_end, one turn of _decode_name's loop for a   *)
(* step, scenario_for, and build_query, whose names must be readable.      *)
(*                                                                         *)
(* A message is a sequence of octets, addressed from 0 as in the code.     *)
(***************************************************************************)
EXTENDS Integers, Sequences, SequencesExt, FiniteSetsExt

CONSTANTS
  Message,       \* the messages that may come
  Name,          \* names build_query is asked for, as their labels
  Start,         \* 12, where the question begins
  FixedSize,     \* 4, the octets of type and class after the name
  MaxSteps,      \* 128, the turns of the loop
  NameOctets,    \* 255, what build_query allows an encoded name
  Suffix,        \* the labels transport, example, test
  ScenarioLabel  \* the keys of SCENARIO_BY_LABEL

ASSUME SizeAssumption ==
  /\ Start \in Nat /\ FixedSize \in Nat /\ MaxSteps \in Nat
  \* 255 = 2 * 128 - 1: a name of one-octet labels takes every turn of the loop
  /\ NameOctets = 2 * MaxSteps - 1

(* That a message is shorter than its header is left to "header".          *)
ASSUME MessageAssumption ==
  \A m \in Message : m \in Seq(0 .. 255) /\ Len(m) >= Start

ASSUME NameAssumption ==
  /\ Name \subseteq Seq(Seq(0 .. 255)) /\ Suffix \in Seq(Seq(0 .. 255))

(* What the header says: too short, another opcode, and QDCOUNT. *)
Header == {"short", "other opcode", "none", "one", "many"}
Dot == 46

VARIABLES
  header, message, \* the query
  state,    \* "begin", "decode", "named", "failed"
  cursor,   \* where the loop is
  steps,    \* the turns it has made
  labels,   \* the labels it has read
  visited,  \* where its pointers pointed
  end,      \* where the name ends in the question (0: not known yet)
  scenario  \* what the name selects; the empty label stands for NORMAL

query == <<header, message>>
vars == <<query, state, cursor, steps, labels, visited, end, scenario>>

Octet(o) == message[o + 1]
Inside(o) == o < Len(message)
Target(o) == 256 * (Octet(o) % 64) + Octet(o + 1)
Span(o, n) == SubSeq(message, o + 1, o + n)
Ascii(label) == \A i \in DOMAIN label : label[i] < 128

-----------------------------------------------------------------------------
(* Text, which the code goes by: labels joined with dots, in lower case.   *)

Lower(text) == [i \in DOMAIN text |-> IF text[i] \in 65 .. 90 THEN text[i] + 32 ELSE text[i]]
Joined(ls) ==
  IF ls = <<>> THEN <<Dot>>
  ELSE Tail(FlattenSeq([i \in DOMAIN ls |-> <<Dot>> \o ls[i]]))
RightStripped(text) == SubSeq(text, 1, Max({0} \cup {i \in DOMAIN text : text[i] # Dot}))
Split(text) ==
  LET dots == {i \in DOMAIN text : text[i] = Dot}
      After(i) == Min({j \in dots \cup {Len(text) + 1} : j > i})
      cut[k \in 0 .. Cardinality(dots) + 1] == IF k = 0 THEN 0 ELSE After(cut[k - 1])
  IN [k \in 1 .. Cardinality(dots) + 1 |-> SubSeq(text, cut[k - 1] + 1, cut[k] - 1)]

(* Mutant: a name somewhere below the suffix is taken for a scenario's. *)
ScenarioForBelow(name) ==
  LET ls == Split(RightStripped(Lower(name)))
      n == Len(Suffix)
  IN IF Len(ls) > n /\ SubSeq(ls, Len(ls) - n + 1, Len(ls)) = Suffix /\ Head(ls) \in ScenarioLabel
     THEN Head(ls) ELSE <<>>

ScenarioFor(name) ==
  LET ls == Split(RightStripped(Lower(name)))
  IN IF Len(ls) = Len(Suffix) + 1 /\ Tail(ls) = Suffix /\ Head(ls) \in ScenarioLabel
     THEN Head(ls) ELSE <<>>

(* build_query: its question's name, the names it accepts, the message. *)
Encoded(ls) == FlattenSeq([i \in DOMAIN ls |-> <<Len(ls[i])>> \o ls[i]]) \o <<0>>
Buildable(ls) ==
  /\ \A i \in DOMAIN ls : Len(ls[i]) \in 1 .. 63 /\ Ascii(ls[i])
  /\ Len(Encoded(ls)) <= NameOctets
BuildQuery(ls) == [i \in 1 .. Start |-> 0] \o Encoded(ls) \o [i \in 1 .. FixedSize |-> 1]

-----------------------------------------------------------------------------
Init ==
  /\ header \in Header /\ message \in Message
  /\ state = "begin" /\ cursor = 0 /\ steps = 0
  /\ labels = <<>> /\ visited = {} /\ end = 0 /\ scenario = <<>>

Fail ==
  /\ state' = "failed"
  /\ UNCHANGED <<query, cursor, steps, labels, visited, end, scenario>>

(* No name is asked for: the query is forwarded as it is. *)
Nameless ==
  /\ state = "begin" /\ header \in {"other opcode", "none"}
  /\ state' = "named"
  /\ UNCHANGED <<query, cursor, steps, labels, visited, end, scenario>>

Unreadable == state = "begin" /\ header \in {"short", "many"} /\ Fail

Begin ==
  /\ state = "begin" /\ header = "one"
  /\ state' = "decode" /\ cursor' = Start
  /\ UNCHANGED <<query, steps, labels, visited, end, scenario>>

(* What the octet at o begins. Anything else is DNSFormatError: the end of *)
(* the message, a pointer out of it, a length with one high bit, a label   *)
(* that is cut off or not ASCII.                                           *)
IsPointer(o) == Inside(o) /\ Octet(o) >= 192 /\ Inside(o + 1) /\ Inside(Target(o))
IsLabel(o) ==
  /\ Inside(o) /\ Octet(o) \in 1 .. 63
  /\ o + Octet(o) < Len(message) /\ Ascii(Span(o + 1, Octet(o)))
IsRoot(o) == Inside(o) /\ Octet(o) = 0

EndOr(e) == IF end = 0 THEN e ELSE end

(* Mutant: one turn of the loop fewer. *)
TurnSooner == state = "decode" /\ steps < MaxSteps - 1

Turn == state = "decode" /\ steps < MaxSteps
CanJump == IsPointer(cursor) /\ Target(cursor) \notin visited \cup {cursor}
CanFinish == IsRoot(cursor) /\ EndOr(cursor + 1) + FixedSize <= Len(message)

Follow(nameEnd) ==
  /\ Turn /\ CanJump
  /\ cursor' = Target(cursor) /\ visited' = visited \cup {Target(cursor)}
  /\ end' = nameEnd /\ steps' = steps + 1
  /\ UNCHANGED <<query, state, labels, scenario>>

(* Mutant: the name ends after the last pointer. *)
JumpMoving == Follow(cursor + 2)

(* A compression pointer that has not been followed before: the name ends  *)
(* in the question after the first of them.                                *)
Jump == Follow(EndOr(cursor + 2))

TakeLabel ==
  /\ Turn /\ IsLabel(cursor)
  /\ labels' = Append(labels, Span(cursor + 1, Octet(cursor)))
  /\ cursor' = cursor + 1 + Octet(cursor) /\ steps' = steps + 1
  /\ UNCHANGED <<query, state, visited, end, scenario>>

(* The root label ends the name; type and class must follow. *)
Finish ==
  /\ Turn /\ CanFinish
  /\ state' = "named" /\ end' = EndOr(cursor + 1) /\ steps' = steps + 1
  /\ scenario' = ScenarioFor(Joined(labels))
  /\ UNCHANGED <<query, cursor, labels, visited>>

GiveUp ==
  /\ state = "decode" /\ ~(Turn /\ (CanJump \/ IsLabel(cursor) \/ CanFinish))
  /\ Fail

Next == Nameless \/ Unreadable \/ Begin \/ Jump \/ TakeLabel \/ Finish \/ GiveUp

Spec == Init /\ [][Next]_vars

-----------------------------------------------------------------------------
TypeOK ==
  /\ header \in Header /\ message \in Seq(0 .. 255)
  /\ state \in {"begin", "decode", "named", "failed"}
  /\ cursor \in 0 .. Len(message) /\ steps \in 0 .. MaxSteps
  /\ Len(labels) <= steps /\ visited \subseteq 0 .. Len(message) - 1
  /\ end \in 0 .. Len(message)
  /\ scenario \in ScenarioLabel \cup {<<>>}

(* A reference for the loop: where it is after n hops, with no memory of   *)
(* the pointers it followed, and the one n at which it is at a root.       *)
Nowhere == -1
Hop(o) ==
  IF o = Nowhere THEN Nowhere
  ELSE IF IsPointer(o) THEN Target(o)
  ELSE IF IsLabel(o) THEN o + 1 + Octet(o)
  ELSE Nowhere
Path == LET path[n \in 0 .. MaxSteps] == IF n = 0 THEN Start ELSE Hop(path[n - 1]) IN path
Length == {n \in 0 .. MaxSteps - 1 : Path[n] # Nowhere /\ IsRoot(Path[n])}
LabelsBefore ==
  LET At(o) == IF o # Nowhere /\ IsLabel(o) THEN <<Span(o + 1, Octet(o))>> ELSE <<>>
      before[n \in 0 .. MaxSteps] == IF n = 0 THEN <<>> ELSE before[n - 1] \o At(Path[n - 1])
  IN before
NameEnd(n) ==
  LET pointers == {i \in 0 .. n - 1 : IsPointer(Path[i])}
  IN IF pointers = {} THEN Path[n] + 1 ELSE Path[Min(pointers)] + 2
WellFormed == {n \in Length : NameEnd(n) + FixedSize <= Len(message)}

(* A name is read exactly when following its labels and pointers comes to  *)
(* the root within the loop's turns, with the labels on the way and the    *)
(* end behind the first pointer: the check for pointers already followed   *)
(* refuses no name that could be read (_decode_name, _question_end).       *)
(* (Checked with the type of the state.)                                   *)
DecodesExactly ==
  /\ TypeOK
  /\ state = "failed" /\ header = "one" => WellFormed = {}
  /\ state = "named" /\ header = "one" =>
       \E n \in WellFormed : labels = LabelsBefore[n] /\ end = NameEnd(n)

(* Whatever name build_query accepts, up to 255 octets in 127 labels, the  *)
(* proxy's 128 turns read back label by label (build_query, _decode_name). *)
OwnQueries == {BuildQuery(ls) : ls \in {ls \in Name : Buildable(ls)}}
OwnNamesRead ==
  message \in OwnQueries /\ header = "one" =>
    /\ state # "failed"
    /\ state = "named" => BuildQuery(labels) = message

(* A fault is chosen for a scenario's own name and no other, in any case   *)
(* and however it is compressed, but for names with a dot inside a label,  *)
(* which the text cannot tell from a dot between two (scenario_for).       *)
FaultByName ==
  state = "named" /\ header = "one" /\ (\A i \in DOMAIN labels : Dot \notin ToSet(labels[i])) =>
    scenario =
      (IF /\ Len(labels) = Len(Suffix) + 1
          /\ Lower(Head(labels)) \in ScenarioLabel
          /\ \A i \in DOMAIN Suffix : Lower(labels[i + 1]) = Suffix[i]
       THEN Lower(Head(labels)) ELSE <<>>)

=============================================================================
