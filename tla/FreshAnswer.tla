---------------------------- MODULE FreshAnswer ----------------------------
(***************************************************************************)
(* How the proxy makes up its answer to a name under fresh.example.test    *)
(* (fresh_fixtures.py): the checks of answer_fresh, the loop of _answer    *)
(* over the records of one nonce's zone, and the truncation of             *)
(* _encode_response.                                                       *)
(*                                                                         *)
(* A name is the label before the nonce ("@" for the zone itself) and what *)
(* stands before that label.  Keys that take the same branches of          *)
(* _records and _answer have one representative: "a" is also the           *)
(* transport keys and the other double-stacked addresses, "nodata" is also *)
(* "unsupported", "txt" is every key with one opaque record.  TTLs, letter *)
(* case and sizes in octets are left out, names' lengths excepted.         *)
(***************************************************************************)
EXTENDS Integers, Sequences, SequencesExt

VARIABLES query,    \* the query, as answer_fresh reads it
          phase,    \* "checking", "answering", "encoding", "sent", "dropped"
          owner,    \* _answer's owner: the name the loop has come to
          turns,    \* turns of the loop done
          reply,    \* the response being built
          sent      \* the message that was encoded

vars == <<query, phase, owner, turns, reply, sent>>

----------------------------------------------------------------------------
(* Names *)

\* What stands before the key's label, by its length in octets.  The last three are as long as
\* they can be: below dname, 190 still fits when "target-tree" takes the place of "dname".
Prefix == [none |-> 0, x |-> 2, ns |-> 3, fits |-> 190, over |-> 191, full |-> 196]
Short == {"none", "x", "ns"}

DNAME_KEYS == {"dname", "dname-child"}
Referrals == {"referral", "additional-referral"}
ServedCuts == {"ns", "soa", "additional-ns"}
\* Families that synthesize descendants: "wildcard" is also long-label and long-name.
Synthesizing == {"@", "apex", "wildcard", "target-tree"}
SrvHosts == <<"srv-1", "srv-64">>

Labels == {"@", "apex", "negative", "refused", "cname", "cname-chain", "chain-hop",
           "additional-mail", "additional-service", "additional-dc", "additional-ns-host",
           "additional-mx", "additional-srv", "additional-ad", "a", "wildcard", "nodata", "aaaa",
           "mail", "service", "svc", "target-tree", "srv-1", "srv-64", "srv-65", "multi-a",
           "large-srv", "srv", "mx", "txt", "ptr", "https-alias"}
          \cup DNAME_KEYS \cup Referrals \cup ServedCuts

\* <32 digits>.fresh.example.test. takes 53 octets; a label takes one more than its letters.
KeyOctets(label) == CASE label = "dname" -> 6 [] label = "@" -> 0 [] OTHER -> 12
Fits(n) == Prefix[n.before] + KeyOctets(n.label) + 53 <= 255

Name(before, label) == [before |-> before, label |-> label]
Target(label) == Name("none", label)
Zone == Target("@")
Outside == Target("outside")

Names == {n \in {Name(p, l) : p \in DOMAIN Prefix, l \in Labels} :
            /\ n.label = "@" => n.before = "none"
            /\ n.before \notin Short => n.label \in DNAME_KEYS \cup {"target-tree"}
            /\ Fits(n)}

Kinds == {"A", "AAAA", "NS", "SOA", "MX", "SRV", "TXT", "PTR", "HTTPS", "CNAME", "DNAME", "DS", "ANY"}

\* dnspython's is_subdomain.
Below(n, apex) ==
    apex = Zone \/ (n.label = apex.label /\ apex.before \in {"none", n.before})

----------------------------------------------------------------------------
(* Records: an RRset has its targets in "to" and its addresses in "at". *)

RR(n, type, to, at) == [owner |-> n, type |-> type, to |-> to, at |-> at]
Points(n, type, label) == RR(n, type, <<Target(label)>>, {})
Hosts(n, hosts) == <<RR(n, "A", <<>>, hosts), RR(n, "AAAA", <<>>, hosts)>>
Soa(n, primary) == Points(n, "SOA", primary)

AddressOf(label) ==
    CASE label \in {"additional-mail", "mail"} -> 25
      [] label \in {"additional-service", "service", "svc"} \cup {SrvHosts[i] : i \in 1..2} -> 40
      [] label = "additional-dc" -> 60
      [] label \in {"additional-ns-host", "ns"} -> 53
      [] label = "target-tree" -> 30
      [] OTHER -> 10

DoubleStacked == {"additional-mail", "additional-service", "additional-dc", "additional-ns-host",
                  "a", "wildcard", "service", "target-tree", "srv-1", "srv-64"}

Node(n) ==
    LET address == {AddressOf(n.label)} IN
    CASE n.label = "@" -> <<Soa(n, "ns"), Points(n, "NS", "ns")>>
      [] n.label \in DNAME_KEYS -> <<Points(n, "DNAME", "target-tree")>>
      [] n.label = "cname-chain" -> <<Points(n, "CNAME", "chain-hop")>>
      [] n.label \in {"cname", "chain-hop"} -> <<Points(n, "CNAME", "a")>>
      [] n.label = "ns" -> <<Points(n, "NS", "ns"), Soa(n, "ns"), RR(n, "A", <<>>, address)>>
      [] n.label = "soa" -> <<Points(n, "NS", "ns"), Soa(n, "ns")>>
      [] n.label = "additional-ns" ->
            <<Points(n, "NS", "additional-ns-host"), Soa(n, "additional-ns-host")>>
      [] n.label = "additional-mx" -> <<Points(n, "MX", "additional-mail")>>
      [] n.label = "additional-srv" -> <<Points(n, "SRV", "additional-service")>>
      [] n.label = "additional-ad" -> <<Points(n, "SRV", "additional-dc")>>
      [] n.label \in DoubleStacked -> Hosts(n, address)
      [] n.label \in {"nodata", "mail"} -> <<RR(n, "A", <<>>, address)>>
      [] n.label = "aaaa" -> <<RR(n, "AAAA", <<>>, address)>>
      [] n.label = "svc" -> Hosts(n, address) \o <<RR(n, "HTTPS", <<>>, address)>>
      [] n.label = "multi-a" -> <<RR(n, "A", <<>>, {10, 11})>>
      [] n.label = "large-srv" -> <<RR(n, "SRV", <<Target(SrvHosts[1]), Target(SrvHosts[2])>>, {})>>
      [] n.label = "srv" -> <<Points(n, "SRV", "service")>>
      [] n.label = "mx" -> <<Points(n, "MX", "mail")>>
      [] n.label = "ptr" -> <<Points(n, "PTR", "a")>>
      [] n.label = "https-alias" -> <<Points(n, "HTTPS", "svc")>>
      [] n.label = "txt" -> <<RR(n, "TXT", <<>>, {})>>
      [] OTHER -> <<>>

\* Python's None, a node that does not exist, is <<>>: no node is without records.
Records(n) == IF n.before = "none" \/ n.label \in Synthesizing THEN Node(n) ELSE <<>>

OfType(records, kind) == SelectSeq(records, LAMBDA rr : rr.type = kind)
IsAddress(rr) == rr.type \in {"A", "AAAA"}

\* Mutant of Additional: the addresses are given to the name that points to their owner.
AdditionalAtOwner(records) ==
    LET Of(rr, i) == [j \in 1..Len(SelectSeq(Records(rr.to[i]), IsAddress)) |->
                        [SelectSeq(Records(rr.to[i]), IsAddress)[j] EXCEPT !.owner = rr.owner]]
    IN IF records[1].type \in {"NS", "MX", "SRV"} THEN Of(records[1], 1) ELSE <<>>

\* The addresses of the targets of NS, MX and SRV, each once.
Additional(records) ==
    LET Once(list, rr) == IF Contains(list, rr) THEN list ELSE Append(list, rr)
        Of(list, target) == FoldLeft(Once, list, SelectSeq(Records(target), IsAddress))
        Each(list, rr) == IF rr.type \in {"NS", "MX", "SRV"} THEN FoldLeft(Of, list, rr.to) ELSE list
    IN FoldLeft(Each, <<>>, records)

----------------------------------------------------------------------------
(* One turn of _answer's loop, from an exchange [owner, kind, done, reply] to the next. *)

Empty == [rcode |-> "NOERROR", aa |-> FALSE, answer |-> <<>>, authority |-> <<>>, additional |-> <<>>]
Error(rcode) == [Empty EXCEPT !.rcode = rcode]

Start(n, kind) == [owner |-> n, kind |-> kind, done |-> FALSE, reply |-> [Empty EXCEPT !.aa = TRUE]]

Cut(n) == Target(n.label)
AtCutForDS(x) == x.owner = Cut(x.owner) /\ x.kind = "DS"

\* Mutant of AuthoritySoa: the DS of a cut is denied by the cut itself.
AuthoritySoaOfChild(x) ==
    LET child == x.owner.label \in ServedCuts
    IN IF child /\ x.owner.label = "additional-ns"
       THEN Soa(Cut(x.owner), "additional-ns-host")
       ELSE Soa(IF child THEN Cut(x.owner) ELSE Zone, "ns")

\* The SOA of the nearest zone that is served: a cut's DS belongs to its parent.
AuthoritySoa(x) ==
    LET child == x.owner.label \in ServedCuts /\ ~AtCutForDS(x)
    IN IF child /\ x.owner.label = "additional-ns"
       THEN Soa(Cut(x.owner), "additional-ns-host")
       ELSE Soa(IF child THEN Cut(x.owner) ELSE Zone, "ns")

\* Mutant of ReferAway: the delegation is made at the name asked for.
ReferAwayAtOwner(x) ==
    LET host == Name("ns", x.owner.label)
    IN [x EXCEPT !.done = TRUE, !.reply.aa = FALSE,
                 !.reply.authority = Append(@, RR(x.owner, "NS", <<host>>, {})),
                 !.reply.additional = @ \o Hosts(host, {53})]

ReferAway(x) ==
    LET cut == Cut(x.owner)
        host == Name("ns", cut.label)
    IN [x EXCEPT !.done = TRUE, !.reply.aa = FALSE,
                 !.reply.authority = Append(@, RR(cut, "NS", <<host>>, {})),
                 !.reply.additional = @ \o IF cut.label = "additional-referral"
                                           THEN Hosts(host, {53})
                                           ELSE <<RR(host, "A", <<>>, {53})>>]

DenyAtCut(x) == [x EXCEPT !.done = TRUE, !.reply.authority = Append(@, Soa(Zone, "ns"))]

Refuse(x) == [x EXCEPT !.done = TRUE, !.reply.aa = FALSE, !.reply.rcode = "REFUSED"]

Substituted(n) == Name(n.before, "target-tree")

TooLong(n) == ~Fits(Substituted(n))

Redirect(x) ==
    LET parent == Cut(x.owner)
        dname == Append(x.reply.answer, Points(parent, "DNAME", "target-tree"))
        canonical == Substituted(x.owner)
    IN IF TooLong(x.owner)
       THEN [x EXCEPT !.done = TRUE, !.reply.answer = dname, !.reply.rcode = "YXDOMAIN"]
       ELSE [x EXCEPT !.done = x.kind = "CNAME",
                      !.owner = IF x.kind = "CNAME" THEN @ ELSE canonical,
                      !.reply.answer = Append(dname, RR(x.owner, "CNAME", <<canonical>>, {}))]

\* Mutant of Deny: a DNSSEC type is answered as if the name existed.
DenyUnlessDS(x) ==
    [x EXCEPT !.done = TRUE, !.reply.rcode = IF x.kind = "DS" THEN @ ELSE "NXDOMAIN",
              !.reply.authority = Append(@, AuthoritySoa(x))]

Deny(x) ==
    [x EXCEPT !.done = TRUE, !.reply.rcode = "NXDOMAIN",
              !.reply.authority = Append(@, AuthoritySoa(x))]

\* Mutant of Follow: the loop goes straight to the end of the chain.
FollowToEnd(x) ==
    LET stop == x.kind \in {"CNAME", "ANY"}
    IN [x EXCEPT !.done = stop, !.owner = IF stop THEN @ ELSE Target("a"),
                 !.reply.answer = Append(@, OfType(Records(x.owner), "CNAME")[1])]

Follow(x) ==
    LET cname == OfType(Records(x.owner), "CNAME")[1]
        stop == x.kind \in {"CNAME", "ANY"}
    IN [x EXCEPT !.done = stop, !.owner = IF stop THEN @ ELSE cname.to[1],
                 !.reply.answer = Append(@, cname)]

Select(x) ==
    LET records == Records(x.owner)
        selected == IF x.kind = "ANY" THEN SubSeq(records, 1, 1) ELSE OfType(records, x.kind)
    IN IF selected # <<>>
       THEN [x EXCEPT !.done = TRUE, !.reply.answer = @ \o selected,
                      !.reply.additional = Additional(selected)]
       ELSE [x EXCEPT !.done = TRUE, !.reply.authority = Append(@, AuthoritySoa(x))]

Turn(x) ==
    LET n == x.owner IN
    CASE n.label \in Referrals /\ ~AtCutForDS(x) -> ReferAway(x)
      [] n.label \in Referrals /\ AtCutForDS(x) -> DenyAtCut(x)
      [] n.label = "refused" -> Refuse(x)
      [] n.label \in DNAME_KEYS /\ n # Cut(n) -> Redirect(x)
      [] OTHER -> IF Records(n) = <<>> THEN Deny(x)
                  ELSE IF OfType(Records(n), "CNAME") # <<>> THEN Follow(x)
                  ELSE Select(x)

\* Mutant of MaxTurns: a turn for each alias and none for the answer.
TwoTurns == 2

MaxTurns == 4

\* The whole of _answer for one question, to compare a reply with what other questions get.
Lookup(n, kind) ==
    LET chase[i \in 0..MaxTurns] ==
            IF i = 0 THEN Start(n, kind)
            ELSE LET x == chase[i - 1] IN IF x.done THEN x ELSE Turn(x)
        last == chase[MaxTurns]
    IN IF last.done THEN last.reply ELSE [last.reply EXCEPT !.rcode = "SERVFAIL"]

----------------------------------------------------------------------------
(* Queries: a usual one, or one that answer_fresh's checks may stop. *)

Usual == {[form |-> "query", questions |-> 1, version |-> -1, class |-> "IN", name |-> n, kind |-> k] :
            n \in Names, k \in Kinds}
Odd == [form : {"short", "response", "opcode", "garbled", "query"}, questions : 0..2,
        version : -1..1, class : {"IN", "CH"}, name : {Target("a"), Outside}, kind : {"A", "XFR"}]

Init ==
    /\ query \in Usual \cup Odd
    /\ phase = "checking"
    /\ owner = query.name
    /\ turns = 0
    /\ reply = Empty
    /\ sent = [tc |-> FALSE, reply |-> Empty]

Stop(rcode) ==
    /\ phase' = "encoding"
    /\ reply' = Error(rcode)

Check ==
    /\ phase = "checking"
    /\ CASE query.form \in {"short", "response"} -> phase' = "dropped" /\ UNCHANGED reply
         [] query.form = "opcode" -> Stop("NOTIMP")
         [] query.form = "garbled" \/ (query.form = "query" /\ query.questions # 1) -> Stop("FORMERR")
         [] OTHER -> IF query.version > 0 THEN Stop("BADVERS")
                     ELSE IF query.name = Outside \/ query.class # "IN" \/ query.kind = "XFR"
                     THEN Stop("REFUSED")
                     ELSE phase' = "answering" /\ reply' = Start(query.name, query.kind).reply
    /\ UNCHANGED <<query, owner, turns, sent>>

Answer ==
    /\ phase = "answering"
    /\ LET x == Turn([owner |-> owner, kind |-> query.kind, done |-> FALSE, reply |-> reply])
           exhausted == ~x.done /\ turns + 1 = MaxTurns
       IN /\ owner' = x.owner
          /\ reply' = IF exhausted THEN [x.reply EXCEPT !.rcode = "SERVFAIL"] ELSE x.reply
          /\ phase' = IF x.done \/ exhausted THEN "encoding" ELSE "answering"
    /\ turns' = turns + 1
    /\ UNCHANGED <<query, sent>>

\* dnspython writes the sections' RRsets in order and stops at the first with no room; it sets
\* TC when that is in the answer or the authority section.
Written(r, n) ==
    LET a == Len(r.answer)
        b == a + Len(r.authority)
    IN [tc |-> n < b,
        reply |-> [r EXCEPT !.answer = SubSeq(@, 1, IF n < a THEN n ELSE a),
                            !.authority = SubSeq(@, 1, (IF n < b THEN n ELSE b) - a),
                            !.additional = SubSeq(@, 1, n - b)]]

\* The addresses of a referral's in-domain name servers.
RequiredGlue(r) ==
    LET targets == {rr.to[1] : rr \in {s \in ToSet(r.authority) : s.type = "NS" /\ Below(s.to[1], s.owner)}}
    IN {rr \in ToSet(r.additional) : rr.owner \in targets /\ IsAddress(rr)}

\* Mutant of Encoded: every additional address is taken for mandatory.
EncodedStrictly(r, n) ==
    LET w == Written(r, n)
    IN IF w.reply.additional # r.additional THEN [w EXCEPT !.tc = TRUE] ELSE w

Encoded(r, n) ==
    LET w == Written(r, n)
        missing == RequiredGlue(r) \ ToSet(w.reply.additional)
    IN IF r.answer = <<>> /\ ~r.aa /\ missing # {} THEN [w EXCEPT !.tc = TRUE] ELSE w

\* The size limit leaves room for the first n RRsets, whatever n.
Encode ==
    /\ phase = "encoding"
    /\ \E n \in 0..Len(reply.answer \o reply.authority \o reply.additional) :
          sent' = Encoded(reply, n)
    /\ phase' = "sent"
    /\ UNCHANGED <<query, owner, turns, reply>>

Next == Check \/ Answer \/ Encode

Spec == Init /\ [][Next]_vars

----------------------------------------------------------------------------
(* Properties *)

Answered == phase \in {"encoding", "sent"} /\ query \in Usual

\* The state's type.
TypeOK ==
    /\ query \in Usual \cup Odd
    /\ phase \in {"checking", "answering", "encoding", "sent", "dropped"}
    /\ owner \in Names \cup {Outside}
    /\ turns \in 0..MaxTurns
    /\ \A rr \in ToSet(reply.answer) : ToSet(rr.to) \subseteq Names
    /\ ToSet(sent.reply.answer) \subseteq ToSet(reply.answer)

\* The loop never runs out of turns, as the comment of _answer says: no question gets SERVFAIL.  By
\* the type of the state, every name the loop comes to, and every target of an answer, is one that
\* fits in 255 octets, so that it can be encoded (concatenate raises NameTooLong); and YXDOMAIN is
\* answered only where the name below target-tree (12 octets, and the zone's 53) would be longer.
NeverGivesUp ==
    /\ TypeOK
    /\ reply.rcode # "SERVFAIL"
    /\ reply.rcode = "YXDOMAIN" => Prefix[owner.before] + 12 + 53 > 255

\* An answer is one chain: it starts at the question's name, or at the DNAME above it, every alias
\* points to the owner of the next RRset, the loop stands at the last one, and no alias comes twice.
ChainConnected ==
    LET chain == SelectSeq(reply.answer, LAMBDA rr : rr.type # "DNAME")
    IN Answered /\ chain # <<>> =>
        /\ chain[1].owner = query.name
        /\ IsInjective(chain)
        /\ \A i \in 1..Len(chain) - 1 : chain[i].to = <<chain[i + 1].owner>>
        /\ \/ chain[Len(chain)].owner = owner
           \/ chain[Len(chain)].type = "CNAME" /\ chain[Len(chain)].to[1] = owner

\* A client that follows up gets the same data: each RRset of an answer is in the answer to a
\* question for its owner and type, and the additional section is all that a client gets that asks
\* for the addresses of the answer's targets.
FollowUpsAgree ==
    LET direct(n, kind) == {rr \in ToSet(Lookup(n, kind).answer) : rr.type = kind}
        pointers == {rr \in ToSet(reply.answer) : rr.type \in {"NS", "MX", "SRV"}}
    IN Answered /\ reply.aa =>
        /\ \A rr \in ToSet(reply.answer) : rr \in direct(rr.owner, rr.type)
        /\ ToSet(reply.additional) =
              UNION {direct(t, k) : t \in UNION {ToSet(rr.to) : rr \in pointers}, k \in {"A", "AAAA"}}

\* A question without an answer of its type is denied by one SOA, that of the nearest enclosing
\* name that answers an SOA question itself (for a DS, enclosing and not equal to the name), and
\* it is the SOA RRset that question gets.
DeniedByNearestZone ==
    LET served(n) == {rr \in ToSet(Lookup(n, "SOA").answer) : rr.owner = n /\ rr.type = "SOA"}
        mayDeny(n) == Below(owner, n) /\ ~(n = owner /\ query.kind = "DS") /\ served(n) # {}
        nearest == IF mayDeny(Cut(owner)) THEN Cut(owner) ELSE Zone
        unanswered == \A rr \in ToSet(reply.answer) : rr.type \in {"CNAME", "DNAME"} \ {query.kind}
    IN Answered /\ reply.aa /\ unanswered /\ query.kind # "ANY" /\ reply.rcode # "YXDOMAIN"
        => /\ Len(reply.authority) = 1
           /\ ToSet(reply.authority) = served(nearest)

\* Whether a name exists does not depend on the type asked for.
NxdomainEveryType ==
    Answered /\ reply.rcode = "NXDOMAIN" => \A k \in Kinds : Lookup(query.name, k).rcode = "NXDOMAIN"

\* Below a cut that is not served here every question is referred, to the same servers and with the
\* same glue as the cut itself: the parent makes no authoritative answer of its glue.
ReferralKept ==
    Answered /\ query.name.label \in Referrals /\ ~(query.name = Cut(query.name) /\ query.kind = "DS") =>
        /\ reply = Lookup(Cut(query.name), "NS")
        /\ ~reply.aa /\ reply.answer = <<>>

\* What a client may rely on after truncation: TC is set exactly when part of the answer or the
\* authority, or an address the referral cannot be followed without, was left out.
HonestTruncation ==
    LET glueless == \E rr \in ToSet(reply.additional) \ ToSet(sent.reply.additional) :
                        /\ ~reply.aa
                        /\ \E s \in ToSet(reply.authority) : rr.owner = s.to[1] /\ Below(rr.owner, s.owner)
    IN phase = "sent" =>
        (sent.tc <=> sent.reply.answer # reply.answer \/ sent.reply.authority # reply.authority \/ glueless)
=============================================================================
