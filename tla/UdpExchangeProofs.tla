------------------------- MODULE UdpExchangeProofs -------------------------
(***************************************************************************)
(* Theorems about UdpExchange, for any handlers, transaction IDs, ports    *)
(* and number of BIND's addresses: a client is answered by its own ID,     *)
(* what is to be dropped or made up never reaches BIND, and no address is  *)
(* left untried by a handler that gives up for the network's sake.         *)
(***************************************************************************)
EXTENDS UdpExchange, TLAPS

(* Where a handler may be with its query: only forwarded ones get beyond   *)
(* the dispatch without a reply, and they try one address after another.   *)
AttemptInv(h) ==
  /\ pc[h] \in {"resolve", "send", "wait"} => ask[h].key \in Forwarded
  /\ pc[h] \in {"new", "resolve"} => tried[h] = 0 /\ addresses[h] = 0
  /\ pc[h] = "send" => tried[h] < addresses[h]
  /\ pc[h] = "wait" => tried[h] <= addresses[h]

(* The reply a handler has is the one its query selects; if it is BIND's,  *)
(* it carries the query's transaction ID.                                  *)
AnswerInv(h) ==
  /\ pc[h] \in {"new", "resolve", "send", "wait"} => answered[h] = Nothing
  /\ pc[h] = "reply" => answered[h] # Nothing
  /\ h \in told => answered[h] # Nothing /\ pc[h] = "done"
  /\ answered[h] = "fresh answer" => ask[h].key = "fresh"
  /\ answered[h] = "truncated answer" => ask[h].key = "force-tcp"
  /\ answered[h] \in Handler => ask[h].key \in Forwarded /\ ask[answered[h]].id = ask[h].id

(* forward_udp's last error comes from its last address, or from an answer *)
(* to another query.                                                       *)
TriedInv(h) ==
  pc[h] = "done" /\ answered[h] = Nothing /\ ask[h].key \in Forwarded
    => \/ lastError[h] \in {"timeout", "network"} /\ tried[h] = addresses[h]
       \/ lastError[h] = "format" /\ Misled(h)

HandlerInv(h) == AttemptInv(h) /\ AnswerInv(h) /\ TriedInv(h)

(* Only forwarded queries are under way, or answered, outside. *)
NetInv == \A d \in toBind \cup toProxy : ask[d.of].key \in Forwarded

IInv == TypeOK /\ NetInv /\ \A h \in Handler : HandlerInv(h)

-----------------------------------------------------------------------------
(* MaxAddresses is a number. *)
LEMMA AddressBound == MaxAddresses \in Nat
BY ConstantsAssumption

(* The kinds of key exclude each other. *)
LEMMA KeysApart ==
  /\ \A k \in Forwarded : k # "fresh" /\ k # "force-tcp"
  /\ \A h \in Handler : h # Nothing /\ h \notin Local
BY HandlerAssumption DEF Forwarded, Local, Nothing

(* Handlers are given a query and have done nothing. *)
LEMMA InitIInv == Init => IInv
<1> SUFFICES ASSUME Init PROVE IInv
  OBVIOUS
<1>1. TypeOK
  <2>1. 0 \in 0 .. MaxAddresses /\ "new" \in Place /\ "" \in Reason
    BY AddressBound DEF Place, Reason
  <2> QED
    BY <2>1 DEF Init, TypeOK
<1>2. NetInv
  BY DEF Init, NetInv
<1>3. ASSUME NEW h \in Handler PROVE HandlerInv(h)
  BY KeysApart DEF Init, HandlerInv, AttemptInv, AnswerInv, TriedInv, Nothing
<1> QED
  BY <1>1, <1>2, <1>3 DEF IInv

(* A step of one handler leaves what is known of the others. *)
LEMMA OtherHandlers ==
  ASSUME TypeOK, NEW g \in Handler, NEW h \in Handler, h # g, HandlerInv(h),
         ask' = ask,
         pc'[h] = pc[h], addresses'[h] = addresses[h], tried'[h] = tried[h],
         lastError'[h] = lastError[h], answered'[h] = answered[h],
         told' \in {told, told \cup {g}}, toProxy \subseteq toProxy'
  PROVE  HandlerInv(h)'
<1>1. h \in told' <=> h \in told
  OBVIOUS
<1>2. AttemptInv(h)' /\ TriedInv(h)'
  BY DEF HandlerInv, AttemptInv, TriedInv, Misled
<1>3. AnswerInv(h)'
  BY <1>1 DEF HandlerInv, AnswerInv
<1> QED
  BY <1>2, <1>3 DEF HandlerInv

-----------------------------------------------------------------------------
(* handle() finds out what its query selects. *)
LEMMA BeginIInv ==
  ASSUME IInv, NEW g \in Handler, Begin(g)
  PROVE  IInv'
<1> USE DEF IInv, Begin, Dispatch, Have, End, GoTo, tryVars, netVars
<1>1. ask[g] \in Query /\ ask[g].key \in Key
  BY DEF TypeOK, Query
<1>2. TypeOK'
  BY DEF TypeOK, Place, Reason, Local
<1>3. NetInv'
  BY DEF NetInv
<1>4. HandlerInv(g)'
  <2>1. pc[g] = "new" /\ tried[g] = 0 /\ addresses[g] = 0 /\ answered[g] = Nothing /\ g \notin told
    BY DEF HandlerInv, AttemptInv, AnswerInv
  <2>2. CASE ask[g].key = "fresh"
    <3>1. pc'[g] = "reply" /\ answered'[g] = "fresh answer"
      BY <2>2 DEF TypeOK, Dropped, Forwarded
    <3> QED
      BY <2>1, <2>2, <3>1, KeysApart DEF HandlerInv, AttemptInv, AnswerInv, TriedInv, TypeOK, Local, Nothing, Forwarded, Dropped
  <2>3. CASE ask[g].key = "force-tcp"
    <3>1. pc'[g] = "reply" /\ answered'[g] = "truncated answer"
      BY <2>3 DEF TypeOK, Dropped, Forwarded
    <3> QED
      BY <2>1, <2>3, <3>1, KeysApart DEF HandlerInv, AttemptInv, AnswerInv, TriedInv, TypeOK, Local, Nothing, Forwarded, Dropped
  <2>4. CASE ask[g].key \in Forwarded
    <3>1. pc'[g] = "resolve" /\ answered' = answered
      BY <2>4 DEF TypeOK, Dropped, Forwarded
    <3> QED
      BY <2>1, <2>4, <3>1, KeysApart DEF HandlerInv, AttemptInv, AnswerInv, TriedInv, TypeOK, Nothing, Forwarded
  <2>5. CASE ask[g].key \notin Forwarded \cup {"fresh", "force-tcp"}
    <3>1. pc'[g] = "done" /\ answered' = answered /\ lastError'[g] \in {"", "raised", "format"}
      BY <2>5 DEF TypeOK
    <3> QED
      BY <2>1, <2>5, <3>1, KeysApart DEF HandlerInv, AttemptInv, AnswerInv, TriedInv, TypeOK, Nothing
  <2> QED
    BY <2>2, <2>3, <2>4, <2>5
<1>5. ASSUME NEW h \in Handler, h # g PROVE HandlerInv(h)'
  BY <1>5, OtherHandlers DEF TypeOK
<1> QED
  BY <1>2, <1>3, <1>4, <1>5

(* getaddrinfo answers. *)
LEMMA ResolveIInv ==
  ASSUME IInv, NEW g \in Handler, Resolve(g)
  PROVE  IInv'
<1> USE DEF IInv, Resolve, End, GoTo, netVars
<1>1. TypeOK'
  <2>1. PICK n \in 0 .. MaxAddresses :
          /\ addresses' = [addresses EXCEPT ![g] = n]
          /\ pc' = [pc EXCEPT ![g] = IF n = 0 THEN "done" ELSE "send"]
          /\ lastError' = lastError \/ lastError' = [lastError EXCEPT ![g] = "network"]
          /\ answered' = answered /\ told' = told
    OBVIOUS
  <2>2. addresses' \in [Handler -> 0 .. MaxAddresses]
    BY <2>1, Zenon DEF TypeOK
  <2>3. pc' \in [Handler -> Place] /\ lastError' \in [Handler -> Reason]
    <3>1. /\ pc \in [Handler -> Place] /\ lastError \in [Handler -> Reason]
          /\ "network" \in Reason /\ (IF n = 0 THEN "done" ELSE "send") \in Place
      BY Zenon DEF TypeOK, Place, Reason
    <3> HIDE DEF IInv, Resolve
    <3> QED
      BY <2>1, <3>1, Zenon
  <2>4. ask' = ask /\ tried' = tried /\ port' = port /\ toBind' = toBind /\ toProxy' = toProxy
        /\ listening' = listening
    BY Zenon
  <2> QED
    BY <2>1, <2>2, <2>3, <2>4, Zenon DEF TypeOK
<1>2. NetInv'
  BY DEF NetInv
<1>3. HandlerInv(g)'
  <2>1. /\ ask[g].key \in Forwarded /\ tried[g] = 0
        /\ answered[g] = Nothing /\ g \notin told
    BY DEF HandlerInv, AttemptInv, AnswerInv
  <2>2. PICK n \in 0 .. MaxAddresses :
          /\ addresses' = [addresses EXCEPT ![g] = n]
          /\ pc' = [pc EXCEPT ![g] = IF n = 0 THEN "done" ELSE "send"]
          /\ n = 0 => lastError' = [lastError EXCEPT ![g] = "network"]
    OBVIOUS
  <2>3. /\ addresses'[g] = n /\ pc'[g] = (IF n = 0 THEN "done" ELSE "send")
        /\ n = 0 => lastError'[g] = "network"
    BY <2>2 DEF TypeOK
  <2>4. n \in Nat /\ tried'[g] = 0 /\ ask' = ask /\ answered'[g] = Nothing /\ told' = told
    BY <2>1, AddressBound
  <2> HIDE DEF IInv, Resolve, End
  <2> QED
    BY <2>1, <2>3, <2>4, KeysApart
    DEF HandlerInv, AttemptInv, AnswerInv, TriedInv, Nothing
<1>4. ASSUME NEW h \in Handler, h # g PROVE HandlerInv(h)'
  BY <1>4, OtherHandlers DEF TypeOK
<1> QED
  BY <1>1, <1>2, <1>3, <1>4

(* A socket is opened and the query sent from it. *)
LEMMA SendUpstreamIInv ==
  ASSUME IInv, NEW g \in Handler, SendUpstream(g)
  PROVE  IInv'
<1> USE DEF IInv, SendUpstream, GoTo
<1>1. /\ ask[g].key \in Forwarded /\ tried[g] < addresses[g]
      /\ answered[g] = Nothing /\ g \notin told
  BY DEF HandlerInv, AttemptInv, AnswerInv
<1>2. PICK p \in Port :
        port' = [port EXCEPT ![g] = p] /\ toBind' = toBind \cup {[port |-> p, of |-> g]}
  OBVIOUS
<1>3. tried[g] \in Nat /\ addresses[g] \in 0 .. MaxAddresses /\ MaxAddresses \in Nat
  BY AddressBound DEF TypeOK
<1>4. TypeOK'
  <2>1. tried[g] + 1 \in 0 .. MaxAddresses
    BY <1>1, <1>3
  <2> QED
    BY <1>2, <2>1 DEF TypeOK, Place, Datagram
<1>5. NetInv'
  BY <1>1, <1>2 DEF NetInv
<1>6. HandlerInv(g)'
  <2>1. /\ pc'[g] = "wait" /\ tried'[g] = tried[g] + 1 /\ addresses' = addresses
        /\ ask' = ask /\ answered'[g] = Nothing /\ told' = told
    BY <1>1 DEF TypeOK
  <2>2. tried[g] \in Nat /\ addresses[g] \in Nat
    BY <1>3
  <2> HIDE DEF IInv, SendUpstream
  <2> QED
    BY <1>1, <2>1, <2>2, KeysApart DEF HandlerInv, AttemptInv, AnswerInv, TriedInv, Nothing
<1>7. ASSUME NEW h \in Handler, h # g PROVE HandlerInv(h)'
  BY <1>7, OtherHandlers DEF TypeOK
<1> QED
  BY <1>4, <1>5, <1>6, <1>7

(* An attempt that failed, with its address counted, is followed by the    *)
(* next address or by the end.                                             *)
LEMMA NextAddressInv ==
  ASSUME IInv, NEW g \in Handler, NEW reason \in Reason, NextAddress(g, reason),
         ask' = ask, addresses' = addresses,
         ask[g].key \in Forwarded, answered[g] = Nothing, g \notin told,
         tried'[g] \in Nat, tried'[g] <= addresses[g],
         reason \in {"timeout", "network"}
  PROVE  HandlerInv(g)'
<1>1. addresses[g] \in Nat
  BY AddressBound DEF IInv, TypeOK
<1>2. /\ pc'[g] = (IF tried'[g] < addresses[g] THEN "send" ELSE "done")
      /\ answered'[g] = Nothing /\ told' = told /\ lastError'[g] = reason
  BY DEF IInv, TypeOK, NextAddress, GoTo
<1>3. CASE tried'[g] < addresses[g]
  BY <1>1, <1>2, <1>3, KeysApart DEF HandlerInv, AttemptInv, AnswerInv, TriedInv, Nothing
<1>4. CASE tried'[g] = addresses[g]
  BY <1>1, <1>2, <1>4, KeysApart DEF HandlerInv, AttemptInv, AnswerInv, TriedInv, Nothing
<1> QED
  BY <1>1, <1>3, <1>4

(* The query cannot be sent to this address. *)
LEMMA SendFailsIInv ==
  ASSUME IInv, NEW g \in Handler, SendFails(g)
  PROVE  IInv'
<1> USE DEF IInv, SendFails, NextAddress, GoTo, netVars
<1>1. /\ ask[g].key \in Forwarded /\ tried[g] < addresses[g]
      /\ answered[g] = Nothing /\ g \notin told
  BY DEF HandlerInv, AttemptInv, AnswerInv
<1>2. tried[g] \in Nat /\ addresses[g] \in 0 .. MaxAddresses /\ MaxAddresses \in Nat
  BY AddressBound DEF TypeOK
<1>3. tried[g] + 1 \in 0 .. MaxAddresses
  BY <1>1, <1>2
<1>4. TypeOK'
  BY <1>3 DEF TypeOK, Place, Reason
<1>5. NetInv'
  BY DEF NetInv
<1>6. HandlerInv(g)'
  <2>1. /\ tried'[g] = tried[g] + 1 /\ addresses' = addresses /\ ask' = ask
        /\ NextAddress(g, "network") /\ "network" \in Reason
    BY DEF TypeOK, Reason
  <2>2. tried'[g] \in Nat /\ tried'[g] <= addresses[g]
    BY <1>1, <1>2, <2>1
  <2> HIDE DEF IInv, SendFails, NextAddress
  <2> QED
    BY <1>1, <2>1, <2>2, NextAddressInv
<1>7. ASSUME NEW h \in Handler, h # g PROVE HandlerInv(h)'
  BY <1>7, OtherHandlers DEF TypeOK
<1> QED
  BY <1>4, <1>5, <1>6, <1>7

(* No answer came in time. *)
LEMMA TimesOutIInv ==
  ASSUME IInv, NEW g \in Handler, TimesOut(g)
  PROVE  IInv'
<1> USE DEF IInv, TimesOut, NextAddress, GoTo, netVars
<1>1. /\ ask[g].key \in Forwarded /\ tried[g] <= addresses[g]
      /\ answered[g] = Nothing /\ g \notin told
  BY DEF HandlerInv, AttemptInv, AnswerInv
<1>2. tried[g] \in Nat
  BY AddressBound DEF TypeOK
<1>3. TypeOK'
  BY DEF TypeOK, Place, Reason
<1>4. NetInv'
  BY DEF NetInv
<1>5. HandlerInv(g)'
  <2>1. tried'[g] = tried[g] /\ NextAddress(g, "timeout") /\ "timeout" \in Reason
    BY DEF TypeOK, Reason
  <2> QED
    BY <1>1, <1>2, <2>1, NextAddressInv
<1>6. ASSUME NEW h \in Handler, h # g PROVE HandlerInv(h)'
  BY <1>6, OtherHandlers DEF TypeOK
<1> QED
  BY <1>3, <1>4, <1>5, <1>6

(* A datagram comes to the port: the answer, if it has the query's ID. *)
LEMMA ReceiveIInv ==
  ASSUME IInv, NEW g \in Handler, NEW d \in toProxy, Receive(g, d)
  PROVE  IInv'
<1> USE DEF IInv, Receive, Have, End, GoTo, netVars
<1>1. ask[g].key \in Forwarded /\ answered[g] = Nothing /\ g \notin told /\ d.of \in Handler
  BY DEF HandlerInv, AttemptInv, AnswerInv, TypeOK, Datagram
<1>2. TypeOK'
  BY <1>1 DEF TypeOK, Place, Reason
<1>3. NetInv'
  BY DEF NetInv
<1>4. HandlerInv(g)'
  <2>1. CASE ask[d.of].id = ask[g].id /\ Have(g, d.of)
    <3>1. pc'[g] = "reply" /\ answered'[g] = d.of /\ ask' = ask /\ told' = told
      BY <2>1 DEF TypeOK
    <3>2. d.of # "fresh answer" /\ d.of # "truncated answer" /\ d.of # Nothing
      BY <1>1, KeysApart DEF Local
    <3> QED
      BY <1>1, <2>1, <3>1, <3>2 DEF HandlerInv, AttemptInv, AnswerInv, TriedInv
  <2>2. CASE ask[d.of].id # ask[g].id /\ End(g, "format")
    <3>1. /\ pc'[g] = "done" /\ lastError'[g] = "format" /\ answered'[g] = Nothing
          /\ ask' = ask /\ told' = told
      BY <1>1, <2>2 DEF TypeOK
    <3>2. Misled(g)'
      BY <2>2 DEF Misled
    <3> QED
      BY <1>1, <3>1, <3>2, KeysApart DEF HandlerInv, AttemptInv, AnswerInv, TriedInv, Nothing
  <2> QED
    BY <2>1, <2>2
<1>5. ASSUME NEW h \in Handler, h # g PROVE HandlerInv(h)'
  BY <1>5, OtherHandlers DEF TypeOK
<1> QED
  BY <1>2, <1>3, <1>4, <1>5

(* The reply goes to the client, unless the server's socket is closed. *)
LEMMA ReplyIInv ==
  ASSUME IInv, NEW g \in Handler, Reply(g)
  PROVE  IInv'
<1> USE DEF IInv, Reply, End, GoTo, netVars, tryVars
<1>1. TypeOK'
  BY DEF TypeOK, Place, Reason
<1>2. NetInv'
  BY DEF NetInv
<1>3. HandlerInv(g)'
  <2>1. answered[g] # Nothing /\ AnswerInv(g)
    BY DEF HandlerInv, AnswerInv
  <2>2. pc'[g] = "done" /\ answered' = answered /\ ask' = ask
    BY DEF TypeOK
  <2> HIDE DEF IInv, Reply
  <2> QED
    BY <2>1, <2>2 DEF HandlerInv, AttemptInv, AnswerInv, TriedInv
<1>4. ASSUME NEW h \in Handler, h # g PROVE HandlerInv(h)'
  BY <1>4, OtherHandlers DEF TypeOK
<1> QED
  BY <1>1, <1>2, <1>3, <1>4

(* BIND, the stop of the server, and steps that change nothing here. *)
LEMMA OutsideIInv ==
  ASSUME IInv, (\E d \in toBind : BindAnswers(d)) \/ ServerClose \/ UNCHANGED vars
  PROVE  IInv'
<1> USE DEF IInv, BindAnswers, ServerClose, vars, tryVars, netVars
<1>1. TypeOK'
  BY DEF TypeOK
<1>2. NetInv'
  BY DEF NetInv
<1>3. ASSUME NEW h \in Handler PROVE HandlerInv(h)'
  <2>1. /\ ask' = ask /\ pc' = pc /\ addresses' = addresses /\ tried' = tried
        /\ lastError' = lastError /\ answered' = answered /\ told' = told
    OBVIOUS
  <2>2. Misled(h) => Misled(h)'
    <3>1. toProxy \subseteq toProxy'
      OBVIOUS
    <3> QED
      BY <2>1, <3>1 DEF Misled
  <2> HIDE DEF IInv, BindAnswers, ServerClose, vars
  <2>3. TriedInv(h)'
    BY <2>1, <2>2 DEF IInv, HandlerInv, TriedInv
  <2> QED
    BY <2>1, <2>3 DEF IInv, HandlerInv, AttemptInv, AnswerInv
<1> QED
  BY <1>1, <1>2, <1>3

LEMMA NextIInv == IInv /\ [Next]_vars => IInv'
<1> SUFFICES ASSUME IInv, [Next]_vars PROVE IInv'
  OBVIOUS
<1>1. ASSUME NEW h \in Handler, HandlerStep(h) PROVE IInv'
  BY <1>1, BeginIInv, ResolveIInv, SendUpstreamIInv, SendFailsIInv, TimesOutIInv,
     ReceiveIInv, ReplyIInv
  DEF HandlerStep
<1> QED
  BY <1>1, OutsideIInv DEF Next

(* The invariant above holds of every state the handlers come to. *)
THEOREM Invariant == Spec => []IInv
<1>1. Init => IInv
  BY InitIInv
<1>2. IInv /\ [Next]_vars => IInv'
  BY NextIInv
<1> QED
  BY <1>1, <1>2, PTL DEF Spec

-----------------------------------------------------------------------------
(* A client is only ever sent an answer to its own transaction ID, however *)
(* late or often answers come and whatever ports are given out again       *)
(* (_validate_upstream_response).                                          *)
THEOREM AnswersMatch == Spec => []ReplyMatches
<1>1. IInv => ReplyMatches
  <2> SUFFICES ASSUME IInv, NEW h \in told, answered[h] \notin Local
               PROVE  ask[answered[h]].id = ask[h].id
    BY DEF ReplyMatches, IInv
  <2>1. h \in Handler /\ answered[h] \in Handler
    BY DEF IInv, TypeOK, HandlerInv, AnswerInv
  <2> QED
    BY <2>1 DEF IInv, HandlerInv, AnswerInv
<1> QED
  BY <1>1, Invariant, PTL

(* BIND hears of no query that is to be dropped, truncated or answered by  *)
(* the proxy, and the client of one is sent that and nothing else          *)
(* (_UDPHandler.handle).                                                   *)
THEOREM StimulusKept == Spec => []StimulusOnly
<1>1. IInv => StimulusOnly
  <2> SUFFICES ASSUME IInv, NEW h \in told
               PROVE  /\ answered[h] = "fresh answer" <=> ask[h].key = "fresh"
                      /\ answered[h] = "truncated answer" <=> ask[h].key = "force-tcp"
                      /\ answered[h] \notin Local <=> ask[h].key \in Forwarded
    BY DEF StimulusOnly, IInv, NetInv
  <2>1. h \in Handler /\ AnswerInv(h) /\ answered[h] \in Handler \cup Local
    BY DEF IInv, TypeOK, HandlerInv, AnswerInv
  <2> QED
    BY <2>1, KeysApart DEF AnswerInv, Local
<1> QED
  BY <1>1, Invariant, PTL

(* A forwarded query is left unanswered only when every address that       *)
(* BIND's name has was tried in vain, or an answer to another query came   *)
(* to the proxy (forward_udp).                                             *)
THEOREM EveryAddressTried == Spec => []AllTried
<1>1. IInv => AllTried
  BY DEF IInv, HandlerInv, TriedInv, AllTried
<1> QED
  BY <1>1, Invariant, PTL

=============================================================================
