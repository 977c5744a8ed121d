----------------------------- MODULE UdpExchange -----------------------------
(***************************************************************************)
(* The UDP half of the fault proxy: one handler thread per datagram        *)
(* (_UDPHandler.handle), which answers, truncates, drops or forwards it,   *)
(* and forward_udp, which tries BIND's addresses one after another, each   *)
(* from a socket of its own.  The network loses, delays, reorders and      *)
(* duplicates datagrams, and the kernel may give a socket the port of one  *)
(* that was closed, with answers to the former still on their way.         *)
(***************************************************************************)
EXTENDS Integers

CONSTANTS
  Handler,      \* handler threads, one for each datagram received
  Id,           \* transaction IDs
  Port,         \* ports the kernel gives to sockets towards BIND
  MaxAddresses  \* bound of the model: how many addresses BIND's name has

(***************************************************************************)
(* What a query selects.  "qr": fresh, with QR set, so no answer is made;  *)
(* "malformed": no question name can be read; "unparsable": force-tcp with *)
(* additional records that dnspython rejects; "ordinary": every other name.*)
(***************************************************************************)
Fresh == {"fresh", "qr"}
Dropped == {"close-before-response", "stall"}
Truncating == {"force-tcp", "unparsable"}
Forwarded == {"ordinary", "delayed"}
Key == Fresh \cup Dropped \cup Truncating \cup Forwarded \cup {"malformed"}
Query == [key : Key, id : Id]

Place == {"new", "resolve", "send", "wait", "reply", "done"}
Reason == {"", "format", "timeout", "network", "raised"}
(* A datagram between the proxy and BIND: the proxy's port, and the        *)
(* handler whose query it carries or answers.                              *)
Datagram == [port : Port, of : Handler]

ASSUME ConstantsAssumption ==
  /\ Port \subseteq Nat \ {0}
  /\ MaxAddresses \in Nat
NoPort == 0

VARIABLES
  ask,        \* the query each handler is given
  pc,         \* where each handler is
  addresses,  \* how many addresses its getaddrinfo found
  tried,      \* how many of them it has tried
  port,       \* the port of its socket, while it waits
  lastError,  \* last_error in forward_udp, or why it failed
  answered,   \* the reply it has for its client: by whose answer, or its own
  told,       \* the handlers whose client was sent that reply
  toBind, toProxy, \* datagrams that were sent, either way
  listening   \* the server's socket is open

vars == <<ask, pc, addresses, tried, port, lastError, answered, told,
          toBind, toProxy, listening>>
netVars == <<toBind, toProxy>>
tryVars == <<addresses, tried, port>>

Local == {"fresh answer", "truncated answer"}
Nothing == "none"
ASSUME HandlerAssumption == Handler \cap (Local \cup {Nothing}) = {}

TypeOK ==
  /\ ask \in [Handler -> Query]
  /\ pc \in [Handler -> Place]
  /\ addresses \in [Handler -> 0 .. MaxAddresses]
  /\ tried \in [Handler -> 0 .. MaxAddresses]
  /\ port \in [Handler -> Port \cup {NoPort}]
  /\ lastError \in [Handler -> Reason]
  /\ answered \in [Handler -> Handler \cup Local \cup {Nothing}]
  /\ told \subseteq Handler
  /\ toBind \subseteq Datagram /\ toProxy \subseteq Datagram
  /\ listening \in BOOLEAN

Init ==
  /\ ask \in [Handler -> Query]
  /\ pc = [h \in Handler |-> "new"]
  /\ addresses = [h \in Handler |-> 0]
  /\ tried = [h \in Handler |-> 0]
  /\ port = [h \in Handler |-> NoPort]
  /\ lastError = [h \in Handler |-> ""]
  /\ answered = [h \in Handler |-> Nothing]
  /\ told = {}
  /\ toBind = {} /\ toProxy = {}
  /\ listening = TRUE

-----------------------------------------------------------------------------
(* Parts of a handler's steps. *)

GoTo(h, place) == pc' = [pc EXCEPT ![h] = place]

(* handle() ends without a reply, having logged `reason` or raised. *)
End(h, reason) ==
  /\ GoTo(h, "done")
  /\ lastError' = [lastError EXCEPT ![h] = reason]
  /\ UNCHANGED <<answered, told>>

(* It has a reply to send. *)
Have(h, reply) ==
  /\ GoTo(h, "reply")
  /\ answered' = [answered EXCEPT ![h] = reply]
  /\ UNCHANGED <<lastError, told>>

(* Mutant: the first failure is raised at once. *)
NoNextAddress(h, reason) ==
  /\ lastError' = [lastError EXCEPT ![h] = reason]
  /\ GoTo(h, "done")
  /\ UNCHANGED <<answered, told>>

(* An attempt failed with an OSError: the next address, or the last error. *)
NextAddress(h, reason) ==
  /\ lastError' = [lastError EXCEPT ![h] = reason]
  /\ GoTo(h, IF tried'[h] < addresses[h] THEN "send" ELSE "done")
  /\ UNCHANGED <<answered, told>>

Open(p) == \E h \in Handler : port[h] = p

-----------------------------------------------------------------------------
(* handle(): what the query selects. *)

(* Mutant: a stall is only for TCP, and its query is forwarded. *)
DispatchStalling(h) ==
  LET key == ask[h].key
  IN \/ key = "fresh" /\ Have(h, "fresh answer")
     \/ key \in {"qr", "close-before-response"} /\ End(h, "")
     \/ key = "force-tcp" /\ Have(h, "truncated answer")
     \/ key = "unparsable" /\ End(h, "raised")
     \/ key = "malformed" /\ End(h, "format")
     \/ key \in Forwarded \cup {"stall"} /\ GoTo(h, "resolve")
        /\ UNCHANGED <<answered, told, lastError>>

Dispatch(h) ==
  LET key == ask[h].key
  IN \/ key = "fresh" /\ Have(h, "fresh answer")
     \/ key \in Dropped \cup {"qr"} /\ End(h, "")
     \/ key = "force-tcp" /\ Have(h, "truncated answer")
     \/ key = "unparsable" /\ End(h, "raised")
     \/ key = "malformed" /\ End(h, "format")
     \/ key \in Forwarded /\ GoTo(h, "resolve")
        /\ UNCHANGED <<answered, told, lastError>>

Begin(h) ==
  /\ pc[h] = "new"
  /\ Dispatch(h)
  /\ UNCHANGED <<ask, tryVars, netVars, listening>>

(* getaddrinfo: some addresses, or none at all. *)
Resolve(h) ==
  /\ pc[h] = "resolve"
  /\ \E n \in 0 .. MaxAddresses :
       /\ addresses' = [addresses EXCEPT ![h] = n]
       /\ IF n = 0 THEN End(h, "network")
                   ELSE GoTo(h, "send") /\ UNCHANGED <<lastError, answered, told>>
  /\ UNCHANGED <<ask, tried, port, netVars, listening>>

(* Mutant: the loop tries the same address again and again. *)
SendUpstreamAgain(h) ==
  /\ pc[h] = "send"
  /\ \E p \in Port :
       /\ ~Open(p)
       /\ port' = [port EXCEPT ![h] = p]
       /\ toBind' = toBind \cup {[port |-> p, of |-> h]}
  /\ GoTo(h, "wait")
  /\ UNCHANGED <<ask, addresses, tried, lastError, answered, told, toProxy, listening>>

(* A new socket towards the next address; the query leaves from its port. *)
SendUpstream(h) ==
  /\ pc[h] = "send"
  /\ tried' = [tried EXCEPT ![h] = @ + 1]
  /\ \E p \in Port :
       /\ ~Open(p)
       /\ port' = [port EXCEPT ![h] = p]
       /\ toBind' = toBind \cup {[port |-> p, of |-> h]}
  /\ GoTo(h, "wait")
  /\ UNCHANGED <<ask, addresses, lastError, answered, told, toProxy, listening>>

(* There is no socket to be had, no route, or no permission to send. *)
SendFails(h) ==
  /\ pc[h] = "send"
  /\ tried' = [tried EXCEPT ![h] = @ + 1]
  /\ NextAddress(h, "network")
  /\ UNCHANGED <<ask, addresses, port, netVars, listening>>

(* Mutant: the transaction ID is not compared. *)
ReceiveUnchecked(h, d) ==
  /\ pc[h] = "wait" /\ d.port = port[h]
  /\ port' = [port EXCEPT ![h] = NoPort]
  /\ Have(h, d.of)
  /\ UNCHANGED <<ask, addresses, tried, netVars, listening>>

(* recvfrom, from whoever sends to the port; the socket is closed, and     *)
(* another transaction ID is an error that ends the attempts (as would be  *)
(* an answer shorter than a header, which BIND does not send).             *)
Receive(h, d) ==
  /\ pc[h] = "wait" /\ d.port = port[h]
  /\ port' = [port EXCEPT ![h] = NoPort]
  /\ \/ ask[d.of].id = ask[h].id /\ Have(h, d.of)
     \/ ask[d.of].id # ask[h].id /\ End(h, "format")
  /\ UNCHANGED <<ask, addresses, tried, netVars, listening>>

(* No answer in time, or not yet. *)
TimesOut(h) ==
  /\ pc[h] = "wait"
  /\ port' = [port EXCEPT ![h] = NoPort]
  /\ tried' = tried
  /\ NextAddress(h, "timeout")
  /\ UNCHANGED <<ask, addresses, netVars, listening>>

(* The reply goes out by the server's socket, if the server is not stopped.*)
Reply(h) ==
  /\ pc[h] = "reply"
  /\ IF listening
     THEN GoTo(h, "done") /\ told' = told \cup {h} /\ UNCHANGED <<lastError, answered>>
     ELSE End(h, "network")
  /\ UNCHANGED <<ask, tryVars, netVars, listening>>

-----------------------------------------------------------------------------
(* BIND answers a datagram that reaches it.  A datagram stays where it is: *)
(* a lost one is never taken up, a duplicate is taken up twice.            *)
BindAnswers(d) ==
  /\ toProxy' = toProxy \cup {d}
  /\ UNCHANGED <<ask, pc, tryVars, lastError, answered, told, toBind, listening>>

(* udp_server.server_close() in run(): handlers in progress keep going. *)
ServerClose ==
  /\ listening /\ listening' = FALSE
  /\ UNCHANGED <<ask, pc, tryVars, lastError, answered, told, netVars>>

-----------------------------------------------------------------------------
HandlerStep(h) ==
  \/ Begin(h) \/ Resolve(h) \/ SendUpstream(h) \/ SendFails(h)
  \/ \E d \in toProxy : Receive(h, d)
  \/ TimesOut(h) \/ Reply(h)

Next ==
  \/ \E h \in Handler : HandlerStep(h)
  \/ \E d \in toBind : BindAnswers(d)
  \/ ServerClose

Spec == Init /\ [][Next]_vars

(* Handler threads run; the network and BIND owe nothing. *)
FairSpec == Spec /\ \A h \in Handler : WF_vars(HandlerStep(h))

-----------------------------------------------------------------------------
(* A client is sent an answer to its own transaction ID, however late or   *)
(* often answers to other queries come to a port that was given out again. *)
(* (Only the ID is compared: an answer to another query with the same ID   *)
(* would pass; checked with the type of the state.)                        *)
ReplyMatches ==
  /\ TypeOK
  /\ \A h \in told : answered[h] \notin Local => ask[answered[h]].id = ask[h].id

(* A query whose scenario is to be dropped, truncated or answered here is  *)
(* never heard of by BIND, and its client is sent that and nothing else.   *)
StimulusOnly ==
  /\ \A d \in toBind \cup toProxy : ask[d.of].key \in Forwarded
  /\ \A h \in told : /\ answered[h] = "fresh answer" <=> ask[h].key = "fresh"
                     /\ answered[h] = "truncated answer" <=> ask[h].key = "force-tcp"
                     /\ answered[h] \notin Local <=> ask[h].key \in Forwarded

(* A forwarded query ends without an answer in two ways only: with a       *)
(* timeout or a network error when every address has been tried, so that   *)
(* one silent or unreachable address never hides a working one; or with a  *)
(* format error, its other addresses untried, when an answer with another  *)
(* transaction ID came to the proxy.                                       *)
Misled(h) == \E d \in toProxy : ask[d.of].id # ask[h].id
AllTried ==
  \A h \in Handler :
    pc[h] = "done" /\ answered[h] = Nothing /\ ask[h].key \in Forwarded
      => \/ lastError[h] \in {"timeout", "network"} /\ tried[h] = addresses[h]
         \/ lastError[h] = "format" /\ Misled(h)

(* Every handler ends, whatever is lost or late: its permit comes back. *)
HandlersEnd == \A h \in Handler : <>(pc[h] = "done")
=============================================================================
