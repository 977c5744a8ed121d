--------------------------- MODULE BoundedServer ---------------------------
(***************************************************************************)
(* The fault proxy's process: one accept loop per transport, one thread    *)
(* per admitted request, one semaphore shared by both transports, and the  *)
(* main thread that stops it all (fault_proxy/dns_fault_proxy.py, run and  *)
(* _BoundedThreadingMixIn, on top of Python's socketserver).               *)
(*                                                                         *)
(* A request is a TCP connection or a UDP datagram.  What its handler does *)
(* once it runs is another module's business: here it runs, and may end.   *)
(* Whether a client is allowed to ask is decided from its address alone.   *)
(***************************************************************************)
EXTENDS FiniteSets, Integers

CONSTANTS
  TcpRequest,        \* slots for TCP connections; a slot is reused when done
  UdpRequest,        \* slots for UDP datagrams
  Host,              \* hosts, as the bits of an address after its family
  Peer,              \* the source address of each request
  ConfiguredClients, \* the networks of DNS_ALLOWED_CLIENTS
  LoopbackClients,   \* LOOPBACK_CLIENTS, always part of the list
  MaxSessions        \* MAX_SESSIONS, the initial value of the semaphore

Request == TcpRequest \cup UdpRequest
Transport == {"tcp", "udp"}
RequestsOf(t) == IF t = "tcp" THEN TcpRequest ELSE UdpRequest

(* A listener bound to :: sees IPv4 clients as mapped IPv6 addresses. *)
Family == {"v4", "v6", "mapped"}
Address == [family : Family, host : Host]
Network == [family : Family, hosts : SUBSET Host]

ASSUME RequestAssumption == TcpRequest \cap UdpRequest = {}
ASSUME PeerAssumption == Peer \in [Request -> Address]
ASSUME ClientsAssumption ==
  /\ ConfiguredClients \subseteq Network
  /\ LoopbackClients \subseteq Network
ASSUME MaxSessionsAssumption == MaxSessions \in 1 .. 1024

(***************************************************************************)
(* Stages of a request.  "queued": in the kernel's backlog or UDP buffer;  *)
(* "accepted": in the accept loop's hands, its client verified; "admitted":*)
(* holds a permit, no thread yet; "running": its handler runs; "closing":  *)
(* its socket is shut and its permit not yet released.  The others end it. *)
(***************************************************************************)
InHand == {"accepted", "admitted"}
Holding == {"admitted", "running", "closing"}
Ended == {"refused", "overloaded", "failed", "closed", "lost"}
Stage == {"idle", "queued"} \cup InHand \cup Holding \cup Ended

LoopState == {"starting", "select", "ready", "busy", "down"}
MainState == {"serving", "shutdownTcp", "awaitTcp", "shutdownUdp", "awaitUdp",
              "closeTcp", "closeUdp", "join", "exited"}

VARIABLES
  st,         \* the stage of each request
  permits,    \* the value of the shared BoundedSemaphore
  loop,       \* where each transport's serve_forever loop is
  stopFlag,   \* its __shutdown_request flag
  isDown,     \* its __is_shut_down event
  main        \* where the main thread is in run()

vars == <<st, permits, loop, stopFlag, isDown, main>>
loopVars == <<loop, stopFlag, isDown>>

TypeOK ==
  /\ st \in [Request -> Stage]
  /\ permits \in Nat
  /\ loop \in [Transport -> LoopState]
  /\ stopFlag \in [Transport -> BOOLEAN]
  /\ isDown \in [Transport -> BOOLEAN]
  /\ main \in MainState

Init ==
  /\ st = [r \in Request |-> "idle"]
  /\ permits = MaxSessions
  /\ loop = [t \in Transport |-> "starting"]
  /\ stopFlag = [t \in Transport |-> FALSE]
  /\ isDown = [t \in Transport |-> FALSE]
  /\ main = "serving"

Alive == main # "exited"
SocketClosed(t) ==
  main \in (IF t = "tcp" THEN {"closeUdp", "join", "exited"}
                         ELSE {"join", "exited"})

-----------------------------------------------------------------------------
(* Access: the address of the peer, unmapped, in one of the networks. *)

AllowedClients == LoopbackClients \cup ConfiguredClients

Unmapped(a) == IF a.family = "mapped" THEN [a EXCEPT !.family = "v4"] ELSE a

(* Mutant: the address is compared as the listener spells it. *)
VerifyRequestAsSpelled(r) ==
  \E n \in AllowedClients : n.family = Peer[r].family /\ Peer[r].host \in n.hosts

VerifyRequest(r) ==
  LET a == Unmapped(Peer[r])
  IN \E n \in AllowedClients : n.family = a.family /\ a.host \in n.hosts

-----------------------------------------------------------------------------
(* The clients and the kernel. *)

Arrive(r) ==
  /\ \E t \in Transport : r \in RequestsOf(t) /\ ~SocketClosed(t)
  /\ st[r] = "idle"
  /\ st' = [st EXCEPT ![r] = "queued"]
  /\ UNCHANGED <<permits, loopVars, main>>

(* The client is done with the outcome; the slot stands for a new request. *)
Forget(r) ==
  /\ Alive
  /\ st[r] \in Ended
  /\ st' = [st EXCEPT ![r] = "idle"]
  /\ UNCHANGED <<permits, loopVars, main>>

-----------------------------------------------------------------------------
(* serve_forever: test the flag, select, test the flag, handle one request. *)

LoopEnter(t) ==
  /\ Alive /\ loop[t] = "starting"
  /\ isDown' = [isDown EXCEPT ![t] = FALSE]
  /\ loop' = [loop EXCEPT ![t] = "select"]
  /\ UNCHANGED <<st, permits, stopFlag, main>>

(* select() reports a request and the flag was still clear when read. *)
Poll(t) ==
  /\ Alive /\ loop[t] = "select" /\ ~stopFlag[t]
  /\ \E r \in RequestsOf(t) : st[r] = "queued"
  /\ loop' = [loop EXCEPT ![t] = "ready"]
  /\ UNCHANGED <<st, permits, stopFlag, isDown, main>>

(* Mutant: the loop says it is down and goes round once more. *)
LoopExitTooSoon(t) ==
  /\ Alive /\ loop[t] \in {"select", "ready"} /\ stopFlag[t]
  /\ stopFlag' = [stopFlag EXCEPT ![t] = FALSE]
  /\ isDown' = [isDown EXCEPT ![t] = TRUE]
  /\ UNCHANGED <<st, permits, loop, main>>

LoopExit(t) ==
  /\ Alive /\ loop[t] = "select" /\ stopFlag[t]
  /\ stopFlag' = [stopFlag EXCEPT ![t] = FALSE]
  /\ isDown' = [isDown EXCEPT ![t] = TRUE]
  /\ loop' = [loop EXCEPT ![t] = "down"]
  /\ UNCHANGED <<st, permits, main>>

(* get_request, then verify_request: keep the request or close it.  The    *)
(* stop flag may have been set since Poll read it.                         *)
Accept(t, r) ==
  /\ Alive /\ loop[t] = "ready" /\ st[r] = "queued"
  /\ \/ /\ VerifyRequest(r)
        /\ st' = [st EXCEPT ![r] = "accepted"]
        /\ loop' = [loop EXCEPT ![t] = "busy"]
     \/ /\ ~VerifyRequest(r)
        /\ st' = [st EXCEPT ![r] = "refused"]
        /\ loop' = [loop EXCEPT ![t] = "select"]
  /\ UNCHANGED <<permits, stopFlag, isDown, main>>

(* Mutant: the result of acquire is not looked at. *)
AcquireUnchecked(r) ==
  /\ Alive /\ st[r] = "accepted"
  /\ permits' = permits - 1
  /\ st' = [st EXCEPT ![r] = "admitted"]
  /\ UNCHANGED <<loopVars, main>>

(* process_request: acquire(blocking=False) succeeds. *)
Acquire(r) ==
  /\ Alive /\ st[r] = "accepted" /\ permits > 0
  /\ permits' = permits - 1
  /\ st' = [st EXCEPT ![r] = "admitted"]
  /\ UNCHANGED <<loopVars, main>>

(* Mutant: one permit is kept in reserve. *)
OverloadTooSoon(t, r) ==
  /\ Alive /\ st[r] = "accepted" /\ permits <= 1
  /\ st' = [st EXCEPT ![r] = "overloaded"]
  /\ loop' = [loop EXCEPT ![t] = "select"]
  /\ UNCHANGED <<permits, stopFlag, isDown, main>>

(* Mutant: a blocking acquire, so the loop waits for a permit. *)
OverloadWaits(t, r) ==
  /\ Alive /\ loop[t] = "busy" /\ st[r] = "accepted" /\ permits = 0
  /\ UNCHANGED vars

(* process_request: no permit; the request is closed without an answer. *)
Overload(t, r) ==
  /\ Alive /\ st[r] = "accepted" /\ permits = 0
  /\ st' = [st EXCEPT ![r] = "overloaded"]
  /\ loop' = [loop EXCEPT ![t] = "select"]
  /\ UNCHANGED <<permits, stopFlag, isDown, main>>

(* process_request: the thread starts, and the loop goes back to select. *)
Spawn(t, r) ==
  /\ Alive /\ st[r] = "admitted"
  /\ st' = [st EXCEPT ![r] = "running"]
  /\ loop' = [loop EXCEPT ![t] = "select"]
  /\ UNCHANGED <<permits, stopFlag, isDown, main>>

(* Mutant: the permit of a request without a thread is not released. *)
SpawnFailsKeepingPermit(t, r) ==
  /\ Alive /\ st[r] = "admitted"
  /\ st' = [st EXCEPT ![r] = "failed"]
  /\ loop' = [loop EXCEPT ![t] = "select"]
  /\ UNCHANGED <<permits, stopFlag, isDown, main>>

(* process_request: the thread cannot start.  The permit is released, the  *)
(* exception reported, the request closed, and the loop goes on.           *)
SpawnFails(t, r) ==
  /\ Alive /\ st[r] = "admitted"
  /\ permits' = permits + 1
  /\ st' = [st EXCEPT ![r] = "failed"]
  /\ loop' = [loop EXCEPT ![t] = "select"]
  /\ UNCHANGED <<stopFlag, isDown, main>>

-----------------------------------------------------------------------------
(* The handler threads. *)

(* handle() returns, or raises; either way the request is shut down. *)
Finish(r) ==
  /\ Alive /\ st[r] = "running"
  /\ st' = [st EXCEPT ![r] = "closing"]
  /\ UNCHANGED <<permits, loopVars, main>>

(* The finally clause of process_request_thread, after the client's EOF. *)
Release(r) ==
  /\ Alive /\ st[r] = "closing"
  /\ permits' = permits + 1
  /\ st' = [st EXCEPT ![r] = "closed"]
  /\ UNCHANGED <<loopVars, main>>

-----------------------------------------------------------------------------
(* The main thread: wait for a signal, then stop one thing after another. *)

RequestStop ==
  /\ main = "serving"
  /\ main' = "shutdownTcp"
  /\ UNCHANGED <<st, permits, loopVars>>

(* shutdown(), first half: raise the loop's flag. *)
Shutdown(t, from, to) ==
  /\ main = from
  /\ stopFlag' = [stopFlag EXCEPT ![t] = TRUE]
  /\ main' = to
  /\ UNCHANGED <<st, permits, loop, isDown>>

(* Mutant: shutdown() does not wait for the loop. *)
AwaitNothing(t, from, to) ==
  /\ main = from
  /\ main' = to
  /\ UNCHANGED <<st, permits, loopVars>>

(* shutdown(), second half: wait until the loop says it is down. *)
AwaitDown(t, from, to) ==
  /\ main = from /\ isDown[t]
  /\ main' = to
  /\ UNCHANGED <<st, permits, loopVars>>

(* Mutant: server_close() joins the handler threads (daemon_threads off). *)
ServerCloseJoining(t, from, to) ==
  /\ main = from
  /\ \A r \in RequestsOf(t) : st[r] \notin {"running", "closing"}
  /\ st' = [r \in Request |->
              IF r \in RequestsOf(t) /\ st[r] = "queued" THEN "lost" ELSE st[r]]
  /\ main' = to
  /\ UNCHANGED <<permits, loopVars>>

(* server_close(): what the kernel still holds for the socket is lost. *)
ServerClose(t, from, to) ==
  /\ main = from
  /\ st' = [r \in Request |->
              IF r \in RequestsOf(t) /\ st[r] = "queued" THEN "lost" ELSE st[r]]
  /\ main' = to
  /\ UNCHANGED <<permits, loopVars>>

(* join() with a timeout, then the process ends: the handlers are daemon   *)
(* threads, so the requests still in progress are abandoned.               *)
JoinAndExit ==
  /\ main = "join"
  /\ st' = [r \in Request |-> IF st[r] \in Holding THEN "lost" ELSE st[r]]
  /\ main' = "exited"
  /\ UNCHANGED <<permits, loopVars>>

-----------------------------------------------------------------------------
LoopStep(t) ==
  \/ LoopEnter(t) \/ Poll(t) \/ LoopExit(t)
  \/ \E r \in RequestsOf(t) :
       Accept(t, r) \/ Acquire(r) \/ Overload(t, r) \/ Spawn(t, r) \/ SpawnFails(t, r)

HandlerStep(r) == Finish(r) \/ Release(r)

StopStep ==
  \/ Shutdown("tcp", "shutdownTcp", "awaitTcp")
  \/ AwaitDown("tcp", "awaitTcp", "shutdownUdp")
  \/ Shutdown("udp", "shutdownUdp", "awaitUdp")
  \/ AwaitDown("udp", "awaitUdp", "closeTcp")
  \/ ServerClose("tcp", "closeTcp", "closeUdp")
  \/ ServerClose("udp", "closeUdp", "join")
  \/ JoinAndExit

Next ==
  \/ \E r \in Request : Arrive(r) \/ Forget(r) \/ HandlerStep(r)
  \/ \E t \in Transport : LoopStep(t)
  \/ RequestStop
  \/ StopStep

Spec == Init /\ [][Next]_vars

(***************************************************************************)
(* Fairness.  Threads that can run do run: the two loops and the main      *)
(* thread.  The kernel hands requests out oldest first, so one that stays  *)
(* queued while its loop keeps accepting is accepted in the end: strong    *)
(* fairness of Accept.  Nothing is assumed of clients, of signals, or, in  *)
(* FairSpec, of handlers: each may stay in handle() for ever.              *)
(***************************************************************************)
LoopFairness ==
  \A t \in Transport : /\ WF_vars(LoopStep(t))
                       /\ \A r \in RequestsOf(t) : SF_vars(Accept(t, r))
FairSpec == Spec /\ LoopFairness /\ WF_vars(StopStep)

(* Handlers end too: every wait in a handler has a timeout. *)
HandlersEnding == \A r \in Request : WF_vars(HandlerStep(r))

-----------------------------------------------------------------------------
Holders == {r \in Request : st[r] \in Holding}

(* No permit is lost and none is made up, whatever fails: while the        *)
(* process lives, the semaphore's value and the requests that hold a       *)
(* permit always add up to MAX_SESSIONS (so acquire and release pair up on *)
(* every path, and BoundedSemaphore.release never raises).                 *)
GateAccounting ==
  Alive => /\ IsFiniteSet(Holders)
           /\ permits + Cardinality(Holders) = MaxSessions

(* A host is listed when some network of its own family, IPv4 for a mapped *)
(* address, names it; a network written in mapped form names nobody.       *)
Listed(r) ==
  \E n \in LoopbackClients \cup ConfiguredClients :
    /\ Peer[r].host \in n.hosts
    /\ \/ n.family = "v6" /\ Peer[r].family = "v6"
       \/ n.family = "v4" /\ Peer[r].family \in {"v4", "mapped"}

(* Access is decided before anything else and by the host, not by how the  *)
(* listener spells it: no unlisted client ever holds a permit, gets a      *)
(* handler or is told of an overload, and no listed client is refused.     *)
AccessExact ==
  \A r \in Request :
    /\ st[r] \in {"accepted", "overloaded", "failed", "closed"} \cup Holding => Listed(r)
    /\ st[r] = "refused" => ~Listed(r)

(* A listening socket is closed only once its loop has left: the loop      *)
(* never accepts on a closed socket, and nothing is left in its hands or   *)
(* in the socket's queue.                                                  *)
QuietAfterClose ==
  \A t \in Transport : SocketClosed(t) =>
    /\ loop[t] = "down"
    /\ \A r \in RequestsOf(t) : st[r] \notin {"queued"} \cup InHand

AfterShutdown == main \in {"closeTcp", "closeUdp", "join", "exited"}

(* After both shutdown() calls have returned, no request is given a        *)
(* permit, although shutdown() only raises a flag the loop tests between   *)
(* requests and one more request may be handled after it is raised.        *)
NoSessionAfterStop ==
  [][AfterShutdown => Holders' \subseteq Holders]_vars

(* Once asked to stop the process does exit, even if no handler ever ends. *)
StopCompletes == main = "shutdownTcp" ~> main = "exited"

(* The loops never wait for a permit: a queued request is always taken up, *)
(* or lost at exit, even if every session is stuck for ever.               *)
QueuedTakenUp ==
  \A r \in Request : st[r] = "queued" ~> st[r] # "queued"

(* When handlers do end, the service never stays full: with no permit left *)
(* one comes back, whatever failed before, unless the process exits.       *)
ServiceRecovers ==
  HandlersEnding => (Alive /\ permits = 0 ~> ~Alive \/ permits > 0)

-----------------------------------------------------------------------------
(***************************************************************************)
(* The server implements the pool: its sessions are the permit holders, so *)
(* "overload" is only ever told to a client while MAX_SESSIONS requests,   *)
(* of both transports together, hold permits.                              *)
(***************************************************************************)
Pool == INSTANCE SessionPool WITH
          Session <- Request,
          Permitted <- {r \in Request : Listed(r)},
          Limit <- MaxSessions,
          active <- Holders,
          turned <- {r \in Request : st[r] = "overloaded"}

(* Every behaviour of the server is one of the abstract pool. *)
ImplementsPool == Pool!Spec
=============================================================================
