------------------------ MODULE BoundedServerProofs ------------------------
(***************************************************************************)
(* Theorems about BoundedServer, for any number of requests, any lists of  *)
(* clients and any MAX_SESSIONS.  The inductive invariant is IInv: the     *)
(* checked invariants, strengthened by what the loops and the main thread  *)
(* know of each other (LoopInv).                                           *)
(***************************************************************************)
EXTENDS BoundedServer, FiniteSetTheorems, TLAPS

(* A loop that is not busy has no request in its hands, and a busy one has *)
(* one at most.                                                            *)
HandInv ==
  \A t \in Transport : \A r, s \in RequestsOf(t) :
    st[r] \in InHand => loop[t] = "busy" /\ (st[s] \in InHand => r = s)

(* The main thread is past a shutdown() only if that loop is down. *)
DownInv ==
  /\ \A t \in Transport : isDown[t] => loop[t] = "down"
  /\ main \in {"shutdownUdp", "awaitUdp", "exited"} \/ AfterShutdown => loop["tcp"] = "down"
  /\ AfterShutdown => loop["udp"] = "down"

LoopInv == HandInv /\ DownInv /\ QuietAfterClose

IInv == TypeOK /\ LoopInv /\ AccessExact /\ GateAccounting

-----------------------------------------------------------------------------
(* What the code computes for a client is what Listed says of it. *)
LEMMA VerifyIsListed ==
  ASSUME NEW r \in Request
  PROVE  VerifyRequest(r) <=> Listed(r)
<1>1. Peer[r] \in Address
  BY PeerAssumption
<1>2. \A n \in AllowedClients : n \in Network
  BY ClientsAssumption DEF AllowedClients
<1>3. CASE Peer[r].family = "mapped"
  <2>1. Unmapped(Peer[r]).family = "v4" /\ Unmapped(Peer[r]).host = Peer[r].host
    BY <1>1, <1>3 DEF Unmapped, Address
  <2> QED
    BY <1>2, <1>3, <2>1 DEF VerifyRequest, Listed, AllowedClients
<1>4. CASE Peer[r].family # "mapped"
  <2>1. Unmapped(Peer[r]) = Peer[r]
    BY <1>4 DEF Unmapped
  <2>2. Peer[r].family \in {"v4", "v6"}
    BY <1>1, <1>4 DEF Address, Family
  <2> QED
    BY <2>1, <2>2 DEF VerifyRequest, Listed, AllowedClients
<1> QED
  BY <1>3, <1>4

(* How one request's change of stage changes the set of permit holders. *)
LEMMA HoldersStep ==
  ASSUME TypeOK, NEW r \in Request, NEW x \in Stage, st' = [st EXCEPT ![r] = x]
  PROVE  Holders' = IF x \in Holding THEN Holders \cup {r} ELSE Holders \ {r}
<1>1. st'[r] = x /\ \A s \in Request : s # r => st'[s] = st[s]
  BY DEF TypeOK
<1> QED
  BY <1>1 DEF Holders

-----------------------------------------------------------------------------
(* Every step keeps the types. *)
LEMMA TypeStep == TypeOK /\ [Next]_vars => TypeOK'
<1> SUFFICES ASSUME TypeOK, [Next]_vars PROVE TypeOK'
  OBVIOUS
<1> USE DEF TypeOK, Stage, InHand, Holding, Ended, LoopState, MainState, loopVars
<1>1. ASSUME NEW r \in Request, Arrive(r) \/ Forget(r) \/ HandlerStep(r)
      PROVE  TypeOK'
  BY <1>1 DEF Arrive, Forget, HandlerStep, Finish, Release
<1>2. ASSUME NEW t \in Transport, LoopEnter(t) \/ Poll(t) \/ LoopExit(t)
      PROVE  TypeOK'
  BY <1>2 DEF LoopEnter, Poll, LoopExit
<1>3. ASSUME NEW t \in Transport, NEW r \in RequestsOf(t), Accept(t, r)
      PROVE  TypeOK'
  BY <1>3 DEF Accept
<1>4. ASSUME NEW t \in Transport, NEW r \in RequestsOf(t),
             Acquire(r) \/ Overload(t, r) \/ Spawn(t, r) \/ SpawnFails(t, r)
      PROVE  TypeOK'
  BY <1>4 DEF Acquire, Overload, Spawn, SpawnFails
<1>5. CASE RequestStop
  BY <1>5 DEF RequestStop
<1>6. CASE StopStep
  <2>1. ASSUME NEW t \in Transport, NEW from \in MainState, NEW to \in MainState,
               Shutdown(t, from, to) \/ AwaitDown(t, from, to) \/ ServerClose(t, from, to)
        PROVE  TypeOK'
    BY <2>1 DEF Shutdown, AwaitDown, ServerClose
  <2>2. CASE JoinAndExit
    BY <2>2 DEF JoinAndExit
  <2> QED
    BY <1>6, <2>1, <2>2 DEF StopStep, Transport
<1>7. CASE UNCHANGED vars
  BY <1>7 DEF vars
<1> QED
  BY <1>1, <1>2, <1>3, <1>4, <1>5, <1>6, <1>7 DEF Next, LoopStep

(***************************************************************************)
(* The loops and the main thread: each action disturbs at most one loop,   *)
(* one request or the main thread's place.                                 *)
(***************************************************************************)
LEMMA LoopInvStep == TypeOK /\ LoopInv /\ [Next]_vars => LoopInv'
<1> SUFFICES ASSUME TypeOK, LoopInv, [Next]_vars PROVE LoopInv'
  OBVIOUS
<1> USE DEF LoopInv, HandInv, DownInv, QuietAfterClose, AfterShutdown, SocketClosed,
            TypeOK, InHand, Transport, loopVars
<1>1. ASSUME NEW r \in Request, Arrive(r)
      PROVE  LoopInv'
  BY <1>1, RequestAssumption DEF Arrive, RequestsOf
<1>2. ASSUME NEW r \in Request, Forget(r) \/ HandlerStep(r)
      PROVE  LoopInv'
  BY <1>2 DEF Forget, HandlerStep, Finish, Release, RequestsOf, Request
<1>3. ASSUME NEW t \in Transport, LoopEnter(t) \/ Poll(t) \/ LoopExit(t)
      PROVE  LoopInv'
  BY <1>3 DEF LoopEnter, Poll, LoopExit, Alive
<1>4. ASSUME NEW t \in Transport, NEW r \in RequestsOf(t), Accept(t, r)
      PROVE  LoopInv'
  BY <1>4, RequestAssumption DEF Accept, Alive, RequestsOf, Request
<1>5. ASSUME NEW t \in Transport, NEW r \in RequestsOf(t),
             Acquire(r) \/ Overload(t, r) \/ Spawn(t, r) \/ SpawnFails(t, r)
      PROVE  LoopInv'
  BY <1>5, RequestAssumption DEF Acquire, Overload, Spawn, SpawnFails, Alive, RequestsOf, Request
<1>6. CASE RequestStop
  BY <1>6 DEF RequestStop
<1>7. CASE StopStep
  <2>1. CASE Shutdown("tcp", "shutdownTcp", "awaitTcp") \/ Shutdown("udp", "shutdownUdp", "awaitUdp")
    BY <2>1 DEF Shutdown
  <2>2. CASE AwaitDown("tcp", "awaitTcp", "shutdownUdp") \/ AwaitDown("udp", "awaitUdp", "closeTcp")
    BY <2>2 DEF AwaitDown
  <2>3. CASE ServerClose("tcp", "closeTcp", "closeUdp") \/ ServerClose("udp", "closeUdp", "join")
    BY <2>3 DEF ServerClose, RequestsOf, Request
  <2>4. CASE JoinAndExit
    BY <2>4 DEF JoinAndExit, RequestsOf, Request
  <2> QED
    BY <1>7, <2>1, <2>2, <2>3, <2>4 DEF StopStep
<1>8. CASE UNCHANGED vars
  BY <1>8 DEF vars
<1> QED
  BY <1>1, <1>2, <1>3, <1>4, <1>5, <1>6, <1>7, <1>8 DEF Next, LoopStep

(* Only Accept decides about a client; every other action keeps a request  *)
(* among the listed, or ends it.                                           *)
LEMMA AccessStep == TypeOK /\ AccessExact /\ [Next]_vars => AccessExact'
<1> SUFFICES ASSUME TypeOK, AccessExact, [Next]_vars PROVE AccessExact'
  OBVIOUS
<1>0. \A r \in Request : Listed(r)' <=> Listed(r)
  BY DEF Listed
<1> USE <1>0 DEF AccessExact, TypeOK, Holding
<1>1. ASSUME NEW r \in Request, Arrive(r) \/ Forget(r) \/ HandlerStep(r)
      PROVE  AccessExact'
  BY <1>1 DEF Arrive, Forget, HandlerStep, Finish, Release
<1>2. ASSUME NEW t \in Transport, LoopEnter(t) \/ Poll(t) \/ LoopExit(t)
      PROVE  AccessExact'
  BY <1>2 DEF LoopEnter, Poll, LoopExit
<1>3. ASSUME NEW t \in Transport, NEW r \in RequestsOf(t), Accept(t, r)
      PROVE  AccessExact'
  <2>1. r \in Request /\ (VerifyRequest(r) <=> Listed(r))
    BY VerifyIsListed DEF Request, RequestsOf
  <2> QED
    BY <1>3, <2>1 DEF Accept
<1>4. ASSUME NEW t \in Transport, NEW r \in RequestsOf(t),
             Acquire(r) \/ Overload(t, r) \/ Spawn(t, r) \/ SpawnFails(t, r)
      PROVE  AccessExact'
  BY <1>4 DEF Acquire, Overload, Spawn, SpawnFails, Request, RequestsOf
<1>5. CASE RequestStop \/ UNCHANGED vars
  BY <1>5 DEF RequestStop, vars
<1>6. CASE StopStep
  <2>1. ASSUME NEW t \in Transport, NEW from, NEW to,
               Shutdown(t, from, to) \/ AwaitDown(t, from, to) \/ ServerClose(t, from, to)
        PROVE  AccessExact'
    BY <2>1 DEF Shutdown, AwaitDown, ServerClose
  <2>2. CASE JoinAndExit
    BY <2>2 DEF JoinAndExit
  <2> QED
    BY <1>6, <2>1, <2>2 DEF StopStep, Transport
<1> QED
  BY <1>1, <1>2, <1>3, <1>4, <1>5, <1>6 DEF Next, LoopStep

(***************************************************************************)
(* The semaphore.  A request becomes a holder where the permit is taken    *)
(* (Acquire) and stops being one where it is given back (SpawnFails,       *)
(* Release); no other step of the living process changes either.           *)
(***************************************************************************)
LEMMA GateStep == TypeOK /\ GateAccounting /\ [Next]_vars => GateAccounting'
<1> SUFFICES ASSUME TypeOK, GateAccounting, [Next]_vars, Alive' PROVE GateAccounting'
  BY DEF GateAccounting
<1>a. ASSUME Alive, UNCHANGED permits, Holders' = Holders
      PROVE  GateAccounting'
  BY <1>a DEF GateAccounting
<1>b. ASSUME NEW r \in Holders, Alive, permits' = permits + 1, Holders' = Holders \ {r}
      PROVE  GateAccounting'
  <2>1. /\ IsFiniteSet(Holders')
        /\ Cardinality(Holders') = Cardinality(Holders) - 1
    BY <1>b, FS_RemoveElement DEF GateAccounting
  <2>2. Cardinality(Holders) \in Nat
    BY <1>b, FS_CardinalityType DEF GateAccounting
  <2> QED
    BY <1>b, <2>1, <2>2, MaxSessionsAssumption DEF GateAccounting, TypeOK
<1> USE DEF TypeOK
<1>1. ASSUME NEW r \in Request, Arrive(r) \/ Forget(r) \/ Finish(r)
      PROVE  GateAccounting'
  <2>1. Holders' = Holders
    BY <1>1 DEF Arrive, Forget, Finish, Holders, Holding, Ended
  <2> QED
    BY <1>1, <2>1, <1>a DEF Arrive, Forget, Finish, Alive
<1>2. ASSUME NEW r \in Request, Release(r)
      PROVE  GateAccounting'
  <2>1. r \in Holders
    BY <1>2 DEF Release, Holders, Holding
  <2>2. Holders' = Holders \ {r}
    BY <1>2, HoldersStep DEF Release, Holding, Stage, Ended
  <2> QED
    BY <1>2, <2>1, <2>2, <1>b DEF Release
<1>3. ASSUME NEW t \in Transport, LoopEnter(t) \/ Poll(t) \/ LoopExit(t)
      PROVE  GateAccounting'
  BY <1>3, <1>a DEF LoopEnter, Poll, LoopExit, Holders
<1>4. ASSUME NEW t \in Transport, NEW r \in RequestsOf(t),
             Accept(t, r) \/ Overload(t, r) \/ Spawn(t, r)
      PROVE  GateAccounting'
  <2>1. Holders' = Holders
    BY <1>4 DEF Accept, Overload, Spawn, Holders, Holding, Request, RequestsOf
  <2> QED
    BY <1>4, <2>1, <1>a DEF Accept, Overload, Spawn
<1>5. ASSUME NEW t \in Transport, NEW r \in RequestsOf(t), Acquire(r)
      PROVE  GateAccounting'
  <2>1. r \in Request \ Holders
    BY <1>5 DEF Acquire, Holders, Holding, Request, RequestsOf
  <2>2. Holders' = Holders \cup {r}
    BY <1>5, <2>1, HoldersStep DEF Acquire, Holding, Stage, InHand
  <2>3. /\ IsFiniteSet(Holders')
        /\ Cardinality(Holders') = Cardinality(Holders) + 1
    BY <1>5, <2>1, <2>2, FS_AddElement DEF GateAccounting, Acquire
  <2>4. Cardinality(Holders) \in Nat
    BY <1>5, FS_CardinalityType DEF GateAccounting, Acquire
  <2> QED
    BY <1>5, <2>3, <2>4, MaxSessionsAssumption DEF GateAccounting, Acquire
<1>6. ASSUME NEW t \in Transport, NEW r \in RequestsOf(t), SpawnFails(t, r)
      PROVE  GateAccounting'
  <2>1. r \in Holders
    BY <1>6 DEF SpawnFails, Holders, Holding, Request, RequestsOf
  <2>2. Holders' = Holders \ {r}
    BY <1>6, <2>1, HoldersStep DEF SpawnFails, Holding, Stage, Ended, Holders
  <2> QED
    BY <1>6, <2>1, <2>2, <1>b DEF SpawnFails
<1>7. CASE RequestStop \/ UNCHANGED vars
  BY <1>7, <1>a DEF RequestStop, vars, Alive, Holders
<1>8. ASSUME StopStep
      PROVE  GateAccounting'
  <2>1. ~JoinAndExit
    BY DEF JoinAndExit, Alive
  <2>2. ASSUME NEW t \in Transport, NEW from \in MainState \ {"exited"}, NEW to,
               Shutdown(t, from, to) \/ AwaitDown(t, from, to) \/ ServerClose(t, from, to)
        PROVE  GateAccounting'
    <3>1. Holders' = Holders
      BY <2>2 DEF Shutdown, AwaitDown, ServerClose, Holders, Holding
    <3> QED
      BY <2>2, <3>1, <1>a DEF Shutdown, AwaitDown, ServerClose, Alive
  <2> QED
    BY <1>8, <2>1, <2>2 DEF StopStep, Transport, MainState
<1> QED
  BY <1>1, <1>2, <1>3, <1>4, <1>5, <1>6, <1>7, <1>8 DEF Next, LoopStep, HandlerStep

-----------------------------------------------------------------------------
(* The initial states satisfy the invariant. *)
LEMMA InitIInv == Init => IInv
<1> SUFFICES ASSUME Init PROVE IInv
  OBVIOUS
<1>1. TypeOK
  BY MaxSessionsAssumption DEF Init, TypeOK, Stage, LoopState, MainState
<1>2. LoopInv
  BY DEF Init, LoopInv, HandInv, DownInv, QuietAfterClose, AfterShutdown, SocketClosed,
         InHand, Request, RequestsOf, Transport
<1>3. AccessExact
  BY DEF Init, AccessExact, Holding
<1>4. GateAccounting
  <2>1. Holders = {}
    BY DEF Init, Holders, Holding
  <2> QED
    BY <2>1, FS_EmptySet, MaxSessionsAssumption DEF Init, GateAccounting
<1> QED
  BY <1>1, <1>2, <1>3, <1>4 DEF IInv

(* IInv is an invariant: everything below follows from it. *)
THEOREM Invariance == Spec => []IInv
<1>1. IInv /\ [Next]_vars => IInv'
  BY TypeStep, LoopInvStep, AccessStep, GateStep DEF IInv
<1> QED
  BY <1>1, InitIInv, PTL DEF Spec

(* Every variable keeps its type. *)
THEOREM TypeCorrect == Spec => []TypeOK
BY Invariance, PTL DEF IInv

(* Permits and holders add up to MAX_SESSIONS on every path of             *)
(* process_request and process_request_thread.                             *)
THEOREM GateIsExact == Spec => []GateAccounting
BY Invariance, PTL DEF IInv

(* Only listed clients get past verify_request, and all of them do. *)
THEOREM AccessIsExact == Spec => []AccessExact
BY Invariance, PTL DEF IInv

(* run() closes a listening socket only when its loop is gone for good. *)
THEOREM ClosedIsQuiet == Spec => []QuietAfterClose
BY Invariance, PTL DEF IInv, LoopInv

(* At most MAX_SESSIONS requests, TCP and UDP together, are being handled. *)
THEOREM SessionsBounded == Spec => [](Alive => Cardinality(Holders) <= MaxSessions)
<1>1. TypeOK /\ GateAccounting => (Alive => Cardinality(Holders) <= MaxSessions)
  BY FS_CardinalityType, MaxSessionsAssumption DEF GateAccounting, TypeOK
<1> QED
  BY <1>1, Invariance, PTL DEF IInv

-----------------------------------------------------------------------------
(* A permit is taken in Acquire only, by a request in the hands of a loop. *)
LEMMA OnlyAcquireAdds ==
  ASSUME TypeOK, [Next]_vars, Holders' \ Holders # {}
  PROVE  \E t \in Transport : \E r \in RequestsOf(t) : Acquire(r)
<1> SUFFICES ASSUME \A t \in Transport : \A r \in RequestsOf(t) : ~Acquire(r)
             PROVE  Holders' \subseteq Holders
  OBVIOUS
<1> USE DEF TypeOK, Holders, Holding
<1>1. ASSUME NEW r \in Request, Arrive(r) \/ Forget(r) \/ HandlerStep(r)
      PROVE  Holders' \subseteq Holders
  BY <1>1 DEF Arrive, Forget, HandlerStep, Finish, Release, Ended
<1>2. ASSUME NEW t \in Transport, LoopEnter(t) \/ Poll(t) \/ LoopExit(t)
      PROVE  Holders' \subseteq Holders
  BY <1>2 DEF LoopEnter, Poll, LoopExit
<1>3. ASSUME NEW t \in Transport, NEW r \in RequestsOf(t),
             Accept(t, r) \/ Overload(t, r) \/ Spawn(t, r) \/ SpawnFails(t, r)
      PROVE  Holders' \subseteq Holders
  BY <1>3 DEF Accept, Overload, Spawn, SpawnFails
<1>4. CASE RequestStop \/ StopStep \/ UNCHANGED vars
  BY <1>4 DEF RequestStop, StopStep, Shutdown, AwaitDown, ServerClose, JoinAndExit, vars
<1> QED
  BY <1>1, <1>2, <1>3, <1>4 DEF Next, LoopStep

(* Both loops are down once run() goes on to close the sockets, and a loop *)
(* that is down has nothing in its hands to admit.                         *)
THEOREM NoSessionOnceStopped == Spec => NoSessionAfterStop
<1>1. ASSUME TypeOK, LoopInv, [Next]_vars, AfterShutdown
      PROVE  Holders' \subseteq Holders
  <2>1. \A t \in Transport : \A r \in RequestsOf(t) : ~Acquire(r)
    BY <1>1 DEF LoopInv, HandInv, DownInv, Acquire, InHand, Transport
  <2> QED
    BY <1>1, <2>1, OnlyAcquireAdds
<1>2. IInv /\ [Next]_vars => [AfterShutdown => Holders' \subseteq Holders]_vars
  BY <1>1 DEF IInv
<1> QED
  BY <1>2, Invariance, PTL DEF Spec, NoSessionAfterStop

-----------------------------------------------------------------------------
(***************************************************************************)
(* The refinement: each step of the server is a step of the pool or leaves *)
(* both the holders and the requests turned away as they are.              *)
(***************************************************************************)
Overloaded == {r \in Request : st[r] = "overloaded"}

(* Who is being turned away, step by step. *)
LEMMA OverloadedStep ==
  ASSUME TypeOK, NEW r \in Request, NEW x \in Stage, st' = [st EXCEPT ![r] = x]
  PROVE  Overloaded' = IF x = "overloaded" THEN Overloaded \cup {r} ELSE Overloaded \ {r}
<1>1. st'[r] = x /\ \A s \in Request : s # r => st'[s] = st[s]
  BY DEF TypeOK
<1> QED
  BY <1>1 DEF Overloaded

(* The pool counts as the server does. *)
LEMMA SameCount == ASSUME NEW S PROVE Pool!Cardinality(S) = Cardinality(S)
BY DEF Cardinality, Pool!Cardinality

(* A step of the server is a step of the pool, or a stutter of it. *)
LEMMA PoolStep == IInv /\ [Next]_vars => [Pool!Next]_(Pool!vars)
<1> SUFFICES ASSUME IInv, [Next]_vars PROVE [Pool!Next]_(Pool!vars)
  OBVIOUS
<1>0. TypeOK /\ AccessExact /\ GateAccounting
  BY DEF IInv
<1> DEFINE Same == Holders' = Holders /\ Overloaded' = Overloaded
<1>a. Same => UNCHANGED Pool!vars
  BY DEF Pool!vars, Overloaded
<1> USE <1>0 DEF TypeOK
<1>1. ASSUME NEW r \in Request, Arrive(r) \/ Finish(r)
      PROVE  Same
  BY <1>1 DEF Arrive, Finish, Holders, Holding, Overloaded
<1>2. ASSUME NEW r \in Request, Forget(r)
      PROVE  Same \/ Pool!Depart(r)
  <2>1. Holders' = Holders
    BY <1>2 DEF Forget, Holders, Holding, Ended
  <2>2. Overloaded' = Overloaded \ {r}
    BY <1>2 DEF Forget, Overloaded
  <2> QED
    BY <2>1, <2>2 DEF Pool!Depart, Overloaded
<1>3. ASSUME NEW r \in Request, st[r] \in Holding, NEW x \in {"failed", "closed"},
             st' = [st EXCEPT ![r] = x]
      PROVE  Pool!Leave(r)
  <2>1. Holders' = Holders \ {r}
    BY <1>3, HoldersStep DEF Stage, Ended, Holding
  <2>2. Overloaded' = Overloaded
    BY <1>3 DEF Overloaded, Holding
  <2> QED
    BY <1>3, <2>1, <2>2 DEF Pool!Leave, Overloaded, Holders
<1>4. ASSUME NEW t \in Transport, LoopEnter(t) \/ Poll(t) \/ LoopExit(t)
      PROVE  Same
  BY <1>4 DEF LoopEnter, Poll, LoopExit, Holders, Overloaded
<1>5. ASSUME NEW t \in Transport, NEW r \in RequestsOf(t), Accept(t, r) \/ Spawn(t, r)
      PROVE  Same
  BY <1>5 DEF Accept, Spawn, Holders, Holding, Overloaded, Request, RequestsOf
<1>6. ASSUME NEW t \in Transport, NEW r \in RequestsOf(t), Acquire(r)
      PROVE  Pool!Enter(r)
  <2>1. r \in Request /\ Listed(r) /\ r \notin Holders /\ st[r] # "overloaded"
    BY <1>6 DEF Acquire, AccessExact, Holders, Holding, Request, RequestsOf
  <2>2. Holders' = Holders \cup {r}
    BY <1>6, <2>1, HoldersStep DEF Acquire, Holding, Stage, InHand
  <2>3. Overloaded' = Overloaded
    BY <1>6 DEF Acquire, Overloaded
  <2>4. Cardinality(Holders) < MaxSessions
    BY <1>6, FS_CardinalityType, MaxSessionsAssumption DEF Acquire, GateAccounting
  <2> QED
    BY <2>1, <2>2, <2>3, <2>4, SameCount DEF Pool!Enter, Overloaded
<1>7. ASSUME NEW t \in Transport, NEW r \in RequestsOf(t), Overload(t, r)
      PROVE  Pool!TurnAway(r)
  <2>1. r \in Request /\ Listed(r) /\ r \notin Holders /\ st[r] # "overloaded"
    BY <1>7 DEF Overload, AccessExact, Holders, Holding, Request, RequestsOf
  <2>2. Holders' = Holders
    BY <1>7 DEF Overload, Holders, Holding
  <2>3. Overloaded' = Overloaded \cup {r}
    BY <1>7, <2>1, OverloadedStep DEF Overload, Stage, Ended
  <2>4. Cardinality(Holders) = MaxSessions
    BY <1>7, FS_CardinalityType, MaxSessionsAssumption DEF Overload, GateAccounting
  <2> QED
    BY <2>1, <2>2, <2>3, <2>4, SameCount DEF Pool!TurnAway, Overloaded
<1>8. CASE JoinAndExit
  <2>1. Holders' = {} /\ Overloaded' = Overloaded
    BY <1>8 DEF JoinAndExit, Holders, Holding, Overloaded
  <2> QED
    BY <2>1 DEF Pool!Next, Pool!Stop, Overloaded
<1>9. CASE RequestStop \/ StopStep \/ UNCHANGED vars
  <2>1. JoinAndExit \/ Same
    BY <1>9 DEF RequestStop, StopStep, Shutdown, AwaitDown, ServerClose, vars,
                Holders, Holding, Overloaded
  <2> QED
    BY <2>1, <1>8, <1>a
<1>10. ASSUME NEW r \in Request, Arrive(r) \/ Forget(r) \/ HandlerStep(r)
       PROVE  [Pool!Next]_(Pool!vars)
  <2>1. Release(r) => Pool!Leave(r)
    BY <1>3 DEF Release, Holding
  <2> QED
    BY <1>10, <2>1, <1>1, <1>2, <1>a DEF HandlerStep, Pool!Next
<1>11. ASSUME NEW t \in Transport, LoopStep(t)
       PROVE  [Pool!Next]_(Pool!vars)
  <2>1. \A r \in RequestsOf(t) : r \in Request /\ (SpawnFails(t, r) => Pool!Leave(r))
    BY <1>3 DEF SpawnFails, Holding, Request, RequestsOf
  <2> QED
    BY <1>11, <2>1, <1>4, <1>5, <1>6, <1>7, <1>a DEF LoopStep, Pool!Next
<1> QED
  BY <1>9, <1>10, <1>11 DEF Next

(* The server refines the pool: whatever the threads do, clients see a     *)
(* pool of MAX_SESSIONS sessions that admits permitted clients only and    *)
(* turns one of them away only when it is full.                            *)
THEOREM Refinement == Spec => ImplementsPool
<1>1. Init => Pool!Init
  BY DEF Init, Pool!Init, Holders, Holding
<1> QED
  BY <1>1, PoolStep, Invariance, PTL DEF Spec, ImplementsPool, Pool!Spec
=============================================================================
