---------------------------- MODULE SessionPool ----------------------------
(***************************************************************************)
(* What the fault proxy promises about admission, with no thread, socket   *)
(* or semaphore in sight: at most Limit sessions at a time, only permitted *)
(* clients get one, and a permitted client is turned away for lack of room *)
(* only when the pool really is full.                                      *)
(***************************************************************************)
EXTENDS FiniteSets, Naturals

CONSTANTS Session,       \* the sessions clients may ask for
          Permitted,     \* the subset of them asked for by permitted clients
          Limit          \* how many may be in progress at once

VARIABLES active,        \* the sessions in progress
          turned         \* the sessions turned away because the pool was full

vars == <<active, turned>>

Init == active = {} /\ turned = {}

(* A session of a permitted client starts while there is room. *)
Enter(s) ==
  /\ s \in Permitted \ (active \cup turned)
  /\ Cardinality(active) < Limit
  /\ active' = active \cup {s}
  /\ UNCHANGED turned

(* A session ends. *)
Leave(s) ==
  /\ s \in active
  /\ active' = active \ {s}
  /\ UNCHANGED turned

(* A session of a permitted client is turned away: the pool is full. *)
TurnAway(s) ==
  /\ s \in Permitted \ (active \cup turned)
  /\ Cardinality(active) = Limit
  /\ turned' = turned \cup {s}
  /\ UNCHANGED active

(* A client that was turned away takes note and may ask again. *)
Depart(s) ==
  /\ s \in turned
  /\ turned' = turned \ {s}
  /\ UNCHANGED active

(* The service stops: every session in progress is abandoned. *)
Stop == active' = {} /\ UNCHANGED turned

Next ==
  \/ \E s \in Session : Enter(s) \/ Leave(s) \/ TurnAway(s) \/ Depart(s)
  \/ Stop

Spec == Init /\ [][Next]_vars
=============================================================================
