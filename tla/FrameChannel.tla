---------------------------- MODULE FrameChannel ----------------------------
(***************************************************************************)
(* What a reader of DNS over TCP is promised: the messages of its peer,    *)
(* whole, each once and in the order they were sent, up to some point.     *)
(* Bytes, prefixes and timeouts do not exist here.                         *)
(***************************************************************************)
EXTENDS Naturals, Sequences

CONSTANT Message
VARIABLES sent, taken, over
vars == <<sent, taken, over>>

Init == sent = <<>> /\ taken = <<>> /\ over = FALSE

Put(m) == sent' = Append(sent, m) /\ UNCHANGED <<taken, over>>

Take ==
  /\ ~over /\ Len(taken) < Len(sent)
  /\ taken' = Append(taken, sent[Len(taken) + 1])
  /\ UNCHANGED <<sent, over>>

End == over' = TRUE /\ UNCHANGED <<sent, taken>>

Next == (\E m \in Message : Put(m)) \/ Take \/ End

Spec == Init /\ [][Next]_vars
=============================================================================
