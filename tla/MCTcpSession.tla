---------------------------- MODULE MCTcpSession ----------------------------
(***************************************************************************)
(* Instances of TcpSession.  MCKindAll has a query of every behaviour the  *)
(* handler tells apart, one name of each group that is treated alike;      *)
(* MCKindFew has enough to mix sources, batches and dead ends over a       *)
(* longer conversation than the limit allows.                              *)
(***************************************************************************)
EXTENDS TcpSession, FiniteSets

Legacy(k) == [fresh |-> FALSE, key |-> k]
Fresh(k) == [fresh |-> TRUE, key |-> k]

MCKindAll ==
  {Legacy(k) : k \in {"short", "malformed", "reply", "normal", "split-body"} \cup LegacyFault}
  \cup {Fresh(k) : k \in {"reply", "ordinary"} \cup FreshBatch
                         \cup (FreshFault \ {"mismatch-question"})}

MCKindFew ==
  {Legacy("short"), Legacy("normal"), Fresh("ordinary"), Fresh("reordered"), Fresh("reply")}

(* A conversation is long and made of the few kinds, or short with up to   *)
(* two queries of any other kind.                                          *)
Conversation(queries) ==
  LET others == {i \in DOMAIN queries : queries[i] \notin MCKindFew}
  IN Len(queries) <= (IF others = {} THEN MaxSent ELSE 3) /\ Cardinality(others) <= 2

MCNext ==
  \/ Handle
  \/ \E k \in Kind : Conversation(Append(sent, k)) /\ Send(k)
  \/ HalfClose
  \/ Reset

MCSpec == Init /\ [][MCNext]_vars /\ WF_vars(Handle)
=============================================================================
