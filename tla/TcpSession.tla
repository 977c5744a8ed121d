----------------------------- MODULE TcpSession -----------------------------
(***************************************************************************)
(* One TCP connection of the fault proxy, from its first query to its      *)
(* close: _TCPHandler.handle, which answers ordinary names by forwarding   *)
(* to BIND, and serve_fresh_tcp, which answers fresh names itself and may  *)
(* take two more queries for a batch.  The client sends whole messages,    *)
(* ahead of the replies if it likes, half-closes, resets or falls silent.  *)
(*                                                                         *)
(* The bytes of a reply are a few cells: its length prefix, the front and  *)
(* the back of its body.  The cells leave one by one, because a write may  *)
(* fail after any part of it was sent and the kernel cuts segments where   *)
(* it likes; where the program itself cuts and pauses is ProbeLab's topic. *)
(***************************************************************************)
EXTENDS Integers, Sequences

CONSTANTS
  Kind,        \* the kinds of query the client may send: see Query
  MaxQueries,  \* MAX_TCP_QUERIES, the turns of the loop in handle()
  MaxSent      \* bound of the model: how many queries the client sends

(***************************************************************************)
(* A query is what the program tells apart: whether the question name is   *)
(* under fresh.example.test (is_fresh), and the scenario its name selects. *)
(* "short": under 12 bytes; "malformed": no question name can be read;     *)
(* "reply": a message with QR set.  Every other key is one of the source's.*)
(***************************************************************************)
LegacyWhole == {"normal", "force-tcp"}
LegacySplit == {"split-prefix", "split-body", "bytewise", "delayed"}
LegacyFault == {"close-before-response", "stall", "close-after-prefix", "close-mid-body",
                "length-mismatch", "duplicate-response", "trailing-bytes"}
FreshReusing == {"ordinary", "split-prefix", "split-body", "bytewise"}
FreshBatch == {"reordered", "coalesced"}
FreshFault == {"close-before", "stall", "close-prefix", "close-body", "length-mismatch",
               "mismatch-id", "mismatch-question", "duplicate", "trailing"}
Query ==
  [fresh : {FALSE},
   key : {"short", "malformed", "reply"} \cup LegacyWhole \cup LegacySplit \cup LegacyFault]
  \cup
  [fresh : {TRUE}, key : {"reply"} \cup FreshReusing \cup FreshBatch \cup FreshFault]

ASSUME KindAssumption == Kind \subseteq Query
ASSUME BoundAssumption == MaxQueries \in Nat \ {0} /\ MaxSent \in Nat

Place == {"recv", "stall", "forward", "gather", "write", "closed"}
Reason == {"", "format", "timeout", "eof", "network"}
Part == {"prefix", "long", "front", "wrong", "back", "junk", "empty"}
Source == {"fresh", "upstream"}
Cell == [of : Nat, part : Part, src : Source]

VARIABLES
  sent,      \* every query the client has sent, in order
  client,    \* the client's end: open, shut (half-closed) or reset
  pc,        \* where the handler is
  turn,      \* how many turns of the loop have read a query
  taken,     \* how many queries have been read, those of a batch included
  todo,      \* the cells of the reply still to be written
  reuse,     \* whether the loop goes on once they are
  out,       \* every cell written so far
  why        \* the reason of the failure that ended the session, if any

vars == <<sent, client, pc, turn, taken, todo, reuse, out, why>>
clientVars == <<sent, client>>

TypeOK ==
  /\ sent \in Seq(Query)
  /\ client \in {"open", "shut", "reset"}
  /\ pc \in Place
  /\ turn \in Nat /\ taken \in Nat
  /\ todo \in Seq(Cell)
  /\ reuse \in BOOLEAN
  /\ out \in Seq(Cell)
  /\ why \in Reason

Init ==
  /\ sent = <<>> /\ client = "open"
  /\ pc = "recv" /\ turn = 0 /\ taken = 0
  /\ todo = <<>> /\ reuse = FALSE /\ out = <<>>
  /\ why = ""

-----------------------------------------------------------------------------
(* Replies. *)

Cells(n, src, parts) == [i \in 1 .. Len(parts) |-> [of |-> n, part |-> parts[i], src |-> src]]

Whole(n, src) == Cells(n, src, <<"prefix", "front", "back">>)

(* send_frame: what each scenario puts on the wire for a forwarded reply. *)
SendFrame(key, n) ==
  CASE key = "close-after-prefix" -> Cells(n, "upstream", <<"prefix">>)
    [] key = "close-mid-body"     -> Cells(n, "upstream", <<"prefix", "front">>)
    [] key = "length-mismatch"    -> Cells(n, "upstream", <<"long", "front">>)
    [] key = "duplicate-response" -> Whole(n, "upstream") \o Whole(n, "upstream")
    [] key = "trailing-bytes"     -> Whole(n, "upstream") \o Cells(n, "upstream", <<"junk">>)
    [] OTHER                      -> Whole(n, "upstream")

(* serve_fresh_tcp: the same for a reply made here. *)
ServeFresh(key, n) ==
  CASE key = "close-prefix"       -> Cells(n, "fresh", <<"prefix">>)
    [] key = "close-body"         -> Cells(n, "fresh", <<"prefix", "front">>)
    [] key = "length-mismatch"    -> Cells(n, "fresh", <<"long", "front", "back">>)
    [] key \in {"mismatch-id", "mismatch-question"}
                                  -> Cells(n, "fresh", <<"prefix", "wrong", "back">>)
    [] key = "duplicate"          -> Whole(n, "fresh") \o Whole(n, "fresh")
    [] key = "trailing"           -> Whole(n, "fresh") \o Cells(n, "fresh", <<"junk">>)
    [] OTHER                      -> Whole(n, "fresh")

(* Mutant: what has no answer is not turned into an empty one. *)
BatchFrameNone(n) ==
  IF sent[n].key = "reply" THEN Cells(n, "fresh", <<"none">>) ELSE Whole(n, "fresh")

(* A batch frames answer_fresh of each query, whatever its name; a message *)
(* with QR set has no answer and becomes a frame of length zero.           *)
BatchFrame(n) ==
  IF sent[n].key = "reply" THEN Cells(n, "fresh", <<"empty">>) ELSE Whole(n, "fresh")

(* Mutant: the replies leave in the order of the queries, always. *)
BatchReplyInOrder(key, n) == BatchFrame(n) \o BatchFrame(n + 1) \o BatchFrame(n + 2)

BatchReply(key, n) ==
  IF key = "reordered" THEN BatchFrame(n + 2) \o BatchFrame(n + 1) \o BatchFrame(n)
                       ELSE BatchFrame(n) \o BatchFrame(n + 1) \o BatchFrame(n + 2)

-----------------------------------------------------------------------------
(* The client, while the session lasts. *)

Send(k) ==
  /\ pc # "closed" /\ client = "open" /\ Len(sent) < MaxSent
  /\ sent' = Append(sent, k)
  /\ UNCHANGED <<client, pc, turn, taken, todo, reuse, out, why>>

HalfClose ==
  /\ pc # "closed" /\ client = "open" /\ client' = "shut"
  /\ UNCHANGED <<sent, pc, turn, taken, todo, reuse, out, why>>

Reset ==
  /\ pc # "closed" /\ client # "reset" /\ client' = "reset"
  /\ UNCHANGED <<sent, pc, turn, taken, todo, reuse, out, why>>

-----------------------------------------------------------------------------
(* The handler: parts of its steps. *)

(* The session ends: handle() returns, having caught what `reason` names. *)
Close(reason) ==
  /\ pc' = "closed" /\ why' = reason /\ todo' = <<>>
  /\ UNCHANGED <<clientVars, reuse, out>>

(* Mutant: one turn too many. *)
TakeOneMore(q) ==
  /\ pc = "recv" /\ turn <= MaxQueries
  /\ client # "reset" /\ taken < Len(sent)
  /\ q = sent[taken + 1]
  /\ turn' = turn + 1
  /\ taken' = taken + 1

(* recv_frame delivers the next query to a turn of the loop. *)
Take(q) ==
  /\ pc = "recv" /\ turn < MaxQueries
  /\ client # "reset" /\ taken < Len(sent)
  /\ q = sent[taken + 1]
  /\ turn' = turn + 1
  /\ taken' = taken + 1

Reply(cells, again) ==
  /\ pc' = "write" /\ todo' = cells /\ reuse' = again
  /\ UNCHANGED <<clientVars, out, why>>

GoTo(place) ==
  /\ pc' = place
  /\ UNCHANGED <<clientVars, todo, reuse, out, why>>

(* Mutant: no settimeout, so a silent peer is waited for for ever. *)
ReadFailsUntimed ==
  \/ client = "reset" /\ Close("network")
  \/ client = "shut" /\ taken = Len(sent) /\ Close("eof")

(* A read that will get nothing more: the peer's EOF, or its reset.  Only  *)
(* a peer that neither sends nor closes makes it time out.                 *)
ReadFails ==
  \/ client = "reset" /\ Close("network")
  \/ client = "shut" /\ taken = Len(sent) /\ Close("eof")
  \/ client = "open" /\ taken = Len(sent) /\ Close("timeout")

-----------------------------------------------------------------------------
(* The handler: one action per outcome of a turn of the loop. *)

(* range(MAX_TCP_QUERIES) is exhausted: the connection is closed, answered.*)
LoopDone ==
  /\ pc = "recv" /\ turn = MaxQueries
  /\ Close("") /\ UNCHANGED <<turn, taken>>

RecvFails ==
  /\ pc = "recv" /\ turn < MaxQueries
  /\ ReadFails /\ UNCHANGED <<turn, taken>>

(* A zero length, or a message without a readable question. *)
RecvMalformed ==
  \E q \in Kind : Take(q) /\ q.key \in {"short", "malformed"} /\ Close("format")

(* Nothing is to be sent at all: close. *)
RecvCloseBefore ==
  \E q \in Kind :
    /\ Take(q)
    /\ q.key \in (IF q.fresh THEN {"close-before", "reply"} ELSE {"close-before-response"})
    /\ Close("")

RecvStall ==
  \E q \in Kind : Take(q) /\ q.key = "stall" /\ GoTo("stall")

(* Any other ordinary name is forwarded, on a connection of its own. *)
RecvForward ==
  \E q \in Kind :
    /\ Take(q) /\ ~q.fresh
    /\ q.key \notin {"short", "malformed", "close-before-response", "stall"}
    /\ GoTo("forward")

RecvBatch ==
  \E q \in Kind : Take(q) /\ q.fresh /\ q.key \in FreshBatch /\ GoTo("gather")

(* Every other fresh name is answered; a faulty answer is the last one. *)
RecvFresh ==
  \E q \in Kind :
    /\ Take(q) /\ q.fresh
    /\ q.key \notin FreshBatch \cup {"close-before", "reply", "stall"}
    /\ Reply(ServeFresh(q.key, taken + 1), q.key \in FreshReusing)

StallEnds ==
  /\ pc = "stall"
  /\ Close("") /\ UNCHANGED <<turn, taken>>

-----------------------------------------------------------------------------
(* The handler: forwarding, batches and writing. *)

(* Mutant: the connection is kept after a split reply too (as for fresh). *)
ForwardAnsweredKeeping ==
  /\ pc = "forward" /\ sent[taken].key # "reply"
  /\ LET key == sent[taken].key
     IN Reply(SendFrame(key, taken), key \notin LegacyFault \ {"trailing-bytes"})
  /\ UNCHANGED <<turn, taken>>

(* BIND answered with the query's transaction ID; it answers no reply.     *)
ForwardAnswered ==
  /\ pc = "forward" /\ sent[taken].key # "reply"
  /\ LET key == sent[taken].key
     IN Reply(SendFrame(key, taken), key \in LegacyWhole)
  /\ UNCHANGED <<turn, taken>>

(* It did not: no connection, no answer in time, EOF, or another ID. *)
ForwardFails ==
  /\ pc = "forward"
  /\ \E reason \in Reason \ {""} : Close(reason)
  /\ UNCHANGED <<turn, taken>>

(* Mutant: the connection is kept after a batch too. *)
GatherNextKeeping ==
  /\ pc = "gather" /\ client # "reset" /\ taken < Len(sent)
  /\ sent[taken + 1].key # "short"
  /\ taken' = taken + 1
  /\ IF taken + 1 < turn + 2 THEN GoTo("gather")
                             ELSE Reply(BatchReply(sent[turn].key, turn), TRUE)
  /\ UNCHANGED turn

(* _next for a batch: the second query, then the third, then all replies. *)
GatherNext ==
  /\ pc = "gather" /\ client # "reset" /\ taken < Len(sent)
  /\ sent[taken + 1].key # "short"
  /\ taken' = taken + 1
  /\ IF taken + 1 < turn + 2 THEN GoTo("gather")
                             ELSE Reply(BatchReply(sent[turn].key, turn), FALSE)
  /\ UNCHANGED turn

(* A message under 12 bytes passes for the end of the stream. *)
GatherShort ==
  /\ pc = "gather" /\ client # "reset" /\ taken < Len(sent)
  /\ sent[taken + 1].key = "short"
  /\ taken' = taken + 1
  /\ Close("eof") /\ UNCHANGED turn

GatherFails ==
  /\ pc = "gather"
  /\ ReadFails /\ UNCHANGED <<turn, taken>>

(* A cell leaves; after the last one the loop goes on or handle() returns. *)
Write ==
  /\ pc = "write" /\ client # "reset"
  /\ out' = Append(out, Head(todo))
  /\ todo' = Tail(todo)
  /\ pc' = IF Len(todo) > 1 THEN "write" ELSE IF reuse THEN "recv" ELSE "closed"
  /\ UNCHANGED <<clientVars, turn, taken, reuse, why>>

(* sendall raises: the client reset, or did not read in time. *)
WriteFails ==
  /\ pc = "write"
  /\ \/ client = "reset" /\ Close("network")
     \/ client # "reset" /\ Close("timeout")
  /\ UNCHANGED <<turn, taken>>

-----------------------------------------------------------------------------
Handle ==
  \/ LoopDone \/ RecvFails \/ RecvMalformed \/ RecvCloseBefore \/ RecvStall
  \/ RecvForward \/ RecvBatch \/ RecvFresh \/ StallEnds
  \/ ForwardAnswered \/ ForwardFails
  \/ GatherNext \/ GatherShort \/ GatherFails
  \/ Write \/ WriteFails

Client == (\E k \in Kind : Send(k)) \/ HalfClose \/ Reset

Next == Handle \/ Client

Spec == Init /\ [][Next]_vars

(* The handler thread runs; every wait of its own ends, by a timeout if by *)
(* nothing else.  The client owes nothing.                                 *)
FairSpec == Spec /\ WF_vars(Handle)

-----------------------------------------------------------------------------
(* The turns whose reply is over: all of them while the handler waits for  *)
(* the next query, all but the last one otherwise.                         *)
Over == IF pc = "recv" \/ turn = 0 THEN turn ELSE turn - 1

SourceOf(i) == IF sent[i].fresh THEN "fresh" ELSE "upstream"
WholeParts == <<"prefix", "front", "back">>

(* The queries of a reused connection are answered once each, in the order *)
(* they were sent, whole and from the right source, and nothing else is    *)
(* ever put before, between or after those replies: whatever a scenario    *)
(* breaks, duplicates or appends belongs to the last query the session     *)
(* takes up, so no later reply can be read at the wrong offset.            *)
RepliesInOrder ==
  /\ Len(out) >= 3 * Over
  /\ \A i \in 1 .. Over : \A p \in 1 .. 3 :
       out[3 * (i - 1) + p] = [of |-> i, part |-> WholeParts[p], src |-> SourceOf(i)]
  /\ \A j \in 3 * Over + 1 .. Len(out) : out[j].of \in Over + 1 .. taken

(* A session reads at most MaxQueries queries in turns of the loop, and two*)
(* more only as the rest of a batch, after which it ends.                  *)
QueryBudget ==
  /\ turn <= MaxQueries
  /\ taken \in turn .. turn + 2
  /\ taken > turn => pc \in {"gather", "write", "closed"} /\ sent[turn].key \in FreshBatch

(* A session that ends without a failure has sent the last query exactly   *)
(* the stimulus of its scenario: nothing, one faulty reply, or one frame   *)
(* for each query of a batch, the batch's own among them, last come first  *)
(* where it is to be reordered; and no part of them is missing.            *)
BatchOrder(key) == IF key = "reordered" THEN <<2, 1, 0>> ELSE <<0, 1, 2>>
CleanEnd ==
  pc = "closed" /\ why = "" /\ turn > 0 =>
    LET q == sent[turn]
        place == BatchOrder(q.key)
    IN SubSeq(out, 3 * (turn - 1) + 1, Len(out)) =
         IF q.key \in {"close-before-response", "close-before", "reply", "stall"} THEN <<>>
         ELSE IF q.fresh /\ q.key \in FreshBatch
         THEN BatchFrame(turn + place[1]) \o BatchFrame(turn + place[2]) \o BatchFrame(turn + place[3])
         ELSE IF q.fresh THEN ServeFresh(q.key, turn) ELSE SendFrame(q.key, turn)

(* docs/fresh-fixture-contract.md:33 says that the client-facing service   *)
(* forwards non-fresh queries to BIND: so no reply to one is made here.    *)
(* (The code answers every query of a batch itself.)                       *)
NonFreshForwarded ==
  \A j \in 1 .. Len(out) : ~sent[out[j].of].fresh => out[j].src = "upstream"

(* Every session ends, whatever the client does or leaves undone: this is  *)
(* what lets the server's permits come back.                               *)
SessionEnds == <>(pc = "closed")
=============================================================================
