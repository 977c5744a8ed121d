-------------------------- MODULE TcpSessionProofs --------------------------
(***************************************************************************)
(* Theorems about TcpSession, for any kinds of query, any limit on the     *)
(* turns of the loop and any number of queries sent ahead: the replies of  *)
(* a reused connection are whole, in order and from the right source, the  *)
(* handler reads no more than its budget, and a session that ends without  *)
(* a failure has sent its last query exactly the stimulus of its scenario. *)
(***************************************************************************)
EXTENDS TcpSession, SequenceFacts

(* What may be written for a turn: some cells, all of the given queries. *)
Belongs(cells, S) ==
  /\ cells \in Seq(Cell)
  /\ Len(cells) > 0
  /\ \A j \in 1 .. Len(cells) : cells[j].of \in S

WholeCell(i, p) == [of |-> i, part |-> WholeParts[p], src |-> SourceOf(i)]

(* How the counters go with the place of the handler. *)
CountInv ==
  /\ turn <= MaxQueries /\ turn <= taken /\ taken <= turn + 2 /\ taken <= Len(sent)
  /\ pc \in {"recv", "stall", "forward"} => taken = turn
  /\ pc \in {"stall", "forward", "gather", "write"} => turn > 0
  /\ pc = "gather" => taken < turn + 2
  /\ pc = "gather" \/ taken > turn => turn > 0 /\ sent[turn].key \in FreshBatch
  /\ pc = "forward" => ~sent[turn].fresh

(* What is still to be written: cells of this turn's queries; if the loop  *)
(* goes on afterwards, exactly the rest of one whole reply.                *)
TodoInv ==
  pc = "write" =>
    /\ Belongs(todo, turn .. taken)
    /\ reuse =>
         /\ taken = turn
         /\ Len(out) + Len(todo) = 3 * turn
         /\ \A j \in 1 .. Len(todo) : todo[j] = WholeCell(turn, j + 3 - Len(todo))
         /\ \A j \in 3 * (turn - 1) + 1 .. Len(out) : out[j] = WholeCell(turn, j - 3 * (turn - 1))

(* While nothing is being written the stream ends with a whole reply. *)
RestInv == pc \in {"recv", "stall", "forward", "gather"} => Len(out) = 3 * Over

TInv == TypeOK /\ CountInv /\ TodoInv /\ RestInv /\ RepliesInOrder

-----------------------------------------------------------------------------
(* Two runs of such cells make one. *)
LEMMA BelongsConcat ==
  ASSUME NEW S, NEW a, NEW b, Belongs(a, S), Belongs(b, S)
  PROVE  Belongs(a \o b, S)
<1>1. a \o b \in Seq(Cell) /\ Len(a \o b) = Len(a) + Len(b)
  BY DEF Belongs
<1>2. ASSUME NEW j \in 1 .. Len(a \o b)
      PROVE  (a \o b)[j].of \in S
  <2>1. CASE j <= Len(a)
    BY <2>1 DEF Belongs
  <2>2. CASE j > Len(a)
    <3>1. j - Len(a) \in 1 .. Len(b) /\ (a \o b)[j] = b[j - Len(a)]
      BY <1>1, <2>2 DEF Belongs
    <3> QED
      BY <3>1 DEF Belongs
  <2> QED
    BY <2>1, <2>2, <1>1 DEF Belongs
<1> QED
  BY <1>1, <1>2 DEF Belongs

(* ... also for more queries. *)
LEMMA BelongsMore ==
  ASSUME NEW S, NEW T, S \subseteq T, NEW a, Belongs(a, S)
  PROVE  Belongs(a, T)
BY DEF Belongs

(* Cells makes one cell of each part, all of query n. *)
LEMMA CellsFacts ==
  ASSUME NEW n \in Nat, NEW src \in Source, NEW parts \in Seq(Part)
  PROVE  /\ Cells(n, src, parts) \in Seq(Cell)
         /\ Len(Cells(n, src, parts)) = Len(parts)
         /\ \A j \in 1 .. Len(parts) :
              Cells(n, src, parts)[j] = [of |-> n, part |-> parts[j], src |-> src]
         /\ Len(parts) > 0 => Belongs(Cells(n, src, parts), {n})
<1>1. \A j \in 1 .. Len(parts) : [of |-> n, part |-> parts[j], src |-> src] \in Cell
  BY DEF Cell
<1>2. Cells(n, src, parts) \in [1 .. Len(parts) -> Cell]
  BY <1>1 DEF Cells
<1>3. Cells(n, src, parts) \in Seq(Cell) /\ Len(Cells(n, src, parts)) = Len(parts)
  BY <1>2
<1> QED
  BY <1>3 DEF Cells, Belongs

(* A whole reply: three cells. *)
LEMMA WholeFacts ==
  ASSUME NEW n \in Nat, NEW src \in Source
  PROVE  /\ Belongs(Whole(n, src), {n})
         /\ Len(Whole(n, src)) = 3
         /\ \A p \in 1 .. 3 : Whole(n, src)[p] = [of |-> n, part |-> WholeParts[p], src |-> src]
<1>1. WholeParts \in Seq(Part) /\ Len(WholeParts) = 3
  BY DEF WholeParts, Part
<1>2. Whole(n, src) = Cells(n, src, WholeParts)
  BY DEF Whole, WholeParts
<1>3. /\ Len(Cells(n, src, WholeParts)) = 3
      /\ \A j \in 1 .. 3 :
           Cells(n, src, WholeParts)[j] = [of |-> n, part |-> WholeParts[j], src |-> src]
      /\ Belongs(Cells(n, src, WholeParts), {n})
  <2>1. Len(WholeParts) > 0
    BY <1>1
  <2>2. /\ Len(Cells(n, src, WholeParts)) = Len(WholeParts)
        /\ \A j \in 1 .. Len(WholeParts) :
             Cells(n, src, WholeParts)[j] = [of |-> n, part |-> WholeParts[j], src |-> src]
        /\ Belongs(Cells(n, src, WholeParts), {n})
    BY <1>1, <2>1, CellsFacts, ZenonT(30)
  <2> QED
    BY <1>1, <2>2
<1> QED
  BY <1>2, <1>3

(* The faulty replies, part by part. *)
LEMMA PartsFacts ==
  ASSUME NEW n \in Nat, NEW src \in Source
  PROVE  /\ Belongs(Cells(n, src, <<"prefix">>), {n})
         /\ Belongs(Cells(n, src, <<"prefix", "front">>), {n})
         /\ Belongs(Cells(n, src, <<"long", "front">>), {n})
         /\ Belongs(Cells(n, src, <<"long", "front", "back">>), {n})
         /\ Belongs(Cells(n, src, <<"prefix", "wrong", "back">>), {n})
         /\ Belongs(Cells(n, src, <<"junk">>), {n})
         /\ Belongs(Cells(n, src, <<"empty">>), {n})
<1> DEFINE Good(s) == s \in Seq(Part) /\ Len(s) > 0
<1>1. /\ Good(<<"prefix">>) /\ Good(<<"prefix", "front">>)
      /\ Good(<<"long", "front">>) /\ Good(<<"long", "front", "back">>)
      /\ Good(<<"prefix", "wrong", "back">>) /\ Good(<<"junk">>) /\ Good(<<"empty">>)
  BY DEF Part
<1>2. \A s : Good(s) => Belongs(Cells(n, src, s), {n})
  BY CellsFacts
<1> HIDE DEF Good
<1> QED
  BY <1>1, <1>2

(* send_frame writes cells of its own query, and all of them if it is kept.*)
LEMMA SendFrameFacts ==
  ASSUME NEW n \in Nat, NEW key
  PROVE  /\ Belongs(SendFrame(key, n), {n})
         /\ key \in LegacyWhole => SendFrame(key, n) = Whole(n, "upstream")
<1> DEFINE C(parts) == Cells(n, "upstream", parts)
<1>1. /\ Belongs(C(<<"prefix">>), {n})
      /\ Belongs(C(<<"prefix", "front">>), {n})
      /\ Belongs(C(<<"long", "front">>), {n})
      /\ Belongs(C(<<"junk">>), {n})
  BY PartsFacts DEF Source
<1>2. Belongs(Whole(n, "upstream"), {n})
  BY WholeFacts DEF Source
<1>3. /\ Belongs(Whole(n, "upstream") \o Whole(n, "upstream"), {n})
      /\ Belongs(Whole(n, "upstream") \o C(<<"junk">>), {n})
  BY <1>1, <1>2, BelongsConcat
<1> QED
  BY <1>1, <1>2, <1>3 DEF SendFrame, LegacyWhole

(* So does serve_fresh_tcp. *)
LEMMA ServeFreshFacts ==
  ASSUME NEW n \in Nat, NEW key
  PROVE  /\ Belongs(ServeFresh(key, n), {n})
         /\ key \in FreshReusing => ServeFresh(key, n) = Whole(n, "fresh")
<1> DEFINE C(parts) == Cells(n, "fresh", parts)
<1>1. /\ Belongs(C(<<"prefix">>), {n})
      /\ Belongs(C(<<"prefix", "front">>), {n})
      /\ Belongs(C(<<"long", "front", "back">>), {n})
      /\ Belongs(C(<<"prefix", "wrong", "back">>), {n})
      /\ Belongs(C(<<"junk">>), {n})
  BY PartsFacts DEF Source
<1>2. Belongs(Whole(n, "fresh"), {n})
  BY WholeFacts DEF Source
<1>3. /\ Belongs(Whole(n, "fresh") \o Whole(n, "fresh"), {n})
      /\ Belongs(Whole(n, "fresh") \o C(<<"junk">>), {n})
  BY <1>1, <1>2, BelongsConcat
<1> QED
  BY <1>1, <1>2, <1>3 DEF ServeFresh, FreshReusing

(* A batch: cells of its three queries. *)
LEMMA BatchFacts ==
  ASSUME NEW n \in Nat, NEW key
  PROVE  Belongs(BatchReply(key, n), n .. n + 2)
<1>1. ASSUME NEW i \in n .. n + 2
      PROVE  Belongs(BatchFrame(i), n .. n + 2)
  <2>1. i \in Nat
    OBVIOUS
  <2>2. Belongs(Cells(i, "fresh", <<"empty">>), {i}) /\ Belongs(Whole(i, "fresh"), {i})
    BY <2>1, PartsFacts, WholeFacts DEF Source
  <2> QED
    BY <2>2, BelongsMore DEF BatchFrame
<1>2. /\ n \in n .. n + 2 /\ n + 1 \in n .. n + 2 /\ n + 2 \in n .. n + 2
  OBVIOUS
<1>3. /\ Belongs(BatchFrame(n + 2) \o BatchFrame(n + 1), n .. n + 2)
      /\ Belongs(BatchFrame(n) \o BatchFrame(n + 1), n .. n + 2)
  BY <1>1, <1>2, BelongsConcat
<1>4. /\ Belongs((BatchFrame(n + 2) \o BatchFrame(n + 1)) \o BatchFrame(n), n .. n + 2)
      /\ Belongs((BatchFrame(n) \o BatchFrame(n + 1)) \o BatchFrame(n + 2), n .. n + 2)
  BY <1>1, <1>2, <1>3, BelongsConcat
<1> QED
  BY <1>4 DEF BatchReply

-----------------------------------------------------------------------------
(* A new session: nothing read, nothing written. *)
LEMMA InitTInv == Init => TInv
<1> SUFFICES ASSUME Init PROVE TInv
  OBVIOUS
<1>0. <<>> \in Seq(Query) /\ <<>> \in Seq(Cell) /\ Len(<<>>) = 0
  OBVIOUS
<1>1. TypeOK
  BY <1>0 DEF Init, TypeOK, Place, Reason
<1>2. CountInv
  <2>1. 0 <= MaxQueries
    BY BoundAssumption
  <2>2. pc = "recv" /\ turn = 0 /\ taken = 0 /\ Len(sent) = 0
    BY <1>0, Zenon DEF Init
  <2> HIDE DEF Init
  <2> QED
    BY <2>1, <2>2 DEF CountInv
<1>2a. TodoInv
  BY DEF Init, TodoInv
<1>3. Over = 0 /\ Len(out) = 0
  BY DEF Init, Over
<1>4. RestInv /\ RepliesInOrder
  BY <1>3 DEF RestInv, RepliesInOrder
<1> QED
  BY <1>1, <1>2, <1>2a, <1>4 DEF TInv

(* The client's steps change nothing the handler has done. *)
LEMMA ClientStep ==
  ASSUME TInv, Client \/ UNCHANGED vars
  PROVE  TInv'
<1> USE DEF TInv
<1> DEFINE Kept == /\ UNCHANGED <<pc, turn, taken, todo, reuse, out, why>>
                   /\ sent' \in Seq(Query) /\ client' \in {"open", "shut", "reset"}
                   /\ Len(sent) <= Len(sent')
                   /\ \A i \in 1 .. Len(sent) : sent'[i] = sent[i]
<1>1. Kept
  <2>1. ASSUME NEW k \in Kind, Send(k)
        PROVE  Kept
    <3>1. sent \in Seq(Query) /\ k \in Query /\ sent' = Append(sent, k)
      BY <2>1, KindAssumption DEF Send, TypeOK
    <3>2. /\ sent' \in Seq(Query) /\ Len(sent') = Len(sent) + 1
          /\ \A i \in 1 .. Len(sent) : sent'[i] = sent[i]
      BY <3>1
    <3> QED
      BY <2>1, <3>2 DEF Send, TypeOK
  <2>2. CASE HalfClose \/ Reset \/ UNCHANGED vars
    BY <2>2 DEF HalfClose, Reset, vars, TypeOK
  <2> QED
    BY <2>1, <2>2 DEF Client
<1>2. \A i \in 1 .. Len(sent) : SourceOf(i)' = SourceOf(i)
  BY <1>1 DEF SourceOf
<1>3. TypeOK'
  BY <1>1 DEF TypeOK
<1>4. CountInv'
  <2>1. turn > 0 /\ turn <= Len(sent) => sent'[turn] = sent[turn]
    BY <1>1 DEF TypeOK
  <2>2. taken <= Len(sent') /\ turn <= Len(sent)
    BY <1>1 DEF CountInv, TypeOK
  <2> QED
    BY <1>1, <2>1, <2>2 DEF CountInv, TypeOK
<1>5. TodoInv'
  <2>1. turn \in 1 .. Len(sent) \/ turn = 0
    BY <1>1 DEF CountInv, TypeOK
  <2>2. turn > 0 => \A p : WholeCell(turn, p)' = WholeCell(turn, p)
    BY <1>1, <1>2, <2>1 DEF WholeCell
  <2>3. Belongs(todo, turn .. taken)' <=> Belongs(todo, turn .. taken)
    BY <1>1 DEF Belongs
  <2>4. pc = "write" => turn > 0
    BY DEF CountInv
  <2>5. CASE pc = "write"
    <3>1. TodoInv!2
      BY <2>5 DEF TodoInv
    <3> QED
      BY <1>1, <2>2, <2>3, <2>4, <2>5, <3>1 DEF TodoInv
  <2>6. CASE pc # "write"
    BY <1>1, <2>6 DEF TodoInv
  <2> QED
    BY <2>5, <2>6
<1>6. RestInv' /\ RepliesInOrder'
  <2>1. Over' = Over /\ \A i \in 1 .. Over : i \in 1 .. Len(sent)
    BY <1>1 DEF Over, CountInv, TypeOK
  <2>2. RepliesInOrder'
    BY <1>1, <1>2, <2>1 DEF RepliesInOrder
  <2>3. RestInv'
    BY <1>1, <2>1 DEF RestInv
  <2> QED
    BY <2>2, <2>3
<1> QED
  BY <1>3, <1>4, <1>5, <1>6

(* While the handler waits for a query, the last reply is the last turn's. *)
LEMMA LastReply ==
  ASSUME TInv, pc = "recv", NEW j \in 3 * (turn - 1) + 1 .. Len(out), turn > 0
  PROVE  out[j].of = turn
<1>1. Len(out) = 3 * turn /\ Over = turn /\ turn \in Nat
  BY DEF TInv, RestInv, Over, TypeOK
<1>2. PICK p \in 1 .. 3 : j = 3 * (turn - 1) + p
  <2>1. j - 3 * (turn - 1) \in 1 .. 3
    BY <1>1
  <2> QED
    BY <1>1, <2>1
<1>3. turn \in 1 .. Over
  BY <1>1
<1>4. out[3 * (turn - 1) + p] = [of |-> turn, part |-> WholeParts[p], src |-> SourceOf(turn)]
  BY <1>3 DEF TInv, RepliesInOrder
<1> QED
  BY <1>2, <1>4

(* The session closes without reading a query. *)
LEMMA CloseStep ==
  ASSUME TInv, NEW reason \in Reason, Close(reason), UNCHANGED <<turn, taken>>
  PROVE  TInv'
<1> USE DEF TInv, Close, clientVars
<1>1. TypeOK'
  BY DEF TypeOK, Place
<1>2. CountInv' /\ TodoInv' /\ RestInv'
  BY DEF CountInv, TodoInv, RestInv, TypeOK
<1>3. RepliesInOrder'
  <2>1. CASE pc = "recv" /\ turn > 0
    <3>1. Over = turn /\ Over' = turn - 1 /\ turn \in Nat /\ Len(out) = 3 * turn
      BY <2>1 DEF Over, TypeOK, RestInv
    <3>2. \A j \in 3 * (turn - 1) + 1 .. Len(out) : out[j].of = turn
      BY <2>1, LastReply
    <3>3. turn \in turn .. taken
      BY <2>1 DEF CountInv, TypeOK
    <3> QED
      BY <3>1, <3>2, <3>3 DEF RepliesInOrder, SourceOf
  <2>2. CASE ~(pc = "recv" /\ turn > 0)
    <3>1. Over' = Over
      BY <2>2 DEF Over, TypeOK
    <3> QED
      BY <3>1 DEF RepliesInOrder, SourceOf
  <2> QED
    BY <2>1, <2>2
<1> QED
  BY <1>1, <1>2, <1>3

(***************************************************************************)
(* Reading a query leaves the stream alone: what had to be whole is whole, *)
(* and there is nothing else.                                              *)
(***************************************************************************)
LEMMA TakeStream ==
  ASSUME TInv, NEW q \in Kind, Take(q), UNCHANGED <<sent, out>>, pc' # "recv"
  PROVE  /\ RepliesInOrder'
         /\ turn' = turn + 1 /\ taken' = turn' /\ turn' \in Nat
         /\ turn' <= MaxQueries /\ taken' <= Len(sent)
         /\ sent[turn'] = q
         /\ Len(out) = 3 * Over' /\ Over' = turn' - 1
<1>1. /\ Over = turn /\ Over' = turn /\ turn \in Nat /\ taken = turn
      /\ turn' = turn + 1 /\ taken' = taken + 1 /\ Len(out) = 3 * turn
  BY DEF TInv, Take, Over, TypeOK, CountInv, RestInv
<1>2. RepliesInOrder'
  <2>1. 3 * Over + 1 .. Len(out) = {}
    BY <1>1
  <2>2. /\ Len(out) >= 3 * Over
        /\ \A i \in 1 .. Over : \A p \in 1 .. 3 : out[3 * (i - 1) + p] = WholeCell(i, p)
    BY DEF TInv, RepliesInOrder, WholeCell
  <2>3. \A i, p : WholeCell(i, p)' = WholeCell(i, p)
    BY DEF WholeCell, SourceOf
  <2>4. Over' = Over
    BY <1>1
  <2>5. /\ Len(out') >= 3 * Over'
        /\ \A i \in 1 .. Over' : \A p \in 1 .. 3 : out'[3 * (i - 1) + p] = WholeCell(i, p)'
        /\ 3 * Over' + 1 .. Len(out') = {}
    BY <2>1, <2>2, <2>3, <2>4
  <2> QED
    BY <2>5 DEF RepliesInOrder, WholeCell
<1> QED
  BY <1>1, <1>2, BoundAssumption DEF Take, TInv, TypeOK

(* A query is read and needs no reply yet, or none at all. *)
LEMMA TakeStep ==
  ASSUME TInv, NEW q \in Kind, Take(q),
         \/ \E reason \in Reason : Close(reason)
         \/ GoTo("stall")
         \/ ~q.fresh /\ GoTo("forward")
         \/ q.key \in FreshBatch /\ GoTo("gather")
  PROVE  TInv'
<1> DEFINE Moved == /\ UNCHANGED <<sent, client, out, reuse>>
                    /\ pc' \in {"closed", "stall", "forward", "gather"}
                    /\ pc' = "forward" => ~q.fresh
                    /\ pc' = "gather" => q.key \in FreshBatch
                    /\ todo' \in Seq(Cell) /\ why' \in Reason
<1>1. Moved
  <2>1. ASSUME NEW reason \in Reason, Close(reason)
        PROVE  Moved
    <3>1. <<>> \in Seq(Cell)
      OBVIOUS
    <3> QED
      BY <2>1, <3>1 DEF Close, clientVars
  <2>2. CASE GoTo("stall") \/ (~q.fresh /\ GoTo("forward")) \/ (q.key \in FreshBatch /\ GoTo("gather"))
    BY <2>2 DEF GoTo, clientVars, TInv, TypeOK
  <2> QED
    BY <2>1, <2>2
<1>2. /\ RepliesInOrder'
      /\ turn' = turn + 1 /\ taken' = turn' /\ turn' \in Nat
      /\ turn' <= MaxQueries /\ taken' <= Len(sent)
      /\ sent[turn'] = q
      /\ Len(out) = 3 * Over'
  BY <1>1, TakeStream
<1>3. turn' > 0 /\ taken' \in Nat
  BY <1>2 DEF TInv, TypeOK
<1>4. TypeOK'
  BY <1>1, <1>2, <1>3 DEF TInv, TypeOK, Place
<1>5. CountInv'
  BY <1>1, <1>2, <1>3 DEF CountInv
<1>6. TodoInv' /\ RestInv'
  BY <1>1, <1>2 DEF TodoInv, RestInv
<1> QED
  BY <1>2, <1>4, <1>5, <1>6 DEF TInv

(***************************************************************************)
(* A reply is started for turn n when the stream ends with the reply of    *)
(* turn n - 1.  If the loop is to go on, the reply is whole.               *)
(***************************************************************************)
LEMMA ReplyTodo ==
  ASSUME NEW n \in Nat, turn' = n, n > 0, taken' \in Nat, n <= taken',
         Len(out) = 3 * (n - 1), out' = out, sent' = sent,
         NEW again \in BOOLEAN, NEW cells,
         pc' = "write", todo' = cells, reuse' = again,
         Belongs(cells, n .. taken'),
         again => taken' = n /\ cells = Whole(n, SourceOf(n))
  PROVE  TodoInv'
<1>1. Belongs(todo, turn .. taken)'
  BY DEF Belongs
<1>2. ASSUME reuse'
      PROVE  /\ taken' = turn' /\ Len(out') + Len(todo') = 3 * turn'
             /\ \A j \in 1 .. Len(todo') : todo'[j] = WholeCell(turn, j + 3 - Len(todo))'
             /\ \A j \in 3 * (turn' - 1) + 1 .. Len(out') :
                  out'[j] = WholeCell(turn, j - 3 * (turn - 1))'
  <2>1. SourceOf(n) \in Source /\ SourceOf(n)' = SourceOf(n)
    BY DEF SourceOf, Source
  <2>2. cells = Whole(n, SourceOf(n)) /\ taken' = n
    BY <1>2
  <2>3. /\ Len(todo') = 3
        /\ \A p \in 1 .. 3 :
             todo'[p] = [of |-> n, part |-> WholeParts[p], src |-> SourceOf(n)]
    BY <2>1, <2>2, WholeFacts
  <2>4. \A p \in 1 .. 3 : todo'[p] = WholeCell(turn, p)'
    BY <2>1, <2>3 DEF WholeCell, WholeParts
  <2>5. \A p \in 1 .. 3 : p + 3 - Len(todo') = p
    BY <2>3
  <2>6. \A p \in 1 .. 3 : todo'[p] = WholeCell(turn, p + 3 - Len(todo))'
    BY <2>4, <2>5
  <2>7. 3 * (turn' - 1) + 1 .. Len(out') = {}
    <3>1. turn' \in Nat /\ Len(out') = 3 * (turn' - 1)
      OBVIOUS
    <3> QED
      BY <3>1
  <2>8. Len(out') + Len(todo') = 3 * turn'
    <3>1. turn' \in Nat /\ Len(out') = 3 * (turn' - 1)
      OBVIOUS
    <3> QED
      BY <2>3, <3>1
  <2>9. 1 .. Len(todo') = 1 .. 3
    BY <2>3
  <2>10. \A j \in 1 .. Len(todo') : todo'[j] = WholeCell(turn, j + 3 - Len(todo))'
    BY <2>6, <2>9, Zenon
  <2>11. \A j \in 3 * (turn' - 1) + 1 .. Len(out') :
           out'[j] = WholeCell(turn, j - 3 * (turn - 1))'
    BY <2>7, Zenon
  <2>12. taken' = turn'
    BY <2>2
  <2> QED
    BY <2>8, <2>10, <2>11, <2>12, Zenon
<1> QED
  BY <1>1, <1>2 DEF TodoInv

(* A fresh query is read and its reply begins. *)
LEMMA FreshStep == TInv /\ RecvFresh => TInv'
<1> SUFFICES ASSUME TInv, RecvFresh PROVE TInv'
  OBVIOUS
<1> DEFINE n == taken + 1
<1>1. PICK q \in Kind :
        /\ Take(q) /\ q.fresh
        /\ Reply(ServeFresh(q.key, n), q.key \in FreshReusing)
  BY DEF RecvFresh
<1>2. /\ pc' = "write" /\ todo' = ServeFresh(q.key, n) /\ reuse' = (q.key \in FreshReusing)
      /\ UNCHANGED <<sent, client, out, why>>
  BY <1>1 DEF Reply, clientVars
<1>3. /\ RepliesInOrder'
      /\ turn' = turn + 1 /\ taken' = turn' /\ turn' \in Nat
      /\ turn' <= MaxQueries /\ taken' <= Len(sent)
      /\ sent[turn'] = q
      /\ Len(out) = 3 * Over' /\ Over' = turn' - 1
  BY <1>1, <1>2, TakeStream
<1>4. turn' = n /\ n \in Nat /\ turn' > 0 /\ taken' \in Nat
  BY <1>1, <1>3 DEF Take, TInv, TypeOK
<1>5. /\ Belongs(ServeFresh(q.key, n), {n})
      /\ q.key \in FreshReusing => ServeFresh(q.key, n) = Whole(n, "fresh")
  BY <1>4, ServeFreshFacts
<1>6. Belongs(ServeFresh(q.key, n), n .. taken')
  <2>1. {n} \subseteq n .. taken'
    BY <1>3, <1>4
  <2> QED
    BY <1>5, <2>1, BelongsMore
<1>7. SourceOf(n) = "fresh"
  BY <1>1, <1>3, <1>4 DEF SourceOf
<1>8. TodoInv'
  <2>1. (q.key \in FreshReusing) \in BOOLEAN
    OBVIOUS
  <2>2. q.key \in FreshReusing => taken' = n /\ ServeFresh(q.key, n) = Whole(n, SourceOf(n))
    BY <1>3, <1>4, <1>5, <1>7
  <2>3. n <= taken' /\ Len(out) = 3 * (n - 1) /\ n > 0
    BY <1>3, <1>4
  <2> HIDE DEF n
  <2> QED
    BY <1>2, <1>4, <1>6, <2>1, <2>2, <2>3, ReplyTodo
<1>9. TypeOK'
  BY <1>2, <1>3, <1>4, <1>5 DEF TInv, TypeOK, Place, Belongs
<1>10. CountInv'
  BY <1>2, <1>3, <1>4 DEF CountInv
<1> QED
  BY <1>2, <1>3, <1>8, <1>9, <1>10 DEF TInv, RestInv

(* BIND's answer begins to be sent. *)
LEMMA ForwardStep == TInv /\ ForwardAnswered => TInv'
<1> SUFFICES ASSUME TInv, ForwardAnswered PROVE TInv'
  OBVIOUS
<1> DEFINE key == sent[taken].key
<1>1. /\ pc = "forward" /\ pc' = "write" /\ todo' = SendFrame(key, taken)
      /\ reuse' = (key \in LegacyWhole)
      /\ UNCHANGED <<sent, client, out, why, turn, taken>>
  BY DEF ForwardAnswered, Reply, clientVars
<1>2. /\ taken = turn /\ turn \in Nat /\ turn > 0 /\ ~sent[turn].fresh
      /\ Len(out) = 3 * (turn - 1) /\ Over = turn - 1
  BY <1>1 DEF TInv, TypeOK, CountInv, RestInv, Over
<1>3. /\ Belongs(SendFrame(key, turn), {turn})
      /\ key \in LegacyWhole => SendFrame(key, turn) = Whole(turn, "upstream")
  BY <1>2, SendFrameFacts
<1>4. Belongs(SendFrame(key, turn), turn .. taken')
  <2>1. {turn} \subseteq turn .. taken'
    BY <1>1, <1>2
  <2> QED
    BY <1>3, <2>1, BelongsMore
<1>5. SourceOf(turn) = "upstream"
  BY <1>2 DEF SourceOf
<1>6. TodoInv'
  <2>1. (key \in LegacyWhole) \in BOOLEAN
    OBVIOUS
  <2>2. key \in LegacyWhole => taken' = turn /\ SendFrame(key, turn) = Whole(turn, SourceOf(turn))
    BY <1>1, <1>2, <1>3, <1>5
  <2>3. turn <= taken' /\ taken' \in Nat /\ turn' = turn /\ todo' = SendFrame(key, turn)
    BY <1>1, <1>2
  <2> HIDE DEF key
  <2> QED
    BY <1>1, <1>2, <1>4, <2>1, <2>2, <2>3, ReplyTodo
<1>7. TypeOK'
  BY <1>1, <1>2, <1>3 DEF TInv, TypeOK, Place, Belongs
<1>8. CountInv'
  BY <1>1, <1>2 DEF TInv, CountInv
<1>9. Over' = Over
  BY <1>1, <1>2 DEF Over
<1>10. RepliesInOrder'
  BY <1>1, <1>9 DEF TInv, RepliesInOrder, SourceOf
<1> QED
  BY <1>1, <1>6, <1>7, <1>8, <1>10 DEF TInv, RestInv

(* A batch reads its next query, and after the third one its replies begin. *)
LEMMA GatherStep == TInv /\ GatherNext => TInv'
<1> SUFFICES ASSUME TInv, GatherNext PROVE TInv'
  OBVIOUS
<1>1. /\ pc = "gather" /\ taken < Len(sent) /\ taken' = taken + 1 /\ UNCHANGED turn
      /\ UNCHANGED <<sent, client, out, why>>
      /\ IF taken + 1 < turn + 2
           THEN pc' = "gather" /\ UNCHANGED <<todo, reuse>>
           ELSE pc' = "write" /\ todo' = BatchReply(sent[turn].key, turn) /\ reuse' = FALSE
  BY DEF GatherNext, GoTo, Reply, clientVars
<1>2. /\ turn \in Nat /\ turn > 0 /\ taken \in Nat /\ turn <= taken /\ taken < turn + 2
      /\ turn <= MaxQueries /\ sent[turn].key \in FreshBatch
      /\ Len(out) = 3 * (turn - 1) /\ Over = turn - 1 /\ Len(sent) \in Nat
  BY <1>1 DEF TInv, TypeOK, CountInv, RestInv, Over
<1>3. taken' \in Nat /\ taken' <= Len(sent) /\ turn <= taken' /\ taken' <= turn + 2 /\ Over' = Over
  BY <1>1, <1>2 DEF Over
<1>4. Belongs(BatchReply(sent[turn].key, turn), turn .. turn + 2)
  BY <1>2, BatchFacts
<1>5. TypeOK'
  <2>1. todo' \in Seq(Cell) /\ reuse' \in BOOLEAN /\ pc' \in Place
    BY <1>1, <1>4 DEF TInv, TypeOK, Place, Belongs
  <2> QED
    BY <1>1, <1>3, <2>1 DEF TInv, TypeOK
<1>6. CountInv'
  <2>1. pc' \in {"gather", "write"} /\ (pc' = "gather" => taken' < turn + 2)
    BY <1>1
  <2> QED
    BY <1>1, <1>2, <1>3, <2>1 DEF CountInv
<1>7. TodoInv'
  <2>1. CASE pc' = "write"
    <3>1. todo' = BatchReply(sent[turn].key, turn) /\ reuse' = FALSE /\ taken' = turn + 2
      BY <1>1, <1>2, <2>1
    <3>2. Belongs(todo', turn' .. taken')
      BY <1>1, <1>4, <3>1
    <3>3. Belongs(todo, turn .. taken)'
      BY <3>2 DEF Belongs
    <3> QED
      BY <3>1, <3>3 DEF TodoInv
  <2>2. CASE pc' # "write"
    BY <2>2 DEF TodoInv
  <2> QED
    BY <2>1, <2>2
<1>8. RestInv'
  BY <1>1, <1>2, <1>3 DEF RestInv
<1>9. RepliesInOrder'
  <2>1. UNCHANGED <<sent, out>> /\ taken' = taken + 1 /\ Over' = Over /\ Over \in Nat /\ taken \in Nat
    BY <1>1, <1>2, <1>3
  <2>2. Len(out) = 3 * Over
    BY <1>2
  <2> QED
    BY <2>1, <2>2 DEF TInv, RepliesInOrder, SourceOf
<1> QED
  BY <1>5, <1>6, <1>7, <1>8, <1>9 DEF TInv

(* A batch that finds too short a message closes. *)
LEMMA ShortStep == TInv /\ GatherShort => TInv'
<1> SUFFICES ASSUME TInv, GatherShort PROVE TInv'
  OBVIOUS
<1>1. /\ pc = "gather" /\ taken < Len(sent) /\ taken' = taken + 1 /\ UNCHANGED turn
      /\ UNCHANGED <<sent, client, out, reuse>>
      /\ pc' = "closed" /\ why' = "eof" /\ todo' = <<>>
  BY DEF GatherShort, Close, clientVars
<1>2. /\ turn \in Nat /\ turn > 0 /\ taken \in Nat /\ turn <= taken /\ taken < turn + 2
      /\ turn <= MaxQueries /\ sent[turn].key \in FreshBatch
      /\ Len(out) = 3 * (turn - 1) /\ Over = turn - 1 /\ Len(sent) \in Nat
  BY <1>1 DEF TInv, TypeOK, CountInv, RestInv, Over
<1>3. Over' = Over
  BY <1>1, <1>2 DEF Over
<1>4. todo' \in Seq(Cell)
  <2>1. <<>> \in Seq(Cell)
    OBVIOUS
  <2> QED
    BY <1>1, <2>1, Zenon
<1>5. TypeOK'
  <2>1. taken' \in Nat /\ pc' \in Place /\ why' \in Reason
    BY <1>1, <1>2 DEF Place, Reason
  <2>2. /\ sent' \in Seq(Query) /\ client' \in {"open", "shut", "reset"} /\ turn' \in Nat
        /\ reuse' \in BOOLEAN /\ out' \in Seq(Cell)
    BY <1>1, Zenon DEF TInv, TypeOK
  <2> QED
    BY <1>4, <2>1, <2>2, Zenon DEF TypeOK
<1>6. CountInv' /\ TodoInv' /\ RestInv'
  BY <1>1, <1>2 DEF CountInv, TodoInv, RestInv
<1>7. RepliesInOrder'
  <2>1. UNCHANGED <<sent, out>> /\ Over' = Over /\ Over \in Nat /\ taken \in Nat /\ Len(out) = 3 * Over
    BY <1>1, <1>2, <1>3
  <2> QED
    BY <2>1 DEF TInv, RepliesInOrder, SourceOf
<1> QED
  BY <1>5, <1>6, <1>7 DEF TInv

(* A cell leaves. *)
LEMMA WriteStep == TInv /\ Write => TInv'
<1> SUFFICES ASSUME TInv, Write PROVE TInv'
  OBVIOUS
<1>1. /\ pc = "write" /\ out' = Append(out, Head(todo)) /\ todo' = Tail(todo)
      /\ pc' = IF Len(todo) > 1 THEN "write" ELSE IF reuse THEN "recv" ELSE "closed"
      /\ UNCHANGED <<sent, client, turn, taken, reuse, why>>
  BY DEF Write, clientVars
<1>2. /\ turn \in Nat /\ turn > 0 /\ taken \in Nat /\ turn <= taken /\ Over = turn - 1
      /\ out \in Seq(Cell) /\ reuse \in BOOLEAN
  BY <1>1 DEF TInv, TypeOK, CountInv, Over
<1>3. /\ todo \in Seq(Cell) /\ Len(todo) > 0
      /\ \A j \in 1 .. Len(todo) : todo[j].of \in turn .. taken
  BY <1>1 DEF TInv, TodoInv, Belongs
<1>4. /\ out' \in Seq(Cell) /\ Len(out') = Len(out) + 1
      /\ \A j \in 1 .. Len(out) : out'[j] = out[j]
      /\ out'[Len(out) + 1] = todo[1]
  BY <1>1, <1>2, <1>3
<1>5. /\ todo' \in Seq(Cell) /\ Len(todo') = Len(todo) - 1
      /\ \A j \in 1 .. Len(todo') : todo'[j] = todo[j + 1]
  BY <1>1, <1>3
<1>6. ASSUME reuse
      PROVE  /\ taken = turn /\ Len(out) + Len(todo) = 3 * turn
             /\ \A j \in 1 .. Len(todo) : todo[j] = WholeCell(turn, j + 3 - Len(todo))
             /\ \A j \in 3 * (turn - 1) + 1 .. Len(out) :
                  out[j] = WholeCell(turn, j - 3 * (turn - 1))
  BY <1>1, <1>6 DEF TInv, TodoInv
<1>7. \A i, p : WholeCell(i, p)' = WholeCell(i, p)
  BY <1>1 DEF WholeCell, SourceOf
<1>8. TypeOK'
  <2>1. pc' \in Place
    BY <1>1 DEF Place
  <2> QED
    BY <1>1, <1>4, <1>5, <2>1, Zenon DEF TInv, TypeOK
<1>9. CountInv'
  <2>1. pc' = "recv" => taken = turn
    BY <1>1, <1>6
  <2>2. pc' \in {"write", "recv", "closed"}
    BY <1>1
  <2> QED
    BY <1>1, <1>2, <2>1, <2>2 DEF TInv, CountInv
<1>10. TodoInv'
  <2>1. CASE pc' = "write"
    <3>1. Len(todo) > 1
      BY <1>1, <2>1
    <3>2. Belongs(todo, turn .. taken)'
      BY <1>1, <1>3, <1>5, <3>1 DEF Belongs
    <3>3. ASSUME reuse'
          PROVE  /\ taken' = turn' /\ Len(out') + Len(todo') = 3 * turn'
                 /\ \A j \in 1 .. Len(todo') : todo'[j] = WholeCell(turn, j + 3 - Len(todo))'
                 /\ \A j \in 3 * (turn' - 1) + 1 .. Len(out') :
                      out'[j] = WholeCell(turn, j - 3 * (turn - 1))'
      <4>1. reuse
        BY <1>1, <3>3
      <4>1a. taken = turn /\ Len(out) + Len(todo) = 3 * turn
        BY <1>6, <4>1, Zenon
      <4>1b. Len(out) \in Nat /\ Len(todo) \in Nat
        BY <1>2, <1>3
      <4>2. taken' = turn' /\ Len(out') + Len(todo') = 3 * turn'
        BY <1>1, <1>2, <1>4, <1>5, <4>1a, <4>1b, SMTT(30)
      <4>3. ASSUME NEW j \in 1 .. Len(todo')
            PROVE  todo'[j] = WholeCell(turn, j + 3 - Len(todo))'
        <5>1. j + 1 \in 1 .. Len(todo) /\ todo'[j] = todo[j + 1]
          BY <1>3, <1>5
        <5>2. (j + 1) + 3 - Len(todo) = j + 3 - Len(todo')
          BY <1>3, <1>5
        <5>3. todo[j + 1] = WholeCell(turn, (j + 1) + 3 - Len(todo))
          BY <1>6, <4>1, <5>1
        <5>4. todo'[j] = WholeCell(turn, j + 3 - Len(todo'))
          BY <5>1, <5>2, <5>3
        <5> QED
          BY <1>1, <5>4 DEF WholeCell, SourceOf
      <4>4. ASSUME NEW j \in 3 * (turn' - 1) + 1 .. Len(out')
            PROVE  out'[j] = WholeCell(turn, j - 3 * (turn - 1))'
        <5>1. CASE j <= Len(out)
          <6>1. j \in 3 * (turn - 1) + 1 .. Len(out) /\ j \in 1 .. Len(out)
            BY <1>1, <1>2, <5>1
          <6>2. out'[j] = WholeCell(turn, j - 3 * (turn - 1))
            BY <1>4, <1>6, <4>1, <6>1
          <6> QED
            BY <1>1, <6>2 DEF WholeCell, SourceOf
        <5>2. CASE j = Len(out) + 1
          <6>1. out'[j] = todo[1] /\ 1 \in 1 .. Len(todo)
            BY <1>3, <1>4, <5>2
          <6>2. todo[1] = WholeCell(turn, 1 + 3 - Len(todo))
            BY <1>6, <4>1, <6>1
          <6>3. 1 + 3 - Len(todo) = j - 3 * (turn - 1)
            BY <1>2, <4>1a, <4>1b, <5>2
          <6>4. out'[j] = WholeCell(turn, j - 3 * (turn - 1))
            BY <6>1, <6>2, <6>3
          <6> QED
            BY <1>1, <6>4 DEF WholeCell, SourceOf
        <5> QED
          BY <1>1, <1>2, <1>4, <5>1, <5>2
      <4> QED
        BY <4>2, <4>3, <4>4
    <3> QED
      BY <3>2, <3>3, Zenon DEF TodoInv
  <2>2. CASE pc' # "write"
    BY <2>2 DEF TodoInv
  <2> QED
    BY <2>1, <2>2
<1>11. CASE pc' = "recv"
  <2>1. reuse /\ Len(todo) = 1
    <3>1. reuse /\ ~(Len(todo) > 1)
      BY <1>1, <1>11, Zenon
    <3>2. Len(todo) \in Nat /\ Len(todo) > 0
      BY <1>3
    <3>3. Len(todo) = 1
      <4> DEFINE l == Len(todo)
      <4>1. ~(l > 1) /\ l \in Nat /\ l > 0
        BY <3>1, <3>2, Zenon
      <4> HIDE DEF l
      <4>2. l = 1
        BY <4>1
      <4> QED
        BY <4>2 DEF l
    <3> QED
      BY <3>1, <3>3, Zenon
  <2>2. Over' = turn /\ Len(out) = 3 * turn - 1 /\ Len(out') = 3 * turn /\ taken' = turn
    <3>1. taken = turn /\ Len(out) + Len(todo) = 3 * turn
      BY <1>6, <2>1, Zenon
    <3>2. Len(out) \in Nat /\ Len(todo) = 1
      BY <1>2, <2>1
    <3>3. Over' = turn
      BY <1>1, <1>11 DEF Over
    <3> QED
      BY <1>1, <1>2, <1>4, <3>1, <3>2, <3>3
  <2>3. ASSUME NEW i \in 1 .. turn, NEW p \in 1 .. 3
        PROVE  out'[3 * (i - 1) + p] = WholeCell(i, p)
    <3>1. CASE i < turn
      <4>1. i \in 1 .. Over /\ 3 * (i - 1) + p \in 1 .. Len(out)
        BY <1>2, <2>2, <3>1
      <4>2. out[3 * (i - 1) + p] = WholeCell(i, p)
        BY <4>1 DEF TInv, RepliesInOrder, WholeCell
      <4> QED
        BY <1>4, <4>1, <4>2
    <3>2. CASE i = turn /\ p < 3
      <4>1. /\ 3 * (turn - 1) + p \in 3 * (turn - 1) + 1 .. Len(out)
            /\ 3 * (turn - 1) + p \in 1 .. Len(out)
            /\ (3 * (turn - 1) + p) - 3 * (turn - 1) = p
        BY <1>2, <2>2, <3>2
      <4>2. out[3 * (turn - 1) + p] = WholeCell(turn, (3 * (turn - 1) + p) - 3 * (turn - 1))
        BY <1>6, <2>1, <4>1
      <4> QED
        BY <1>4, <3>2, <4>1, <4>2
    <3>3. CASE i = turn /\ p = 3
      <4>1. 3 * (turn - 1) + p = Len(out) + 1 /\ 1 \in 1 .. Len(todo) /\ 1 + 3 - Len(todo) = 3
        BY <1>2, <2>1, <2>2, <3>3
      <4>2. todo[1] = WholeCell(turn, 1 + 3 - Len(todo))
        BY <1>6, <2>1, <4>1
      <4> QED
        BY <1>4, <3>3, <4>1, <4>2
    <3> QED
      BY <1>2, <3>1, <3>2, <3>3
  <2>4. RepliesInOrder'
    <3>1. \A i \in 1 .. Over' : \A p \in 1 .. 3 : out'[3 * (i - 1) + p] = WholeCell(i, p)'
      BY <1>7, <2>2, <2>3
    <3>2. Len(out') >= 3 * Over' /\ 3 * Over' + 1 .. Len(out') = {}
      BY <1>2, <2>2
    <3> QED
      BY <3>1, <3>2 DEF RepliesInOrder, WholeCell
  <2>5. RestInv'
    BY <2>2 DEF RestInv
  <2> QED
    BY <1>8, <1>9, <1>10, <2>4, <2>5 DEF TInv
<1>12. CASE pc' # "recv"
  <2>1. Over' = Over /\ pc' \in {"write", "closed"}
    BY <1>1, <1>2, <1>12 DEF Over
  <2>2. Len(out) >= 3 * Over
    BY DEF TInv, RepliesInOrder
  <2>3. \A i \in 1 .. Over : \A p \in 1 .. 3 : out'[3 * (i - 1) + p] = WholeCell(i, p)
    <3> SUFFICES ASSUME NEW i \in 1 .. Over, NEW p \in 1 .. 3
                 PROVE  out'[3 * (i - 1) + p] = WholeCell(i, p)
      OBVIOUS
    <3>1. 3 * (i - 1) + p \in 1 .. Len(out)
      BY <1>2, <2>2
    <3>2. out[3 * (i - 1) + p] = WholeCell(i, p)
      BY DEF TInv, RepliesInOrder, WholeCell
    <3> QED
      BY <1>4, <3>1, <3>2
  <2>4. \A j \in 3 * Over + 1 .. Len(out') : out'[j].of \in turn .. taken
    <3> SUFFICES ASSUME NEW j \in 3 * Over + 1 .. Len(out') PROVE out'[j].of \in turn .. taken
      OBVIOUS
    <3>1. CASE j <= Len(out)
      <4>1. j \in 3 * Over + 1 .. Len(out) /\ j \in 1 .. Len(out)
        BY <1>2, <3>1
      <4>2. out[j].of \in Over + 1 .. taken
        BY <4>1 DEF TInv, RepliesInOrder
      <4> QED
        BY <1>2, <1>4, <4>1, <4>2
    <3>2. CASE j = Len(out) + 1
      BY <1>3, <1>4, <3>2
    <3> QED
      BY <1>2, <1>4, <3>1, <3>2
  <2>5. RepliesInOrder'
    <3>1. \A i \in 1 .. Over' : \A p \in 1 .. 3 : out'[3 * (i - 1) + p] = WholeCell(i, p)'
      BY <1>7, <2>1, <2>3
    <3>2. \A j \in 3 * Over' + 1 .. Len(out') : out'[j].of \in Over' + 1 .. taken'
      BY <1>1, <1>2, <2>1, <2>4
    <3>3. Len(out') >= 3 * Over'
      BY <1>2, <1>4, <2>1, <2>2
    <3> QED
      BY <3>1, <3>2, <3>3 DEF RepliesInOrder, WholeCell
  <2>6. RestInv'
    BY <2>1 DEF RestInv
  <2> QED
    BY <1>8, <1>9, <1>10, <2>5, <2>6 DEF TInv
<1> QED
  BY <1>11, <1>12

-----------------------------------------------------------------------------
(* The strengthened invariant is inductive. *)
LEMMA NextTInv == TInv /\ [Next]_vars => TInv'
<1> SUFFICES ASSUME TInv, [Next]_vars PROVE TInv'
  OBVIOUS
<1>1. CASE Client \/ UNCHANGED vars
  BY <1>1, ClientStep
<1>2. ASSUME NEW reason \in Reason, Close(reason), UNCHANGED <<turn, taken>>
      PROVE  TInv'
  BY <1>2, CloseStep
<1>3. ReadFails => \E reason \in Reason : Close(reason)
  BY DEF ReadFails, Reason
<1>4. CASE LoopDone \/ StallEnds
  <2>1. "" \in Reason
    BY DEF Reason
  <2> QED
    BY <1>2, <1>4, <2>1 DEF LoopDone, StallEnds
<1>5. CASE RecvFails \/ GatherFails
  BY <1>2, <1>3, <1>5 DEF RecvFails, GatherFails
<1>6. CASE ForwardFails \/ WriteFails
  BY <1>2, <1>6 DEF ForwardFails, WriteFails, Reason
<1>7. CASE RecvMalformed \/ RecvCloseBefore
  BY <1>7, TakeStep DEF RecvMalformed, RecvCloseBefore, Reason
<1>8. CASE RecvStall \/ RecvForward \/ RecvBatch
  BY <1>8, TakeStep DEF RecvStall, RecvForward, RecvBatch
<1> QED
  BY <1>1, <1>4, <1>5, <1>6, <1>7, <1>8, FreshStep, ForwardStep, GatherStep, ShortStep, WriteStep
     DEF Next, Handle

(* The strengthened invariant holds in every behaviour. *)
THEOREM StreamInvariance == Spec => []TInv
BY InitTInv, NextTInv, PTL DEF Spec

(***************************************************************************)
(* Whatever the kinds of query, the limit on turns and the number of       *)
(* queries the client pipelines, the replies of a reused connection are    *)
(* whole, in order and from the right source (handle and serve_fresh_tcp). *)
(***************************************************************************)
THEOREM StreamInOrder == Spec => []RepliesInOrder
BY StreamInvariance, PTL DEF TInv

(* The variables keep their types in every behaviour of the handler. *)
THEOREM TypeCorrect == Spec => []TypeOK
BY StreamInvariance, PTL DEF TInv

(* MAX_TCP_QUERIES bounds the turns, and only a batch reads two more. *)
THEOREM BudgetKept == Spec => []QueryBudget
<1>1. TInv => QueryBudget
  <2> SUFFICES ASSUME TInv PROVE QueryBudget
    OBVIOUS
  <2>1. taken \in turn .. turn + 2
    BY DEF TInv, TypeOK, CountInv
  <2>2. taken > turn => pc \in {"gather", "write", "closed"}
    BY <2>1 DEF TInv, TypeOK, CountInv, Place
  <2> QED
    BY <2>1, <2>2 DEF TInv, CountInv, QueryBudget
<1> QED
  BY <1>1, StreamInvariance, PTL

-----------------------------------------------------------------------------
(* The stimulus of the last query. *)

Silent == {"close-before-response", "close-before", "reply", "stall"}

(* What is due to the query of the turn, and what has been written for it. *)
Stimulus ==
  LET q == sent[turn]
  IN IF q.key \in Silent THEN <<>>
     ELSE IF q.fresh /\ q.key \in FreshBatch THEN BatchReply(q.key, turn)
     ELSE IF q.fresh THEN ServeFresh(q.key, turn) ELSE SendFrame(q.key, turn)
Start == 3 * (turn - 1) + 1
Written == SubSeq(out, Start, Len(out))
OfBatch == sent[turn].fresh /\ sent[turn].key \in FreshBatch

(***************************************************************************)
(* What is written and what is to be written make the stimulus.  A batch   *)
(* is written only when its three queries are there, so that the queries   *)
(* still to come do not change what is due.                                *)
(***************************************************************************)
DueInv ==
  turn > 0 =>
    /\ pc = "write" => Written \o todo = Stimulus /\ (OfBatch => taken = turn + 2)
    /\ pc = "recv" => Written = Stimulus /\ ~OfBatch
    /\ pc = "stall" => sent[turn].key = "stall"
    /\ pc = "forward" => sent[turn].key \notin Silent \ {"reply"}
    /\ pc = "gather" => OfBatch
    /\ pc = "closed" /\ why = "" => Written = Stimulus

-----------------------------------------------------------------------------
(* Nothing has been written for a turn whose reply would begin now. *)
LEMMA NothingWritten ==
  ASSUME turn \in Nat, out \in Seq(Cell), Len(out) = 3 * (turn - 1)
  PROVE  Written = <<>>
<1>1. Start \in Int /\ Len(out) \in Int /\ Len(out) < Start
  BY DEF Start
<1> QED
  BY <1>1, SubSeqEmpty DEF Written

(***************************************************************************)
(* A turn that begins: the queries before it have been answered, and the   *)
(* query read is the one its stimulus is due to.                           *)
(***************************************************************************)
LEMMA TurnBegins ==
  ASSUME TInv, TInv', NEW q \in Kind, Take(q), UNCHANGED <<sent, out>>, pc' # "recv"
  PROVE  /\ turn' > 0 /\ turn' \in Nat /\ sent'[turn'] = q /\ q \in Query
         /\ Written' = <<>>
<1>1. /\ turn' = turn + 1 /\ turn' \in Nat /\ sent[turn'] = q
      /\ Len(out) = 3 * Over' /\ Over' = turn' - 1
  BY TakeStream
<1>2. turn' > 0
  BY <1>1 DEF TInv, TypeOK
<1>3. Written' = <<>>
  <2>1. Start' \in Int /\ Len(out') \in Int /\ Len(out') < Start'
    BY <1>1 DEF Start, TInv, TypeOK
  <2> QED
    BY <2>1, SubSeqEmpty DEF Written
<1> QED
  BY <1>1, <1>2, <1>3, KindAssumption

(* A session that closes without a failure, its query unanswered for good  *)
(* reason, or that closes with a failure.                                  *)
LEMMA CloseAtOnce ==
  ASSUME TInv, TInv', NEW q \in Kind, Take(q), NEW reason \in Reason, Close(reason),
         reason # "" \/ q.key \in Silent
  PROVE  DueInv'
<1>1. UNCHANGED <<sent, out>> /\ pc' = "closed" /\ why' = reason
  BY DEF Close, clientVars
<1>2. turn' > 0 /\ sent'[turn'] = q /\ Written' = <<>>
  BY <1>1, TurnBegins
<1>3. q.key \in Silent => Stimulus' = <<>>
  BY <1>2 DEF Stimulus
<1> QED
  BY <1>1, <1>2, <1>3 DEF DueInv

LEMMA InitDue == Init => DueInv
<1> SUFFICES ASSUME Init, turn > 0 PROVE FALSE
  BY DEF DueInv
<1>1. turn = 0
  BY Zenon DEF Init
<1> QED
  BY <1>1, SMT

(* The client's steps do not touch what is due: it may send more while the *)
(* handler writes, but a batch has its queries by then.                    *)
LEMMA ClientDue ==
  ASSUME TInv, DueInv, Client \/ UNCHANGED vars
  PROVE  DueInv'
<1>1. /\ UNCHANGED <<pc, turn, taken, todo, reuse, out, why>>
      /\ sent' = sent \/ (pc # "closed" /\ \E k \in Kind : sent' = Append(sent, k))
  BY DEF Client, Send, HalfClose, Reset, vars
<1>2. sent \in Seq(Query) /\ turn \in Nat /\ taken \in Nat /\ turn <= taken /\ taken <= Len(sent)
  BY DEF TInv, TypeOK, CountInv
<1>3. Len(sent) \in Nat /\ \A i \in 1 .. Len(sent) : sent'[i] = sent[i]
  BY <1>1, <1>2, KindAssumption
<1>4. turn > 0 => sent'[turn] = sent[turn] /\ OfBatch' = OfBatch
  BY <1>1, <1>2, <1>3 DEF OfBatch
<1>5. Written' = Written
  BY <1>1 DEF Written, Start
<1>6. turn > 0 /\ (OfBatch => taken = turn + 2) => Stimulus' = Stimulus
  <2> SUFFICES ASSUME turn > 0, OfBatch => taken = turn + 2 PROVE Stimulus' = Stimulus
    OBVIOUS
  <2>1. CASE OfBatch
    <3>1. turn \in 1 .. Len(sent) /\ turn + 1 \in 1 .. Len(sent) /\ turn + 2 \in 1 .. Len(sent)
      BY <1>2, <2>1
    <3>2. /\ sent'[turn] = sent[turn] /\ sent'[turn + 1] = sent[turn + 1]
          /\ sent'[turn + 2] = sent[turn + 2] /\ turn' = turn
      BY <1>1, <1>3, <3>1
    <3>3. \A key : BatchReply(key, turn)' = BatchReply(key, turn)
      BY <3>2 DEF BatchReply, BatchFrame
    <3> QED
      BY <3>2, <3>3 DEF Stimulus
  <2>2. CASE ~OfBatch
    BY <1>1, <1>4, <2>2 DEF Stimulus, OfBatch
  <2> QED
    BY <2>1, <2>2
<1>7. CASE pc = "closed"
  <2>1. sent' = sent
    BY <1>1, <1>7
  <2>2. Stimulus' = Stimulus
    BY <1>1, <2>1 DEF Stimulus, BatchReply, BatchFrame
  <2> QED
    BY <1>1, <1>5, <1>7, <2>2 DEF DueInv
<1>8. CASE pc # "closed"
  <2>1. turn > 0 /\ pc \in {"write", "recv"} => Stimulus' = Stimulus
    BY <1>6 DEF DueInv
  <2> QED
    BY <1>1, <1>4, <1>5, <1>8, <2>1 DEF DueInv
<1> QED
  BY <1>7, <1>8

-----------------------------------------------------------------------------
(* The handler closes where it stands: nothing is written for a stall, and *)
(* between two turns everything has been.                                  *)
LEMMA CloseDue ==
  ASSUME TInv, DueInv, NEW reason \in Reason, Close(reason), UNCHANGED <<turn, taken>>,
         reason # "" \/ pc \in {"recv", "stall"}
  PROVE  DueInv'
<1>1. pc' = "closed" /\ why' = reason /\ UNCHANGED <<sent, out, turn>>
  BY DEF Close, clientVars
<1>2. Stimulus' = Stimulus /\ Written' = Written
  BY <1>1 DEF Stimulus, BatchReply, BatchFrame, Written, Start
<1>3. turn > 0 /\ pc = "stall" => Written = <<>> /\ Stimulus = <<>>
  <2> SUFFICES ASSUME turn > 0, pc = "stall" PROVE Written = <<>> /\ Stimulus = <<>>
    OBVIOUS
  <2>1. turn \in Nat /\ out \in Seq(Cell) /\ Len(out) = 3 * (turn - 1)
    BY DEF TInv, TypeOK, RestInv, Over
  <2> QED
    BY <2>1, NothingWritten DEF DueInv, Stimulus, Silent
<1> QED
  BY <1>1, <1>2, <1>3 DEF DueInv

(* A query is read that is to be stalled, forwarded or begins a batch.     *)
LEMMA TakenDue ==
  ASSUME TInv, TInv', NEW q \in Kind, Take(q),
         \/ q.key = "stall" /\ GoTo("stall")
         \/ q.key \notin Silent \ {"reply"} /\ GoTo("forward")
         \/ q.fresh /\ q.key \in FreshBatch /\ GoTo("gather")
  PROVE  DueInv'
<1>1. UNCHANGED <<sent, out>> /\ pc' \in {"stall", "forward", "gather"}
  BY DEF GoTo, clientVars
<1>2. turn' > 0 /\ sent'[turn'] = q
  BY <1>1, TurnBegins
<1> QED
  BY <1>1, <1>2 DEF DueInv, GoTo, OfBatch

(* A fresh query is read and its reply begins. *)
LEMMA FreshDue == ASSUME TInv, TInv', RecvFresh PROVE DueInv'
<1>1. PICK q \in Kind :
        /\ Take(q) /\ q.fresh /\ q.key \notin FreshBatch \cup {"close-before", "reply", "stall"}
        /\ Reply(ServeFresh(q.key, taken + 1), q.key \in FreshReusing)
  BY DEF RecvFresh
<1>2. /\ pc' = "write" /\ todo' = ServeFresh(q.key, taken + 1) /\ UNCHANGED <<sent, out>>
      /\ todo' \in Seq(Cell)
  BY <1>1 DEF Reply, clientVars, TInv, TypeOK
<1>3. /\ turn' > 0 /\ sent'[turn'] = q /\ q \in Query /\ Written' = <<>>
      /\ turn' = taken + 1
  <2>1. turn' = turn + 1 /\ taken = turn
    BY <1>1 DEF Take, TInv, CountInv
  <2> QED
    BY <1>1, <1>2, <2>1, TurnBegins
<1>4. q.key \notin Silent
  BY <1>1, <1>3 DEF Query, Silent, FreshReusing, FreshBatch, FreshFault
<1>5. Stimulus' = todo' /\ ~OfBatch'
  BY <1>1, <1>2, <1>3, <1>4 DEF Stimulus, OfBatch
<1>6. Written' \o todo' = todo'
  BY <1>2, <1>3, ConcatEmptySeq
<1> QED
  BY <1>2, <1>5, <1>6 DEF DueInv

(* BIND's answer begins to be sent. *)
LEMMA ForwardDue == ASSUME TInv, TInv', DueInv, ForwardAnswered PROVE DueInv'
<1>1. /\ pc = "forward" /\ pc' = "write" /\ todo' = SendFrame(sent[taken].key, taken)
      /\ UNCHANGED <<sent, out, turn, taken>> /\ todo' \in Seq(Cell)
  BY DEF ForwardAnswered, Reply, clientVars, TInv, TypeOK
<1>2. /\ taken = turn /\ turn \in Nat /\ turn > 0 /\ ~sent[turn].fresh
      /\ Len(out) = 3 * (turn - 1) /\ out \in Seq(Cell)
  BY <1>1 DEF TInv, TypeOK, CountInv, RestInv, Over
<1>3. sent[turn].key \notin Silent
  BY <1>1, <1>2 DEF DueInv, ForwardAnswered
<1>4. Written = <<>> /\ Written' = Written
  BY <1>1, <1>2, NothingWritten DEF Written, Start
<1>5. Stimulus' = todo' /\ ~OfBatch'
  BY <1>1, <1>2, <1>3 DEF Stimulus, OfBatch
<1>6. Written' \o todo' = todo'
  BY <1>1, <1>4, ConcatEmptySeq
<1> QED
  BY <1>1, <1>5, <1>6 DEF DueInv

(* A batch reads on, and begins its replies when it has three queries.     *)
LEMMA GatherDue == ASSUME TInv, TInv', DueInv, GatherNext PROVE DueInv'
<1>1. /\ pc = "gather" /\ taken' = taken + 1 /\ UNCHANGED <<turn, sent, out>>
      /\ IF taken + 1 < turn + 2
           THEN pc' = "gather"
           ELSE pc' = "write" /\ todo' = BatchReply(sent[turn].key, turn)
  BY DEF GatherNext, GoTo, Reply, clientVars
<1>2. /\ turn \in Nat /\ turn > 0 /\ taken \in Nat /\ taken < turn + 2
      /\ Len(out) = 3 * (turn - 1) /\ out \in Seq(Cell) /\ OfBatch
  BY <1>1 DEF TInv, TypeOK, CountInv, RestInv, Over, DueInv
<1>3. OfBatch'
  BY <1>1, <1>2 DEF OfBatch
<1>4. CASE pc' = "write"
  <2>1. todo' = BatchReply(sent[turn].key, turn) /\ taken' = turn + 2 /\ todo' \in Seq(Cell)
    BY <1>1, <1>2, <1>4 DEF TInv, TypeOK
  <2>2. Written' = <<>>
    BY <1>1, <1>2, NothingWritten DEF Written, Start
  <2>3. sent[turn].key \notin Silent
    BY <1>2 DEF OfBatch, FreshBatch, Silent
  <2>4. Stimulus' = todo'
    BY <1>1, <1>2, <2>1, <2>3 DEF Stimulus, OfBatch, BatchReply, BatchFrame
  <2>5. Written' \o todo' = todo'
    BY <2>1, <2>2, ConcatEmptySeq
  <2> QED
    BY <1>1, <1>4, <2>1, <2>4, <2>5 DEF DueInv
<1>5. CASE pc' # "write"
  BY <1>1, <1>3, <1>5 DEF DueInv
<1> QED
  BY <1>4, <1>5

(* A cell moves from what is to be written to what is written. *)
LEMMA WriteDue == ASSUME TInv, TInv', DueInv, Write PROVE DueInv'
<1>1. /\ pc = "write" /\ out' = Append(out, Head(todo)) /\ todo' = Tail(todo)
      /\ pc' = IF Len(todo) > 1 THEN "write" ELSE IF reuse THEN "recv" ELSE "closed"
      /\ UNCHANGED <<sent, turn, taken>>
  BY DEF Write, clientVars
<1>2. /\ turn \in Nat /\ turn > 0 /\ Over = turn - 1 /\ out \in Seq(Cell) /\ reuse \in BOOLEAN
      /\ todo \in Seq(Cell) /\ Len(todo) > 0 /\ Len(out) >= 3 * (turn - 1)
  BY <1>1 DEF TInv, TypeOK, CountInv, TodoInv, Belongs, Over, RepliesInOrder
<1>3. todo # <<>> /\ Start \in 1 .. Len(out) + 1 /\ Start' = Start
  BY <1>1, <1>2 DEF Start
<1>4. Head(todo) \in Cell /\ Len(out') = Len(out) + 1 /\ todo' \in Seq(Cell) /\ Len(todo') = Len(todo) - 1
  BY <1>1, <1>2
<1>5. Written' \o todo' = Written \o todo
  <2>1. SubSeq(Append(out, Head(todo)), Start, Len(out) + 1) \o Tail(todo) = SubSeq(out, Start, Len(out)) \o todo
    BY <1>2, <1>3, MoveOne
  <2> QED
    BY <1>1, <1>3, <1>4, <2>1 DEF Written
<1>6. Written' \o todo' = Stimulus /\ Stimulus' = Stimulus /\ OfBatch' = OfBatch /\ (OfBatch => taken = turn + 2)
  BY <1>1, <1>2, <1>5 DEF DueInv, Stimulus, OfBatch, BatchReply, BatchFrame
<1>7. Len(todo) <= 1 => Written' \o todo' = Written'
  <2> SUFFICES ASSUME Len(todo) <= 1 PROVE Written' \o todo' = Written'
    OBVIOUS
  <2>1. todo' = <<>>
    BY <1>2, <1>4, EmptySeq
  <2>2. Written' \in Seq(Cell)
    <3>1. /\ SubSeq(out, Start, Len(out)) \in Seq(Cell)
          /\ SubSeq(Append(out, Head(todo)), Start, Len(out) + 1) = SubSeq(out, Start, Len(out)) \o <<Head(todo)>>
      BY <1>2, <1>3, <1>4, EndAppended
    <3> QED
      BY <1>1, <1>3, <1>4, <3>1 DEF Written
  <2> QED
    BY <2>1, <2>2, ConcatEmptySeq
<1>8. reuse => taken = turn
  BY <1>1 DEF TInv, TodoInv
<1>9. pc' = "recv" => ~OfBatch'
  BY <1>1, <1>2, <1>6, <1>8
<1>10. pc' # "write" => Written' = Stimulus'
  <2>1. pc' # "write" => ~(Len(todo) > 1)
    BY <1>1, Zenon
  <2>2. Len(todo) \in Nat
    BY <1>2
  <2>3. pc' # "write" => Len(todo) <= 1
    BY <2>1, <2>2, SMT
  <2> QED
    BY <1>6, <1>7, <2>3, Zenon
<1>11. pc' \in {"write", "recv", "closed"} /\ taken' = taken /\ turn' = turn
  BY <1>1
<1> HIDE DEF Written, Stimulus, OfBatch
<1> QED
  BY <1>6, <1>9, <1>10, <1>11, Zenon DEF DueInv

-----------------------------------------------------------------------------
LEMMA NextDue == ASSUME TInv, TInv', DueInv, [Next]_vars PROVE DueInv'
<1>1. CASE Client \/ UNCHANGED vars
  BY <1>1, ClientDue
<1>2. CASE LoopDone \/ StallEnds
  BY <1>2, CloseDue DEF LoopDone, StallEnds, Reason
<1>3. ReadFails => \E reason \in Reason \ {""} : Close(reason)
  BY DEF ReadFails, Reason
<1>4. CASE RecvFails \/ GatherFails
  BY <1>3, <1>4, CloseDue DEF RecvFails, GatherFails
<1>5. CASE ForwardFails \/ WriteFails
  BY <1>5, CloseDue DEF ForwardFails, WriteFails, Reason
<1>6. CASE RecvMalformed
  <2>1. PICK q \in Kind : Take(q) /\ Close("format")
    BY <1>6 DEF RecvMalformed
  <2> QED
    BY <2>1, CloseAtOnce DEF Reason
<1>6a. CASE RecvCloseBefore
  <2>1. PICK q \in Kind :
          /\ Take(q) /\ Close("")
          /\ q.key \in (IF q.fresh THEN {"close-before", "reply"} ELSE {"close-before-response"})
    BY <1>6a DEF RecvCloseBefore
  <2>2. q.key \in Silent
    BY <2>1 DEF Silent
  <2> QED
    BY <2>1, <2>2, CloseAtOnce DEF Reason
<1>7. CASE RecvStall \/ RecvBatch
  BY <1>7, TakenDue DEF RecvStall, RecvBatch
<1>8. CASE RecvForward
  <2>1. PICK q \in Kind :
          /\ Take(q) /\ ~q.fresh /\ GoTo("forward")
          /\ q.key \notin {"short", "malformed", "close-before-response", "stall"}
    BY <1>8 DEF RecvForward
  <2>2. q.key \notin Silent \ {"reply"}
    BY <2>1, KindAssumption DEF Query, Silent, LegacyWhole, LegacySplit, LegacyFault
  <2> QED
    BY <2>1, <2>2, TakenDue
<1>9. CASE GatherShort
  BY <1>9 DEF GatherShort, Close, DueInv
<1> QED
  BY <1>1, <1>2, <1>4, <1>5, <1>6, <1>6a, <1>7, <1>8, <1>9, FreshDue, ForwardDue, GatherDue, WriteDue DEF Next, Handle

(***************************************************************************)
(* A session that ends without a failure has sent its last query exactly   *)
(* what the scenario puts on the wire (send_frame, serve_fresh_tcp).       *)
(***************************************************************************)
THEOREM StimulusWhole == Spec => []CleanEnd
<1>1. TInv /\ DueInv => CleanEnd
  <2> SUFFICES ASSUME TInv, DueInv PROVE CleanEnd
    OBVIOUS
  <2>1. turn + 0 = turn
    BY DEF TInv, TypeOK
  <2>2. ASSUME NEW key
        PROVE  LET place == BatchOrder(key)
               IN BatchFrame(turn + place[1]) \o BatchFrame(turn + place[2]) \o BatchFrame(turn + place[3])
                    = BatchReply(key, turn)
    <3>1. CASE key = "reordered"
      <4>1. BatchOrder(key)[1] = 2 /\ BatchOrder(key)[2] = 1 /\ BatchOrder(key)[3] = 0
        BY <3>1 DEF BatchOrder
      <4> QED
        BY <2>1, <3>1, <4>1, Zenon DEF BatchReply
    <3>2. CASE key # "reordered"
      <4>1. BatchOrder(key)[1] = 0 /\ BatchOrder(key)[2] = 1 /\ BatchOrder(key)[3] = 2
        BY <3>2 DEF BatchOrder
      <4> QED
        BY <2>1, <3>2, <4>1, Zenon DEF BatchReply
    <3> QED
      BY <3>1, <3>2
  <2> QED
    BY <2>2 DEF DueInv, CleanEnd, Written, Start, Stimulus, Silent
<1>2. Spec => []DueInv
  BY InitDue, NextDue, StreamInvariance, PTL DEF Spec
<1> QED
  BY <1>1, <1>2, StreamInvariance, PTL

=============================================================================
