------------------------------ MODULE ProbeLab ------------------------------
(***************************************************************************)
(* One run of scripts/tcp-probe.py against the fault proxy, byte by byte   *)
(* and on a clock: the probe frames its query and sends it in parts, the   *)
(* proxy reads it, has BIND answer it and sends the reply as send_frame    *)
(* cuts it, and the probe records what it reads until EOF or its timeout   *)
(* and judges it (evaluate).  A row is a line of the smoke test's table.   *)
(*                                                                         *)
(* Time is counted in hundredths of a second and jumps to the next timer   *)
(* once nobody has anything to do: a process is quicker than any of the    *)
(* delays it was configured with.                                          *)
(***************************************************************************)
EXTENDS Integers, Sequences, FiniteSetsExt, SequencesExt

CONSTANTS
  Row,          \* table rows, each with the configuration it is run against
  PayloadSize,  \* lengths BIND's answer may have
  QuerySize,    \* the length of the probe's query
  Latency,      \* how long BIND may take
  StallTime,    \* STALL_SECONDS
  RequestDelay  \* --request-delay-ms

Scenario == {"normal", "force-tcp", "split-prefix", "split-body", "bytewise", "delayed",
             "close-before-response", "close-after-prefix", "close-mid-body",
             "length-mismatch", "stall", "duplicate-response", "trailing-bytes"}
Expectation == {"normal", "split-prefix", "split-body", "bytewise", "delayed",
                "eof-before-response", "eof-after-prefix", "eof-mid-body",
                "length-mismatch", "stall", "duplicate-response", "trailing-bytes"}
Pattern == {"whole", "split-prefix", "split-body", "bytewise"}

ASSUME RowAssumption ==
  \* timeout is the probe's; io is IO_TIMEOUT_SECONDS, chunk CHUNK_DELAY_MS
  Row \subseteq [scenario : Scenario, expect : Expectation, pattern : Pattern,
                 timeout : Nat, io : Nat, chunk : Nat]
ASSUME SizeAssumption ==
  \A n \in PayloadSize \cup {QuerySize} : n \in Nat /\ 12 <= n /\ n <= 65535

ASSUME DelayAssumption ==
  Latency \subseteq Nat /\ StallTime \in Nat /\ RequestDelay \in Nat

VARIABLES
  row, size,   \* the row being run, and the length of BIND's answer
  now,         \* the time since the probe started
  toServer, toProbe, \* bytes in flight
  closed,      \* the proxy has closed the connection
  spc, stimer, \* the handler: where it is, and when its wait ends
  request,     \* what it has read of the query's frame
  parts,       \* what send_frame has still to write
  ppc, ptimer, \* the probe: where it is, and when its wait ends
  requestParts,\* what it has still to send
  received,    \* every byte it has read
  reads,       \* in how many pieces
  verdict      \* "pending", "ok" or "failed"

serverVars == <<spc, stimer, request, parts, closed>>
probeVars == <<ppc, ptimer, requestParts, received, reads, verdict>>
vars == <<row, size, now, toServer, toProbe, serverVars, probeVars>>

-----------------------------------------------------------------------------
(* Frames. *)

Prefix(n) == <<n \div 256, n % 256>>
Declared(bytes) == 256 * bytes[1] + bytes[2]
First(s, n) == SubSeq(s, 1, n)
From(s, i) == SubSeq(s, i, Len(s))

(* Mutant: a last, shorter slice is forgotten. *)
SlicesWhole(s, n) == [k \in 1 .. Len(s) \div n |-> SubSeq(s, n * (k - 1) + 1, n * k)]

Slices(s, n) ==
  [k \in 1 .. (Len(s) + n - 1) \div n |->
     SubSeq(s, n * (k - 1) + 1, IF n * k < Len(s) THEN n * k ELSE Len(s))]

Bytes(n) == [i \in 1 .. n |-> i % 251]
Trailing == <<68, 78, 83, 76, 65, 66, 45, 84, 82, 65, 73, 76, 73, 78, 71>>

(* Mutant: a close in the middle of the body comes after all of it. *)
FramePartsLate(scenario, payload) ==
  LET prefix == Prefix(Len(payload))
      frame == prefix \o payload
  IN CASE scenario = "split-prefix" -> <<First(prefix, 1), From(prefix, 2), payload>>
       [] scenario = "split-body" -> <<prefix>> \o Slices(payload, 64)
       [] scenario = "bytewise" -> Slices(frame, 1)
       [] scenario = "delayed" -> <<prefix>> \o Slices(payload, 256)
       [] scenario = "close-after-prefix" -> <<prefix>>
       [] scenario = "close-mid-body" -> <<prefix, payload>>
       [] OTHER -> <<frame>>

(* send_frame: the pieces each scenario writes, with a pause between two. *)
FrameParts(scenario, payload) ==
  LET prefix == Prefix(Len(payload))
      frame == prefix \o payload
      half == First(payload, Len(payload) \div 2)
      longer == IF Len(payload) + 16 > 65535 THEN 65535 ELSE Len(payload) + 16
  IN CASE scenario \in {"normal", "force-tcp"} -> <<frame>>
       [] scenario = "split-prefix" -> <<First(prefix, 1), From(prefix, 2), payload>>
       [] scenario = "split-body" -> <<prefix>> \o Slices(payload, 64)
       [] scenario = "bytewise" -> Slices(frame, 1)
       [] scenario = "delayed" -> <<prefix>> \o Slices(payload, 256)
       [] scenario = "close-after-prefix" -> <<prefix>>
       [] scenario = "close-mid-body" -> <<prefix, half>>
       [] scenario = "length-mismatch" -> <<Prefix(longer), half>>
       [] scenario = "duplicate-response" -> <<frame, frame>>
       [] scenario = "trailing-bytes" -> <<frame, Trailing>>
       [] OTHER -> <<>>

(* request_parts: how the probe cuts its own frame. *)
RequestParts(frame, pattern) ==
  LET body == Len(frame) - 2
      mid == 2 + (IF body \div 2 > 1 THEN body \div 2 ELSE 1)
  IN CASE pattern = "whole" -> <<frame>>
       [] pattern = "split-prefix" ->
            <<First(frame, 1), SubSeq(frame, 2, 2), From(frame, 3)>>
       [] pattern = "split-body" ->
            <<First(frame, 2), SubSeq(frame, 3, mid), From(frame, mid + 1)>>
       [] pattern = "bytewise" -> Slices(frame, 1)

(* parse_frames: the sizes of the complete frames, what is left over, and  *)
(* the length an incomplete frame declared (none when fewer than two bytes *)
(* are left).                                                              *)
ParseFrames(data) ==
  LET parse[o \in 0 .. Len(data)] ==
        IF o + 2 > Len(data)
        THEN [frames |-> <<>>, trailing |-> From(data, o + 1), incomplete |-> FALSE]
        ELSE LET n == Declared(SubSeq(data, o + 1, o + 2))
             IN IF n = 0 \/ o + 2 + n > Len(data)
                THEN [frames |-> <<>>, trailing |-> From(data, o + 1), incomplete |-> TRUE]
                ELSE [parse[o + 2 + n] EXCEPT !.frames = <<n>> \o @]
  IN parse[0]

(* evaluate: does the observation show what the row expects? *)
Meets(expect, data, pieces, timedOut, elapsed) ==
  LET seen == ParseFrames(data)
      frames == Len(seen.frames)
      left == Len(seen.trailing)
  IN /\ ~timedOut
     /\ CASE expect = "normal" -> frames = 1 /\ left = 0
          [] expect \in {"split-prefix", "split-body", "delayed"} ->
               frames = 1 /\ left = 0 /\ pieces >= 2
          [] expect = "bytewise" -> frames = 1 /\ left = 0 /\ pieces >= 3
          [] expect = "eof-before-response" -> frames = 0 /\ left = 0
          [] expect = "eof-after-prefix" -> frames = 0 /\ left = 2
          [] expect \in {"eof-mid-body", "length-mismatch"} ->
               frames = 0 /\ left > 2 /\ seen.incomplete
          [] expect = "stall" ->
               /\ frames = 0 /\ left = 0
               /\ 10 * elapsed >= 9 * StallTime
               /\ 2 * elapsed <= 3 * StallTime + 100
          [] expect = "duplicate-response" -> frames = 2 /\ left = 0
          [] expect = "trailing-bytes" -> frames = 1 /\ left > 0

-----------------------------------------------------------------------------
RequestFrame == Prefix(QuerySize) \o Bytes(QuerySize)

Init ==
  /\ row \in Row /\ size \in PayloadSize
  /\ now = 0 /\ toServer = <<>> /\ toProbe = <<>> /\ closed = FALSE
  /\ spc = "read" /\ stimer = row.io /\ request = <<>> /\ parts = <<>>
  /\ ppc = "send" /\ ptimer = 0 /\ received = <<>> /\ reads = 0 /\ verdict = "pending"
  /\ requestParts = RequestParts(RequestFrame, row.pattern)

(* Time passes when both wait: until the first of their timers is due. *)
ServerWaits ==
  \/ spc = "closed"
  \/ spc \in {"forward", "pause", "stall"} /\ now < stimer
  \/ spc = "read" /\ toServer = <<>> /\ now < stimer
ProbeWaits ==
  \/ ppc = "sendPause" /\ now < ptimer
  \/ ppc = "recv" /\ toProbe = <<>> /\ ~closed /\ now < ptimer

Elapse ==
  /\ ServerWaits /\ ProbeWaits
  /\ now' = Min({ptimer} \cup (IF spc = "closed" THEN {} ELSE {stimer}))
  /\ UNCHANGED <<row, size, toServer, toProbe, serverVars, probeVars>>

-----------------------------------------------------------------------------
(* The proxy's handler. *)

Missing == IF Len(request) < 2 THEN 2 - Len(request)
                               ELSE 2 + Declared(request) - Len(request)

ServerClose ==
  /\ spc' = "closed" /\ closed' = TRUE
  /\ UNCHANGED <<stimer, parts, toProbe>>

(* What a complete query leads to. *)
Dispatch ==
  \/ /\ row.scenario = "close-before-response"
     /\ ServerClose
  \/ /\ row.scenario = "stall"
     /\ spc' = "stall" /\ stimer' = now + StallTime
     /\ UNCHANGED <<parts, toProbe, closed>>
  \/ /\ row.scenario \notin {"close-before-response", "stall"}
     /\ spc' = "forward" /\ \E d \in Latency : stimer' = now + d
     /\ UNCHANGED <<parts, toProbe, closed>>

(* recv_exact: a recv of at most what is missing of the prefix or the body.*)
ServerRead ==
  /\ spc = "read" /\ toServer # <<>>
  /\ LET n == IF Missing < Len(toServer) THEN Missing ELSE Len(toServer)
     IN /\ request' = request \o First(toServer, n)
        /\ toServer' = From(toServer, n + 1)
        /\ IF Len(request) >= 2 /\ n = Missing
           THEN Dispatch
           ELSE stimer' = now + row.io /\ UNCHANGED <<spc, parts, toProbe, closed>>
  /\ UNCHANGED <<row, size, now, probeVars>>

ServerReadTimesOut ==
  /\ spc = "read" /\ toServer = <<>> /\ now >= stimer
  /\ ServerClose
  /\ UNCHANGED <<row, size, now, toServer, request, probeVars>>

StallEnds ==
  /\ spc = "stall" /\ now >= stimer
  /\ ServerClose
  /\ UNCHANGED <<row, size, now, toServer, request, probeVars>>

Answered ==
  /\ spc = "forward" /\ now >= stimer
  /\ spc' = "write" /\ parts' = FrameParts(row.scenario, Bytes(size))
  /\ UNCHANGED <<row, size, now, toServer, toProbe, stimer, request, closed, probeVars>>

(* _write_parts: a part, then a pause unless it was the last.  After the   *)
(* last, only an unbroken reply leaves the connection open for a query.    *)
ServerWrite ==
  /\ spc = "write"
  /\ toProbe' = toProbe \o Head(parts)
  /\ parts' = Tail(parts)
  /\ \/ /\ Len(parts) > 1
        /\ spc' = IF row.chunk > 0 THEN "pause" ELSE "write"
        /\ stimer' = now + row.chunk
        /\ UNCHANGED <<request, closed>>
     \/ /\ Len(parts) = 1 /\ row.scenario \in {"normal", "force-tcp"}
        /\ spc' = "read" /\ stimer' = now + row.io /\ request' = <<>>
        /\ UNCHANGED closed
     \/ /\ Len(parts) = 1 /\ row.scenario \notin {"normal", "force-tcp"}
        /\ spc' = "closed" /\ closed' = TRUE
        /\ UNCHANGED <<stimer, request>>
  /\ UNCHANGED <<row, size, now, toServer, probeVars>>

PauseEnds ==
  /\ spc = "pause" /\ now >= stimer
  /\ spc' = "write"
  /\ UNCHANGED <<row, size, now, toServer, toProbe, stimer, request, parts, closed, probeVars>>

-----------------------------------------------------------------------------
(* The probe: observe, then evaluate. *)

ProbeSend ==
  /\ ppc = "send"
  /\ toServer' = toServer \o Head(requestParts)
  /\ requestParts' = Tail(requestParts)
  /\ \/ /\ Len(requestParts) > 1
        /\ ppc' = IF RequestDelay > 0 THEN "sendPause" ELSE "send"
        /\ ptimer' = now + RequestDelay
     \/ /\ Len(requestParts) = 1
        /\ ppc' = "recv" /\ ptimer' = now + row.timeout
  /\ UNCHANGED <<row, size, now, toProbe, serverVars, received, reads, verdict>>

SendPauseEnds ==
  /\ ppc = "sendPause" /\ now >= ptimer
  /\ ppc' = "send"
  /\ UNCHANGED <<row, size, now, toServer, toProbe, serverVars,
                 ptimer, requestParts, received, reads, verdict>>

(* recv(4096): the timeout counts anew for each. *)
ProbeRecv ==
  /\ ppc = "recv" /\ toProbe # <<>>
  /\ LET n == IF Len(toProbe) > 4096 THEN 4096 ELSE Len(toProbe)
     IN /\ received' = received \o First(toProbe, n)
        /\ toProbe' = From(toProbe, n + 1)
  /\ reads' = reads + 1
  /\ ptimer' = now + row.timeout
  /\ UNCHANGED <<row, size, now, toServer, serverVars, ppc, requestParts, verdict>>

(* EOF or the timeout ends the observation; then it is judged. *)
Judge(timedOut) ==
  /\ ppc' = "done"
  /\ verdict' = IF Meets(row.expect, received, reads, timedOut, now) THEN "ok" ELSE "failed"
  /\ UNCHANGED <<row, size, now, toServer, toProbe, serverVars,
                 ptimer, requestParts, received, reads>>

ProbeEof == ppc = "recv" /\ toProbe = <<>> /\ closed /\ Judge(FALSE)

ProbeTimesOut == ppc = "recv" /\ toProbe = <<>> /\ ~closed /\ now >= ptimer /\ Judge(TRUE)

-----------------------------------------------------------------------------
ServerStep ==
  \/ ServerRead \/ ServerReadTimesOut \/ StallEnds \/ Answered \/ ServerWrite \/ PauseEnds
ProbeStep == ProbeSend \/ SendPauseEnds \/ ProbeRecv \/ ProbeEof \/ ProbeTimesOut

Next == ServerStep \/ ProbeStep \/ Elapse

Spec == Init /\ [][Next]_vars

-----------------------------------------------------------------------------
ByteSeq == Seq(0 .. 255)

TypeOK ==
  /\ row \in Row /\ size \in PayloadSize /\ now \in Nat
  /\ toServer \in ByteSeq /\ toProbe \in ByteSeq /\ closed \in BOOLEAN
  /\ spc \in {"read", "stall", "forward", "write", "pause", "closed"} /\ stimer \in Nat
  /\ request \in ByteSeq /\ parts \in Seq(ByteSeq)
  /\ ppc \in {"send", "sendPause", "recv", "done"} /\ ptimer \in Nat
  /\ requestParts \in Seq(ByteSeq) /\ received \in ByteSeq /\ reads \in Nat
  /\ verdict \in {"pending", "ok", "failed"}

(* The smoke test's table: every row is met, whatever BIND answers.        *)
SmokeTest == verdict # "failed"

(* The smoke test's rows say what the proxy does: for every length of the  *)
(* answer and every delay of BIND the probe is satisfied, so the framing,  *)
(* the cuts, the pauses and the closes of send_frame are seen as evaluate  *)
(* expects them and within the row's timeout.  Two cases excepted: with    *)
(* CHUNK_DELAY_MS=0 the parts of a split reply may be read as one, and a   *)
(* connection that is kept may outlive the probe's patience.               *)
(* (Checked with the type of the state.)                                   *)
RowsMet ==
  /\ TypeOK
  /\ verdict = "failed" =>
       \/ row.chunk = 0 /\ row.expect \in {"split-prefix", "split-body", "bytewise", "delayed"}
       \/ row.expect = "normal" /\ row.io >= row.timeout

(* Tables that can be met: each row expects what its scenario is for, no   *)
(* delay is as long as the timeout it is waited for with, and what stalls  *)
(* is timed from a query sent whole.                                       *)
ExpectationOf(scenario) ==
  CASE scenario \in {"normal", "force-tcp"} -> "normal"
    [] scenario = "close-before-response" -> "eof-before-response"
    [] scenario = "close-after-prefix" -> "eof-after-prefix"
    [] scenario = "close-mid-body" -> "eof-mid-body"
    [] OTHER -> scenario
RowFits(r) ==
  /\ r.expect = ExpectationOf(r.scenario)
  /\ RequestDelay < r.io
  /\ r.chunk < r.timeout /\ \A d \in Latency : d < r.timeout
  /\ r.scenario = "stall" => r.pattern = "whole" /\ StallTime < r.timeout
TableFits == \A r \in Row : RowFits(r)

(* What each scenario puts on the wire, however it is cut. *)
OnTheWire(scenario, n) ==
  LET frame == Prefix(n) \o Bytes(n)
  IN CASE scenario \in {"close-before-response", "stall"} -> <<>>
       [] scenario = "close-after-prefix" -> First(frame, 2)
       [] scenario = "close-mid-body" -> First(frame, 2 + n \div 2)
       [] scenario = "length-mismatch" -> Prefix(IF n + 16 > 65535 THEN 65535 ELSE n + 16) \o Bytes(n \div 2)
       [] scenario = "duplicate-response" -> frame \o frame
       [] scenario = "trailing-bytes" -> frame \o Trailing
       [] OTHER -> frame

(* Whatever the pauses and however the kernel joins the parts, what the    *)
(* probe has read and what is on its way to it are the first octets of its *)
(* scenario and no others, each once and in order, and all of them once    *)
(* the query has been read and the handler writes no more; also when a row *)
(* is failed for the number of its pieces or for the time.                 *)
ReplyIntact ==
  LET onItsWay == received \o toProbe
      whole == OnTheWire(row.scenario, size)
  IN /\ IsPrefix(onItsWay, whole)
     /\ spc \in {"read", "closed"} /\ toServer = <<>> /\ requestParts = <<>> => onItsWay = whole

=============================================================================
