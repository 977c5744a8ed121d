----------------------------- MODULE MCProbeLab -----------------------------
(***************************************************************************)
(* Instances of ProbeLab: the table of scripts/smoke-test.sh, with the     *)
(* default delays of compose.yaml in hundredths of a second.  The answers' *)
(* lengths lie around the program's chunk sizes and the radix of a prefix. *)
(***************************************************************************)
EXTENDS ProbeLab

Line(s, e, io, chunk) ==
  [scenario |-> s, expect |-> e, pattern |-> "whole", timeout |-> 400, io |-> io, chunk |-> chunk]

(* The table without its first line, at the default delays; the rows whose *)
(* reply is written in parts also without a pause between them.            *)
Split == {"split-prefix", "split-body", "bytewise", "delayed"}
FaultRows ==
  {Line(s, s, 500, 5) : s \in Split \cup {"length-mismatch", "duplicate-response",
                                         "trailing-bytes", "stall"}}
  \cup {Line(s, s, 500, 0) : s \in Split \cup {"duplicate-response"}}
  \cup {Line("close-before-response", "eof-before-response", 500, 5),
        Line("close-after-prefix", "eof-after-prefix", 500, 5),
        Line("close-mid-body", "eof-mid-body", 500, 5)}

(* Its first line, and the loop over request patterns before it: at the    *)
(* default delays and with IO_TIMEOUT_SECONDS=3.                           *)
NormalRow == {Line("normal", "normal", 500, 5)}
NormalRows == {[Line("normal", "normal", io, 5) EXCEPT !.pattern = p] :
                 io \in {300, 500}, p \in Pattern}
AllRows == FaultRows \cup NormalRows

MCSizes == {12, 63, 64, 65, 128, 255, 256, 257}

(* The rows are such as TableMet is about. *)
ASSUME MCTableFits == TableFits

(* The rows whose frames are worth looking at at the largest length: only  *)
(* they are run with the answers of MCLimits.                              *)
LimitRows == {r \in FaultRows :
                r.scenario \in {"length-mismatch", "close-mid-body", "duplicate-response"}}
MCLimits == {65519, 65520, 65535}
AllSizes == MCSizes \cup MCLimits

(* Without pauses, octet by octet, a short answer has all the interleavings*)
(* there are.                                                              *)
MCInit ==
  /\ Init
  /\ size \in MCLimits => row \in LimitRows
  /\ row.scenario = "bytewise" /\ row.chunk = 0 => size = 12
MCSpec == MCInit /\ [][Next]_vars
=============================================================================
