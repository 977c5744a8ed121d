------------------------------ MODULE Framing ------------------------------
(***************************************************************************)
(* The two readers of length-prefixed messages: recv_frame, which takes    *)
(* the next query of a session and BIND's reply, and _next, which takes    *)
(* the rest of a batch from the same connection.  The stream has no        *)
(* boundaries: its octets arrive in any pieces, at any pace, and may stop  *)
(* anywhere.  TcpSession speaks of whole messages; this module shows that  *)
(* it may.                                                                 *)
(*                                                                         *)
(* An octet is a digit to the base Radix (256 in the code).                *)
(***************************************************************************)
EXTENDS Integers, Sequences

CONSTANTS
  Radix,      \* the number of values of an octet
  Message,    \* the messages the peer may send
  HeaderSize, \* the 12 octets _next asks for at least
  IoTimeout,  \* settimeout: how long one recv may wait
  MaxSent     \* bound of the model: how many messages the peer sends

Octet == 0 .. Radix - 1

ASSUME MessageAssumption ==
  /\ Radix \in Nat \ {0, 1}
  /\ \A m \in Message : m \in Seq(Octet) /\ Len(m) < Radix * Radix
ASSUME LimitAssumption == HeaderSize \in Nat \ {0} /\ IoTimeout \in Nat /\ MaxSent \in Nat

VARIABLES
  sent,    \* the messages the peer has begun to send
  unsent,  \* octets of theirs still to arrive
  wire,    \* octets that have arrived and are unread
  eof,     \* the peer has closed its side
  reader,  \* who reads: recv_frame or _next
  want,    \* how many octets the current recv_exact was asked for
  got,     \* what it has received
  part,    \* whether that is a prefix or a body
  taken,   \* the messages returned so far
  end,     \* why the readers gave up, if they did
  idle,    \* how long the current recv has waited
  held,    \* how long all of them have
  heard    \* how many octets they have received

peerVars == <<sent, unsent, eof>>
readVars == <<reader, want, got, part, taken, end>>
clockVars == <<idle, held, heard>>
vars == <<peerVars, wire, readVars, clockVars>>

Frame(m) == <<Len(m) \div Radix, Len(m) % Radix>> \o m
Declared(prefix) == Radix * prefix[1] + prefix[2]
From(s, i) == SubSeq(s, i, Len(s))

Init ==
  /\ sent = <<>> /\ unsent = <<>> /\ wire = <<>> /\ eof = FALSE
  /\ reader = "recv_frame"
  /\ want = 2 /\ got = <<>> /\ part = "prefix"
  /\ taken = <<>> /\ end = ""
  /\ idle = 0 /\ held = 0 /\ heard = 0

-----------------------------------------------------------------------------
(* The peer and the network. *)

Put(m) ==
  /\ ~eof /\ end = "" /\ Len(sent) < MaxSent
  /\ sent' = Append(sent, m) /\ unsent' = unsent \o Frame(m)
  /\ UNCHANGED <<eof, wire, readVars, clockVars>>

Arrive(n) ==
  /\ end = ""
  /\ wire' = wire \o SubSeq(unsent, 1, n) /\ unsent' = From(unsent, n + 1)
  /\ UNCHANGED <<sent, eof, readVars, clockVars>>

(* It closes, perhaps in the middle of a message: the rest never arrives. *)
Shut ==
  /\ ~eof /\ end = ""
  /\ eof' = TRUE /\ unsent' = <<>>
  /\ UNCHANGED <<sent, wire, readVars, clockVars>>

(* Time passes while a recv has nothing to return. *)
Waiting == end = "" /\ wire = <<>> /\ ~eof

(* Mutant: the wait for the rest of a body is not counted. *)
TickInPrefix ==
  /\ Waiting /\ idle < IoTimeout
  /\ idle' = (IF part = "prefix" THEN idle + 1 ELSE idle) /\ held' = held + 1
  /\ UNCHANGED <<peerVars, wire, readVars, heard>>

Tick ==
  /\ Waiting /\ idle < IoTimeout
  /\ idle' = idle + 1 /\ held' = held + 1
  /\ UNCHANGED <<peerVars, wire, readVars, heard>>

-----------------------------------------------------------------------------
(* The readers. *)

GiveUp(reason) ==
  /\ end' = reason
  /\ UNCHANGED <<reader, want, got, part, taken>>

(* A recv_exact has all its octets: a prefix asks for a body, a body is a  *)
(* message.  Either reader may be the one of the next message.             *)
Complete(octets) ==
  \/ /\ part = "prefix"
     /\ LET length == Declared(octets)
        IN \/ reader = "recv_frame" /\ length = 0 /\ GiveUp("format")
           \/ reader = "_next" /\ length < HeaderSize /\ GiveUp("eof")
           \/ /\ length >= (IF reader = "_next" THEN HeaderSize ELSE 1)
              /\ part' = "body" /\ want' = length /\ got' = <<>>
              /\ UNCHANGED <<reader, taken, end>>
  \/ /\ part = "body"
     /\ taken' = Append(taken, octets)
     /\ reader' \in {"recv_frame", "_next"}
     /\ part' = "prefix" /\ want' = 2 /\ got' = <<>>
     /\ UNCHANGED end

(* Mutant: recv is asked for more than is missing. *)
RecvGreedy(n) ==
  /\ end = "" /\ wire # <<>>
  /\ n \in 1 .. Len(wire)
  /\ wire' = From(wire, n + 1)
  /\ LET octets == got \o SubSeq(wire, 1, n)
     IN \/ Len(octets) >= want /\ Complete(octets)
        \/ /\ Len(octets) < want
           /\ got' = octets /\ UNCHANGED <<reader, want, part, taken, end>>
  /\ idle' = 0 /\ heard' = heard + n
  /\ UNCHANGED <<peerVars, held>>

(* recv returns some of what has arrived, never more than was asked for. *)
Recv(n) ==
  /\ end = "" /\ wire # <<>>
  /\ n \in 1 .. Len(wire) /\ n <= want - Len(got)
  /\ wire' = From(wire, n + 1)
  /\ LET octets == got \o SubSeq(wire, 1, n)
     IN \/ Len(octets) = want /\ Complete(octets)
        \/ /\ Len(octets) < want
           /\ got' = octets /\ UNCHANGED <<reader, want, part, taken, end>>
  /\ idle' = 0 /\ heard' = heard + n
  /\ UNCHANGED <<peerVars, held>>

(* Mutant: no octets are taken for "nothing yet". *)
RecvEofIgnored ==
  /\ end = "" /\ wire = <<>> /\ eof
  /\ UNCHANGED vars

(* recv returns no octets: the peer has closed. *)
RecvEof ==
  /\ end = "" /\ wire = <<>> /\ eof
  /\ GiveUp("eof") /\ UNCHANGED <<peerVars, wire, clockVars>>

RecvTimesOut ==
  /\ Waiting /\ idle = IoTimeout
  /\ GiveUp("timeout") /\ UNCHANGED <<peerVars, wire, clockVars>>

-----------------------------------------------------------------------------
Read == (\E n \in 1 .. Len(wire) : Recv(n)) \/ RecvEof \/ RecvTimesOut

Next ==
  \/ \E m \in Message : Put(m)
  \/ \E n \in 1 .. Len(unsent) : Arrive(n)
  \/ Shut \/ Tick \/ Read

Spec == Init /\ [][Next]_vars

(* The reading thread runs and time passes; the peer owes nothing. *)
FairSpec == Spec /\ WF_vars(Read) /\ WF_vars(Tick)

-----------------------------------------------------------------------------
TypeOK ==
  /\ sent \in Seq(Message) /\ unsent \in Seq(Octet) /\ wire \in Seq(Octet) /\ eof \in BOOLEAN
  /\ reader \in {"recv_frame", "_next"} /\ part \in {"prefix", "body"}
  /\ want \in 1 .. Radix * Radix /\ got \in Seq(Octet) /\ Len(got) < want
  /\ taken \in Seq(Seq(Octet)) /\ end \in {"", "format", "eof", "timeout"}
  /\ idle \in 0 .. IoTimeout /\ held \in Nat /\ heard \in Nat

(* However the stream is cut, and whichever of the two readers takes the   *)
(* next message, the readers together take the peer's messages whole, each *)
(* once and in order: neither leaves an octet to the other or takes one of *)
(* the next message.                                                       *)
Channel == INSTANCE FrameChannel WITH over <- end # ""
ImplementsChannel == Channel!Spec

(* The timeout is per recv, so a slow peer may hold the reader much longer *)
(* than IO_TIMEOUT_SECONDS, but it must pay an octet for every such wait.  *)
(* (Checked with the type of the state.)                                   *)
HeldBounded == TypeOK /\ held <= IoTimeout * (heard + 1)

(* A message that was begun is taken, or the reader gives up: it waits for *)
(* no peer for ever, wherever the octets stop.                             *)
TakenOrGivenUp ==
  \A n \in 1 .. MaxSent : Len(sent) >= n ~> Len(taken) >= n \/ end # ""
=============================================================================
