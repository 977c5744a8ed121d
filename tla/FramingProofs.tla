--------------------------- MODULE FramingProofs ----------------------------
(***************************************************************************)
(* Theorems about Framing, for any radix, messages, timeout and cuts of    *)
(* the stream: the two readers implement FrameChannel, and an octet is     *)
(* paid for every wait.                                                    *)
(***************************************************************************)
EXTENDS Framing, SequenceFacts

(***************************************************************************)
(* What the peer has sent altogether, and where in it the frames end:      *)
(* frame i is behind octet at[i - 1] and its last octet is at[i].          *)
(***************************************************************************)
FrameEnds(all, at) ==
  /\ at[0] = 0 /\ at[Len(sent)] = Len(all)
  /\ \A i \in 0 .. Len(sent) : at[i] <= Len(all)
  /\ \A i \in 1 .. Len(sent) : at[i] = at[i - 1] + 2 + Len(sent[i])

FrameOctets(all, at) ==
  \A i \in 1 .. Len(sent) :
    \A j \in 1 .. 2 + Len(sent[i]) : all[at[i - 1] + j] = Frame(sent[i])[j]

(* What has arrived and what has not are the octets after those heard, and *)
(* without an EOF they are all of them.                                    *)
PendingCount(all) ==
  /\ heard + Len(wire) + Len(unsent) <= Len(all)
  /\ ~eof => heard + Len(wire) + Len(unsent) = Len(all)

PendingOctets(all) ==
  /\ \A j \in 1 .. Len(wire) : wire[j] = all[heard + j]
  /\ \A j \in 1 .. Len(unsent) : unsent[j] = all[heard + Len(wire) + j]

(* The readers have taken the first messages and are somewhere in the next *)
(* frame, whose length they know once they are in its body.                *)
Taken ==
  /\ Len(taken) <= Len(sent)
  /\ \A i \in 1 .. Len(taken) : taken[i] = sent[i]

Position(at) ==
  \/ part = "prefix" /\ want = 2 /\ heard = at[Len(taken)] + Len(got)
  \/ /\ part = "body" /\ Len(taken) < Len(sent) /\ want = Len(sent[Len(taken) + 1])
     /\ heard = at[Len(taken)] + 2 + Len(got)

GotOctets(all) == \A j \in 1 .. Len(got) : got[j] = all[heard - Len(got) + j]

Stream(all, at) ==
  /\ all \in Seq(Octet) /\ at \in [Nat -> Nat]
  /\ FrameEnds(all, at) /\ FrameOctets(all, at)
  /\ PendingCount(all) /\ PendingOctets(all)
  /\ Taken /\ Position(at) /\ GotOctets(all)

StreamInv == end = "" => \E all, at : Stream(all, at)

(* Every wait but the one that goes on has ended with an octet. *)
WaitInv == held <= IoTimeout * heard + idle

IInv == TypeOK /\ StreamInv /\ WaitInv

-----------------------------------------------------------------------------
(* What the constants are. *)
LEMMA RadixKnown == Radix \in Nat /\ Radix > 1
BY MessageAssumption

(* The rest of what they are. *)
LEMMA LimitsKnown == HeaderSize \in Nat /\ HeaderSize > 0 /\ IoTimeout \in Nat
BY LimitAssumption

(* Two digits are enough for the length of a message, and they tell it. *)
LEMMA Digits ==
  ASSUME NEW R \in Nat, R > 1, NEW n \in Nat, n < R * R
  PROVE  /\ n \div R \in 0 .. R - 1 /\ n % R \in 0 .. R - 1
         /\ R * (n \div R) + (n % R) = n
<1>1. n \div R \in Nat /\ n % R \in 0 .. R - 1
  OBVIOUS
<1>2. n % R = n - R * (n \div R)
  BY SMTT(30)
<1> DEFINE q == n \div R  r == n % R
<1>3. q \in Nat /\ r \in 0 .. R - 1 /\ r = n - R * q
  BY <1>1, <1>2
<1> HIDE DEF q, r
<1>4. R * q \in Nat /\ R * q + r = n
  BY <1>3
<1>5. q < R
  BY <1>3, <1>4
<1> QED
  BY <1>3, <1>4, <1>5 DEF q, r

(* A frame is a message behind its length. *)
LEMMA FrameFacts ==
  ASSUME NEW m \in Message
  PROVE  /\ m \in Seq(Octet) /\ Len(m) \in Nat /\ Len(m) < Radix * Radix
         /\ Frame(m) \in Seq(Octet) /\ Len(Frame(m)) = 2 + Len(m)
         /\ Radix * Frame(m)[1] + Frame(m)[2] = Len(m)
         /\ \A j \in 1 .. Len(m) : Frame(m)[2 + j] = m[j]
<1>1. m \in Seq(Octet) /\ Len(m) \in Nat /\ Len(m) < Radix * Radix
  BY MessageAssumption
<1> DEFINE high == Len(m) \div Radix  low == Len(m) % Radix
<1>2. high \in Octet /\ low \in Octet /\ Radix * high + low = Len(m)
  <2>1. /\ Len(m) \div Radix \in 0 .. Radix - 1 /\ Len(m) % Radix \in 0 .. Radix - 1
        /\ Radix * (Len(m) \div Radix) + (Len(m) % Radix) = Len(m)
    BY <1>1, RadixKnown, Digits
  <2> QED
    BY <2>1 DEF Octet
<1> HIDE DEF high, low
<1>3. <<high, low>> \in Seq(Octet) /\ Len(<<high, low>>) = 2
  BY <1>2
<1>4. Frame(m) = <<high, low>> \o m
  BY DEF Frame, high, low
<1>5. /\ <<high, low>> \o m \in Seq(Octet) /\ Len(<<high, low>> \o m) = 2 + Len(m)
      /\ \A i \in 1 .. 2 : (<<high, low>> \o m)[i] = <<high, low>>[i]
      /\ \A j \in 1 .. Len(m) : (<<high, low>> \o m)[2 + j] = m[j]
  BY <1>1, <1>3, ConcatElements
<1>6. Frame(m)[1] = high /\ Frame(m)[2] = low
  BY <1>4, <1>5
<1> QED
  BY <1>1, <1>2, <1>4, <1>5, <1>6

-----------------------------------------------------------------------------
(* A connection nothing has been sent on. *)
LEMMA InitIInv == Init => IInv
<1> SUFFICES ASSUME Init PROVE IInv
  OBVIOUS
<1>1. <<>> \in Seq(Message) /\ <<>> \in Seq(Octet) /\ <<>> \in Seq(Seq(Octet)) /\ Len(<<>>) = 0
  OBVIOUS
<1>2. 2 \in 1 .. Radix * Radix
  BY RadixKnown
<1>3. /\ sent = <<>> /\ unsent = <<>> /\ wire = <<>> /\ eof = FALSE /\ reader = "recv_frame"
      /\ want = 2 /\ got = <<>> /\ part = "prefix" /\ taken = <<>>
      /\ idle = 0 /\ held = 0 /\ heard = 0
  BY Zenon DEF Init
<1>4. TypeOK
  <2>1. 0 \in 0 .. IoTimeout /\ 0 \in Nat
    BY LimitsKnown
  <2>2. Len(got) < want
    BY <1>1, <1>3
  <2>3. end = ""
    BY Zenon DEF Init
  <2> QED
    BY <1>1, <1>2, <1>3, <2>1, <2>2, <2>3, Zenon DEF TypeOK
<1>5. StreamInv
  <2> DEFINE all == <<>>
             at == [i \in Nat |-> 0]
  <2>1. all \in Seq(Octet) /\ at \in [Nat -> Nat] /\ Len(all) = 0 /\ at[0] = 0
    OBVIOUS
  <2> HIDE DEF all, at
  <2>2. FrameEnds(all, at) /\ FrameOctets(all, at)
    BY <1>1, <1>3, <2>1 DEF FrameEnds, FrameOctets
  <2>3. PendingCount(all) /\ PendingOctets(all)
    BY <1>1, <1>3, <2>1 DEF PendingCount, PendingOctets
  <2>4. Taken /\ Position(at) /\ GotOctets(all)
    BY <1>1, <1>3, <2>1 DEF Taken, Position, GotOctets
  <2> QED
    BY <2>1, <2>2, <2>3, <2>4, Zenon DEF StreamInv, Stream
<1>6. WaitInv
  BY <1>3, LimitsKnown DEF WaitInv
<1> QED
  BY <1>4, <1>5, <1>6 DEF IInv

-----------------------------------------------------------------------------
(* The lengths of sequences of the state. *)
LEMMA Lengths ==
  ASSUME TypeOK
  PROVE  /\ Len(sent) \in Nat /\ Len(unsent) \in Nat /\ Len(wire) \in Nat
         /\ Len(got) \in Nat /\ Len(taken) \in Nat /\ heard \in Nat /\ want \in Nat
         /\ sent \in Seq(Message) /\ unsent \in Seq(Octet) /\ wire \in Seq(Octet)
         /\ got \in Seq(Octet) /\ taken \in Seq(Seq(Octet))
<1>1. want \in Nat
  <2>1. want \in 1 .. Radix * Radix
    BY Zenon DEF TypeOK
  <2>2. Radix * Radix \in Nat
    BY RadixKnown
  <2> QED
    BY <2>1, <2>2
<1>2. sent \in Seq(Message) /\ unsent \in Seq(Octet) /\ wire \in Seq(Octet)
      /\ got \in Seq(Octet) /\ taken \in Seq(Seq(Octet)) /\ heard \in Nat
  BY Zenon DEF TypeOK
<1> QED
  BY <1>1, <1>2

(* Where the readers are, as numbers: inside the frame they read, and not  *)
(* beyond what has been sent.                                              *)
LEMMA Bounds ==
  ASSUME TypeOK, NEW all, NEW at, Stream(all, at)
  PROVE  /\ Len(all) \in Nat /\ Len(taken) \in 0 .. Len(sent)
         /\ at[Len(taken)] \in Nat /\ at[Len(taken)] <= Len(all)
         /\ heard + Len(wire) + Len(unsent) <= Len(all)
         /\ Len(got) <= heard
<1>1. Len(all) \in Nat
  BY DEF Stream
<1>2. Len(taken) \in 0 .. Len(sent)
  BY Lengths DEF Stream, Taken
<1>3. at[Len(taken)] \in Nat /\ at[Len(taken)] <= Len(all)
  BY <1>1, <1>2 DEF Stream, FrameEnds
<1>4. heard + Len(wire) + Len(unsent) <= Len(all)
  BY Zenon DEF Stream, PendingCount
<1>5. heard = at[Len(taken)] + Len(got) \/ heard = at[Len(taken)] + 2 + Len(got)
  BY Zenon DEF Stream, Position
<1>6. Len(got) <= heard
  <2>1. at[Len(taken)] \in Nat /\ Len(got) \in Nat
    BY <1>3, Lengths
  <2> QED
    BY <1>5, <2>1
<1> QED
  BY <1>1, <1>2, <1>3, <1>4, <1>6

(* Arithmetic of positions in the stream, for the steps below. *)
LEMMA WithinFrame ==
  ASSUME NEW a \in Nat, NEW length \in Nat, NEW j \in 1 .. 2 + length,
         NEW n \in Nat, a + 2 + length <= n
  PROVE  a + j \in 1 .. n
OBVIOUS

-----------------------------------------------------------------------------
(* The peer sends one more frame behind all the others. *)
LEMMA PutIInv == ASSUME IInv, NEW m \in Message, Put(m) PROVE IInv'
<1>1. /\ sent' = Append(sent, m) /\ unsent' = unsent \o Frame(m)
      /\ UNCHANGED <<eof, wire, readVars, clockVars>>
  BY DEF Put
<1>2. ~eof /\ end = ""
  BY Zenon DEF Put
<1>3. UNCHANGED <<eof, wire, reader, want, got, part, taken, end, idle, held, heard>>
  BY <1>1, Zenon DEF readVars, clockVars
<1>4. TypeOK /\ StreamInv /\ WaitInv
  BY DEF IInv
<1> DEFINE F == Frame(m)
<1>5. Len(F) \in Nat /\ Len(F) = 2 + Len(m) /\ Len(m) \in Nat
  BY FrameFacts
<1>5a. F \in Seq(Octet)
  BY FrameFacts
<1> HIDE DEF F
<1>6. Len(unsent') = Len(unsent) + Len(F)
  BY <1>1, <1>4, <1>5a, Lengths, ConcatElements DEF F
<1>6a. unsent' \in Seq(Octet)
  BY <1>1, <1>4, <1>5a, Lengths, ConcatElements DEF F
<1>7. /\ \A j \in 1 .. Len(unsent) : unsent'[j] = unsent[j]
      /\ \A j \in 1 .. Len(F) : unsent'[Len(unsent) + j] = F[j]
  BY <1>1, <1>4, <1>5a, Lengths, ConcatElements DEF F
<1>8. Len(sent') = Len(sent) + 1
  BY <1>1, <1>4, Lengths
<1>8a. sent' \in Seq(Message)
  BY <1>1, <1>4, Lengths
<1>9. (\A i \in 1 .. Len(sent) : sent'[i] = sent[i]) /\ sent'[Len(sent) + 1] = m
  BY <1>1, <1>4, Lengths
<1>10. TypeOK'
  BY <1>3, <1>4, <1>6a, <1>8a, Zenon DEF TypeOK
<1>11. PICK all, at : Stream(all, at)
  BY <1>2, <1>4, Zenon DEF StreamInv
<1>11a. all \in Seq(Octet) /\ at \in [Nat -> Nat]
  BY <1>11, Zenon DEF Stream
<1>12. /\ Len(sent) \in Nat /\ Len(unsent) \in Nat /\ Len(wire) \in Nat
       /\ Len(got) \in Nat /\ Len(taken) \in Nat /\ heard \in Nat /\ Len(all) \in Nat
       /\ Len(taken) \in 0 .. Len(sent) /\ Len(got) <= heard
       /\ heard + Len(wire) + Len(unsent) = Len(all)
  <2>1. heard + Len(wire) + Len(unsent) = Len(all)
    BY <1>2, <1>11, Zenon DEF Stream, PendingCount
  <2> QED
    BY <1>4, <1>11, <2>1, Lengths, Bounds
<1>13. PICK more : /\ more \in Seq(Octet) /\ Len(more) = Len(all) + Len(F)
                   /\ \A j \in 1 .. Len(all) : more[j] = all[j]
                   /\ \A j \in 1 .. Len(F) : more[Len(all) + j] = F[j]
  <2> DEFINE x == all \o F
  <2>1. /\ x \in Seq(Octet) /\ Len(x) = Len(all) + Len(F)
        /\ \A j \in 1 .. Len(all) : x[j] = all[j]
        /\ \A j \in 1 .. Len(F) : x[Len(all) + j] = F[j]
    BY <1>5a, <1>11a, ConcatElements
  <2> HIDE DEF x
  <2> QED
    BY <2>1, Zenon
<1>14. /\ \A j \in 1 .. Len(all) : more[j] = all[j]
       /\ \A j \in 1 .. Len(F) : more[Len(all) + j] = F[j]
  BY <1>13, Zenon
<1>14a. Len(more) = Len(all) + Len(F)
  BY <1>13, Zenon
<1>15. PICK at2 : /\ at2 \in [Nat -> Nat] /\ at2[Len(sent) + 1] = Len(all) + Len(F)
                  /\ \A i \in 0 .. Len(sent) : at2[i] = at[i]
  <2>1. Len(sent) + 1 \in Nat /\ Len(all) + Len(F) \in Nat
    BY <1>5, <1>12
  <2>2. \A i \in 0 .. Len(sent) : i # Len(sent) + 1 /\ i \in Nat
    BY <1>12
  <2> DEFINE x == [at EXCEPT ![Len(sent) + 1] = Len(all) + Len(F)]
  <2>3. /\ x \in [Nat -> Nat] /\ x[Len(sent) + 1] = Len(all) + Len(F)
        /\ \A i \in 0 .. Len(sent) : x[i] = at[i]
    BY <1>11a, <2>1, <2>2
  <2> HIDE DEF x
  <2> QED
    BY <2>3, Zenon
<1>15a. at2[Len(sent) + 1] = Len(all) + Len(F) /\ \A i \in 0 .. Len(sent) : at2[i] = at[i]
  BY <1>15, Zenon
<1>15b. /\ at[0] = 0 /\ at[Len(sent)] = Len(all)
        /\ \A i \in 0 .. Len(sent) : at[i] <= Len(all) /\ at[i] \in Nat
        /\ \A i \in 1 .. Len(sent) : at[i] = at[i - 1] + 2 + Len(sent[i])
  <2>1. FrameEnds(all, at)
    BY <1>11, Zenon DEF Stream
  <2>2. \A i \in 0 .. Len(sent) : at[i] \in Nat
    <3>1. \A i \in 0 .. Len(sent) : i \in Nat
      BY <1>12
    <3> QED
      BY <1>11a, <3>1
  <2> QED
    BY <2>1, <2>2, Zenon DEF FrameEnds
<1>16. FrameEnds(all, at) /\ FrameOctets(all, at) /\ PendingOctets(all) /\ Taken /\ Position(at) /\ GotOctets(all)
  BY <1>11, Zenon DEF Stream
<1>17. FrameEnds(more, at2)'
  <2>1. at2[0] = 0 /\ at2[Len(sent')] = Len(more)
    BY <1>8, <1>12, <1>14a, <1>15a, <1>15b
  <2>2. ASSUME NEW i \in 0 .. Len(sent') PROVE at2[i] <= Len(more)
    <3>1. CASE i \in 0 .. Len(sent)
      <4>1. at[i] <= Len(all) /\ at[i] \in Nat /\ at2[i] = at[i]
        BY <1>15a, <1>15b, <3>1, Zenon
      <4> QED
        BY <1>5, <1>12, <1>14a, <4>1
    <3>2. CASE i = Len(sent) + 1
      BY <1>5, <1>12, <1>14a, <1>15a, <3>2
    <3> QED
      BY <1>8, <1>12, <3>1, <3>2
  <2>3. ASSUME NEW i \in 1 .. Len(sent') PROVE at2[i] = at2[i - 1] + 2 + Len(sent'[i])
    <3>1. CASE i \in 1 .. Len(sent)
      <4>1. i - 1 \in 0 .. Len(sent) /\ i \in 0 .. Len(sent)
        BY <1>12, <3>1
      <4> QED
        BY <1>9, <1>15a, <1>15b, <3>1, <4>1, Zenon
    <3>2. CASE i = Len(sent) + 1
      <4>1. i - 1 = Len(sent) /\ i - 1 \in 0 .. Len(sent)
        BY <1>12, <3>2
      <4>2. at2[i - 1] = Len(all) /\ sent'[i] = m /\ at2[i] = Len(all) + Len(F)
        BY <1>9, <1>15a, <1>15b, <3>2, <4>1 DEF FrameEnds
      <4> QED
        BY <1>5, <1>12, <4>2
    <3> QED
      BY <1>8, <1>12, <3>1, <3>2
  <2> QED
    BY <2>1, <2>2, <2>3, Zenon DEF FrameEnds
<1>18. FrameOctets(more, at2)'
  <2> SUFFICES ASSUME NEW i \in 1 .. Len(sent'), NEW j \in 1 .. 2 + Len(sent'[i])
               PROVE  more[at2[i - 1] + j] = Frame(sent'[i])[j]
    BY Zenon DEF FrameOctets
  <2>1. CASE i \in 1 .. Len(sent)
    <3>1. /\ i - 1 \in 0 .. Len(sent) /\ i \in 0 .. Len(sent)
          /\ sent'[i] = sent[i] /\ sent[i] \in Message
      BY <1>4, <1>9, <1>12, <2>1, Lengths
    <3>2. at[i - 1] \in Nat /\ at2[i - 1] = at[i - 1] /\ at[i] <= Len(all) /\ at[i] = at[i - 1] + 2 + Len(sent[i])
      BY <1>15a, <1>15b, <2>1, <3>1, Zenon
    <3>3. Len(sent[i]) \in Nat /\ j \in 1 .. 2 + Len(sent[i])
      BY <3>1, FrameFacts
    <3>4. at[i - 1] + j \in 1 .. Len(all)
      <4>1. at[i - 1] \in Nat /\ at[i - 1] + 2 + Len(sent[i]) <= Len(all) /\ Len(all) \in Nat
        BY <1>12, <3>2, Zenon
      <4> QED
        BY <3>3, <4>1, WithinFrame, Zenon
    <3>5. all[at[i - 1] + j] = Frame(sent[i])[j]
      BY <1>16, <2>1, <3>3, Zenon DEF FrameOctets
    <3> QED
      BY <1>14, <3>1, <3>2, <3>4, <3>5, Zenon
  <2>2. CASE i = Len(sent) + 1
    <3>1. i - 1 = Len(sent) /\ i - 1 \in 0 .. Len(sent)
      BY <1>12, <2>2
    <3>2. at2[i - 1] = Len(all) /\ sent'[i] = m
      BY <1>9, <1>15a, <1>15b, <2>2, <3>1 DEF FrameEnds
    <3>3. j \in 1 .. Len(F)
      BY <1>5, <3>2
    <3> QED
      BY <1>14, <3>2, <3>3, Zenon DEF F
  <2> QED
    BY <1>8, <1>12, <2>1, <2>2
<1>19. PendingCount(more)'
  <2>1. heard + Len(wire) + Len(unsent') = Len(more)
    BY <1>5, <1>6, <1>12, <1>14a
  <2> QED
    BY <1>3, <1>6, <1>12, <2>1 DEF PendingCount
<1>20. PendingOctets(more)'
  <2>1. ASSUME NEW j \in 1 .. Len(wire) PROVE wire[j] = more[heard + j]
    <3>1. heard + j \in 1 .. Len(all)
      BY <1>12
    <3> QED
      BY <1>14, <1>16, <3>1, Zenon DEF PendingOctets
  <2>2. ASSUME NEW j \in 1 .. Len(unsent') PROVE unsent'[j] = more[heard + Len(wire) + j]
    <3>1. CASE j \in 1 .. Len(unsent)
      <4>1. heard + Len(wire) + j \in 1 .. Len(all)
        BY <1>12, <3>1
      <4> QED
        BY <1>7, <1>14, <1>16, <3>1, <4>1, Zenon DEF PendingOctets
    <3>2. CASE j - Len(unsent) \in 1 .. Len(F)
      <4> DEFINE k == j - Len(unsent)
      <4>1. j = Len(unsent) + k /\ heard + Len(wire) + j = Len(all) + k
        BY <1>12
      <4> HIDE DEF k
      <4> QED
        BY <1>7, <1>14, <3>2, <4>1, Zenon DEF k
    <3> QED
      BY <1>5, <1>6, <1>12, <3>1, <3>2
  <2> QED
    BY <1>3, <2>1, <2>2, Zenon DEF PendingOctets
<1>21. Taken' /\ Position(at2)' /\ GotOctets(more)'
  <2>1. Len(taken) <= Len(sent') /\ (Len(taken) < Len(sent) => Len(taken) < Len(sent'))
    BY <1>8, <1>12
  <2>2. \A i \in 1 .. Len(taken) : i \in 1 .. Len(sent)
    BY <1>12
  <2>3. Taken'
    BY <1>3, <1>9, <1>16, <2>1, <2>2, Zenon DEF Taken
  <2>4. at2[Len(taken)] = at[Len(taken)]
    BY <1>12, <1>15a
  <2>5. Len(taken) < Len(sent) => sent'[Len(taken) + 1] = sent[Len(taken) + 1]
    <3>1. Len(taken) < Len(sent) => Len(taken) + 1 \in 1 .. Len(sent)
      BY <1>12
    <3> QED
      BY <1>9, <3>1, Zenon
  <2>6. Position(at2)'
    BY <1>3, <1>16, <2>1, <2>4, <2>5, Zenon DEF Position
  <2>7. \A j \in 1 .. Len(got) : heard - Len(got) + j \in 1 .. Len(all)
    BY <1>12
  <2>8. GotOctets(more)'
    BY <1>3, <1>14, <1>16, <2>7, Zenon DEF GotOctets
  <2> QED
    BY <2>3, <2>6, <2>8
<1>22. StreamInv'
  <2>1. Stream(more, at2)'
    BY <1>13, <1>15, <1>17, <1>18, <1>19, <1>20, <1>21, Zenon DEF Stream
  <2> QED
    BY <2>1, Zenon DEF StreamInv
<1>23. WaitInv'
  BY <1>3, <1>4, Zenon DEF WaitInv
<1> QED
  BY <1>10, <1>22, <1>23 DEF IInv

-----------------------------------------------------------------------------
(* The network delivers, the peer closes and time passes: the stream of    *)
(* the peer is the one it was.                                             *)
LEMMA ArriveIInv == ASSUME IInv, NEW n \in 1 .. Len(unsent), Arrive(n) PROVE IInv'
<1>1. /\ wire' = wire \o SubSeq(unsent, 1, n) /\ unsent' = SubSeq(unsent, n + 1, Len(unsent))
      /\ UNCHANGED <<sent, eof, readVars, clockVars>>
  BY DEF Arrive, From
<1>2. end = ""
  BY Zenon DEF Arrive
<1>3. UNCHANGED <<sent, eof, reader, want, got, part, taken, end, idle, held, heard>>
  BY <1>1, Zenon DEF readVars, clockVars
<1>4. TypeOK /\ StreamInv /\ WaitInv
  BY DEF IInv
<1>5. wire \in Seq(Octet) /\ unsent \in Seq(Octet)
  BY <1>4, Zenon DEF TypeOK
<1> DEFINE front == SubSeq(unsent, 1, n)
<1>6. /\ front \in Seq(Octet) /\ Len(front) = n /\ \A i \in 1 .. n : front[i] = unsent[i]
      /\ unsent' \in Seq(Octet) /\ Len(unsent') = Len(unsent) - n
      /\ \A i \in 1 .. Len(unsent) - n : unsent'[i] = unsent[n + i]
  <2>1. n \in 0 .. Len(unsent)
    OBVIOUS
  <2> QED
    BY <1>1, <1>5, <2>1, Cut
<1> HIDE DEF front
<1>7. /\ wire' \in Seq(Octet) /\ Len(wire') = Len(wire) + Len(front)
      /\ \A i \in 1 .. Len(wire) : wire'[i] = wire[i]
      /\ \A i \in 1 .. Len(front) : wire'[Len(wire) + i] = front[i]
  BY <1>1, <1>5, <1>6, ConcatElements DEF front
<1>8. Len(unsent') = Len(unsent) - n /\ Len(wire') = Len(wire) + n
  BY <1>6, <1>7, Zenon
<1>9. TypeOK'
  BY <1>3, <1>4, <1>6, <1>7, Zenon DEF TypeOK
<1>10. PICK all, at : Stream(all, at)
  BY <1>2, <1>4, Zenon DEF StreamInv
<1>11. Len(all) \in Nat /\ Len(wire) \in Nat /\ Len(unsent) \in Nat /\ heard \in Nat
  BY <1>4, <1>10, Lengths, Bounds
<1>12. PendingCount(all)'
  <2>1. /\ heard + Len(wire) + Len(unsent) <= Len(all)
        /\ ~eof => heard + Len(wire) + Len(unsent) = Len(all)
    BY <1>10, Zenon DEF Stream, PendingCount
  <2>2. heard + Len(wire') + Len(unsent') = heard + Len(wire) + Len(unsent)
    BY <1>8, <1>11
  <2> QED
    BY <1>3, <2>1, <2>2, Zenon DEF PendingCount
<1>13. PendingOctets(all)'
  <2>1. PendingOctets(all)
    BY <1>10, Zenon DEF Stream
  <2>2. ASSUME NEW j \in 1 .. Len(wire') PROVE wire'[j] = all[heard + j]
    <3>1. CASE j \in 1 .. Len(wire)
      BY <1>7, <2>1, <3>1, Zenon DEF PendingOctets
    <3>2. CASE j - Len(wire) \in 1 .. n
      <4> DEFINE k == j - Len(wire)
      <4>1. j = Len(wire) + k /\ heard + Len(wire) + k = heard + j /\ k \in 1 .. Len(unsent)
        BY <1>11, <3>2
      <4> HIDE DEF k
      <4>2. wire'[j] = unsent[k]
        BY <1>6, <1>7, <3>2, <4>1, Zenon DEF k
      <4> QED
        BY <2>1, <4>1, <4>2, Zenon DEF PendingOctets
    <3> QED
      BY <1>8, <1>11, <3>1, <3>2
  <2>3. ASSUME NEW j \in 1 .. Len(unsent') PROVE unsent'[j] = all[heard + Len(wire') + j]
    <3>1. /\ j \in 1 .. Len(unsent) - n /\ n + j \in 1 .. Len(unsent)
          /\ heard + Len(wire') + j = heard + Len(wire) + (n + j)
      BY <1>8, <1>11
    <3> QED
      BY <1>6, <2>1, <3>1, Zenon DEF PendingOctets
  <2> QED
    BY <1>3, <2>2, <2>3, Zenon DEF PendingOctets
<1>14. StreamInv'
  <2>1. Stream(all, at)'
    <3>1. UNCHANGED <<sent, got, part, taken, want, heard>>
      BY <1>3, Zenon
    <3> QED
      BY <1>10, <1>12, <1>13, <3>1, Zenon
         DEF Stream, FrameEnds, FrameOctets, Taken, Position, GotOctets
  <2> QED
    BY <2>1, Zenon DEF StreamInv
<1>15. WaitInv'
  BY <1>3, <1>4, Zenon DEF WaitInv
<1> QED
  BY <1>9, <1>14, <1>15 DEF IInv

(* The peer closes: what had not arrived never does. *)
LEMMA ShutIInv == ASSUME IInv, Shut PROVE IInv'
<1>1. eof' = TRUE /\ unsent' = <<>>
  BY DEF Shut
<1>2. end = ""
  BY Zenon DEF Shut
<1>3. UNCHANGED <<sent, wire, reader, want, got, part, taken, end, idle, held, heard>>
  BY Zenon DEF Shut, readVars, clockVars
<1>4. TypeOK /\ StreamInv /\ WaitInv
  BY DEF IInv
<1>5. unsent' \in Seq(Octet) /\ Len(unsent') = 0
  BY <1>1
<1>6. TypeOK'
  BY <1>1, <1>3, <1>4, <1>5, Zenon DEF TypeOK
<1>7. PICK all, at : Stream(all, at)
  BY <1>2, <1>4, Zenon DEF StreamInv
<1>8. PendingCount(all)'
  <2>1. Len(all) \in Nat /\ Len(wire) \in Nat /\ Len(unsent) \in Nat /\ heard \in Nat
        /\ heard + Len(wire) + Len(unsent) <= Len(all)
    BY <1>4, <1>7, Lengths, Bounds
  <2>2. Len(unsent') = 0
    BY <1>5
  <2>3. heard + Len(wire) + Len(unsent') <= Len(all)
    BY <2>1, <2>2
  <2> QED
    BY <1>1, <1>3, <2>3, Zenon DEF PendingCount
<1>9. PendingOctets(all)'
  <2>1. PendingOctets(all)
    BY <1>7, Zenon DEF Stream
  <2>2. \A j \in 1 .. Len(unsent') : FALSE
    BY <1>5
  <2> QED
    BY <1>3, <2>1, <2>2, Zenon DEF PendingOctets
<1>10. StreamInv'
  <2>1. Stream(all, at)'
    <3>1. UNCHANGED <<sent, got, part, taken, want, heard>>
      BY <1>3, Zenon
    <3> QED
      BY <1>7, <1>8, <1>9, <3>1, Zenon
         DEF Stream, FrameEnds, FrameOctets, Taken, Position, GotOctets
  <2> QED
    BY <2>1, Zenon DEF StreamInv
<1>11. WaitInv'
  BY <1>3, <1>4, Zenon DEF WaitInv
<1> QED
  BY <1>6, <1>10, <1>11 DEF IInv

(* A recv waits for one unit more. *)
LEMMA TickIInv == ASSUME IInv, Tick PROVE IInv'
<1>1. idle < IoTimeout /\ idle' = idle + 1 /\ held' = held + 1
  BY Zenon DEF Tick
<1>2. UNCHANGED <<sent, unsent, eof, wire, reader, want, got, part, taken, end, heard>>
  BY Zenon DEF Tick, peerVars, readVars
<1>3. TypeOK /\ StreamInv /\ WaitInv
  BY DEF IInv
<1>4. idle \in 0 .. IoTimeout /\ held \in Nat /\ heard \in Nat
  BY <1>3, Zenon DEF TypeOK
<1>5. TypeOK'
  <2>1. idle' \in 0 .. IoTimeout /\ held' \in Nat
    BY <1>1, <1>4, LimitsKnown
  <2> QED
    BY <1>2, <1>3, <2>1, Zenon DEF TypeOK
<1>6. StreamInv'
  <2>1. end = ""
    BY Zenon DEF Tick, Waiting
  <2>2. PICK all, at : Stream(all, at)
    BY <1>3, <2>1, Zenon DEF StreamInv
  <2>3. Stream(all, at)'
    BY <1>2, <2>2, Zenon
       DEF Stream, FrameEnds, FrameOctets, PendingCount, PendingOctets, Taken, Position, GotOctets
  <2> QED
    BY <2>3, Zenon DEF StreamInv
<1>7. WaitInv'
  <2>1. IoTimeout * heard \in Nat /\ held <= IoTimeout * heard + idle
    BY <1>3, <1>4, LimitsKnown DEF WaitInv
  <2>2. held + 1 <= IoTimeout * heard + (idle + 1)
    BY <1>4, <2>1
  <2> QED
    BY <1>1, <1>2, <2>2, Zenon DEF WaitInv
<1> QED
  BY <1>5, <1>6, <1>7 DEF IInv

-----------------------------------------------------------------------------
(* What a recv has put together: the octets after the ones read before.    *)
LEMMA RecvOctets ==
  ASSUME TypeOK, NEW all, NEW at, Stream(all, at), NEW n \in 1 .. Len(wire),
         NEW octets, octets = got \o SubSeq(wire, 1, n)
  PROVE  /\ octets \in Seq(Octet) /\ Len(octets) = Len(got) + n
         /\ \A j \in 1 .. Len(got) + n : octets[j] = all[heard - Len(got) + j]
<1>1. got \in Seq(Octet) /\ wire \in Seq(Octet)
  BY Zenon DEF TypeOK
<1> DEFINE front == SubSeq(wire, 1, n)
<1>2. front \in Seq(Octet) /\ Len(front) = n /\ \A i \in 1 .. n : front[i] = wire[i]
  <2>1. n \in 0 .. Len(wire)
    OBVIOUS
  <2> QED
    BY <1>1, <2>1, Cut
<1>3. octets = got \o front
  OBVIOUS
<1> HIDE DEF front
<1>4. /\ octets \in Seq(Octet) /\ Len(octets) = Len(got) + Len(front)
      /\ \A i \in 1 .. Len(got) : octets[i] = got[i]
      /\ \A i \in 1 .. Len(front) : octets[Len(got) + i] = front[i]
  BY <1>1, <1>2, <1>3, ConcatElements
<1>5. GotOctets(all) /\ PendingOctets(all)
  BY Zenon DEF Stream
<1>6. Len(got) \in Nat /\ heard \in Nat
  BY Lengths
<1>7. ASSUME NEW j \in 1 .. Len(got) + n PROVE octets[j] = all[heard - Len(got) + j]
  <2>1. CASE j \in 1 .. Len(got)
    BY <1>4, <1>5, <2>1, Zenon DEF GotOctets
  <2>2. CASE j - Len(got) \in 1 .. n
    <3> DEFINE k == j - Len(got)
    <3>1. j = Len(got) + k /\ heard - Len(got) + j = heard + k /\ k \in 1 .. Len(wire)
      BY <1>6, <2>2
    <3> HIDE DEF k
    <3>2. octets[j] = wire[k]
      BY <1>2, <1>4, <2>2, <3>1, Zenon DEF k
    <3> QED
      BY <1>5, <3>1, <3>2, Zenon DEF PendingOctets
  <2> QED
    BY <1>6, <2>1, <2>2
<1> QED
  BY <1>2, <1>4, <1>7, Zenon

(* What it leaves behind. *)
LEMMA RecvPending ==
  ASSUME TypeOK, NEW all, NEW at, Stream(all, at), NEW n \in 1 .. Len(wire),
         wire' = From(wire, n + 1), heard' = heard + n, UNCHANGED <<unsent, eof>>
  PROVE  wire' \in Seq(Octet) /\ PendingCount(all)' /\ PendingOctets(all)'
<1>1. wire \in Seq(Octet)
  BY Zenon DEF TypeOK
<1>2. /\ wire' \in Seq(Octet) /\ Len(wire') = Len(wire) - n
      /\ \A i \in 1 .. Len(wire) - n : wire'[i] = wire[n + i]
  <2>1. n \in 0 .. Len(wire)
    OBVIOUS
  <2>2. wire' = SubSeq(wire, n + 1, Len(wire))
    BY Zenon DEF From
  <2> QED
    BY <1>1, <2>1, <2>2, Cut, ZenonT(30)
<1>3. Len(wire') = Len(wire) - n
  BY <1>2, Zenon
<1>4. Len(all) \in Nat /\ Len(wire) \in Nat /\ Len(unsent) \in Nat /\ heard \in Nat
  BY Lengths, Bounds
<1>5. heard' + Len(wire') = heard + Len(wire)
  BY <1>3, <1>4
<1>6. PendingCount(all)'
  BY <1>5, Zenon DEF Stream, PendingCount
<1>7. PendingOctets(all)'
  <2>1. PendingOctets(all)
    BY Zenon DEF Stream
  <2>2. ASSUME NEW j \in 1 .. Len(wire') PROVE wire'[j] = all[heard' + j]
    <3>1. n + j \in 1 .. Len(wire) /\ j \in 1 .. Len(wire) - n /\ heard' + j = heard + (n + j)
      BY <1>3, <1>4
    <3> QED
      BY <1>2, <2>1, <3>1, Zenon DEF PendingOctets
  <2> QED
    BY <1>5, <2>1, <2>2, Zenon DEF PendingOctets
<1> QED
  BY <1>2, <1>6, <1>7

(* More arithmetic of positions. *)
LEMMA Sums ==
  ASSUME NEW a \in Nat, NEW g \in Nat
  PROVE  /\ \A n \in Nat : (a + g) + n = a + (g + n)
         /\ \A n \in Nat : (a + 2 + g) + n = a + 2 + (g + n)
         /\ \A n \in Nat : (a + 2 + g) - g + n = a + (2 + n)
OBVIOUS

(* A complete prefix is that of the next frame, and tells its length. *)
LEMMA PrefixRead ==
  ASSUME TypeOK, NEW all, NEW at, Stream(all, at), part = "prefix",
         NEW n \in 1 .. Len(wire), Len(got) + n = 2,
         NEW octets, octets = got \o SubSeq(wire, 1, n)
  PROVE  /\ Len(taken) < Len(sent) /\ sent[Len(taken) + 1] \in Message
         /\ Declared(octets) = Len(sent[Len(taken) + 1])
         /\ heard + n = at[Len(taken)] + 2
<1>1. /\ Len(sent) \in Nat /\ Len(unsent) \in Nat /\ Len(wire) \in Nat /\ Len(got) \in Nat
      /\ Len(taken) \in 0 .. Len(sent) /\ heard \in Nat /\ Len(all) \in Nat
      /\ at[Len(taken)] \in Nat /\ heard + Len(wire) + Len(unsent) <= Len(all)
  BY Lengths, Bounds
<1>2. heard = at[Len(taken)] + Len(got)
  BY Zenon DEF Stream, Position
<1>3. heard + n = at[Len(taken)] + 2
  <2>1. n \in Nat
    OBVIOUS
  <2>2. \A k \in Nat : (at[Len(taken)] + Len(got)) + k = at[Len(taken)] + (Len(got) + k)
    BY <1>1, Sums, Zenon
  <2>3. (at[Len(taken)] + Len(got)) + n = at[Len(taken)] + (Len(got) + n)
    BY <2>1, <2>2, Zenon
  <2> QED
    BY <1>2, <2>3, Zenon
<1>4. Len(taken) # Len(sent)
  <2>1. at[Len(sent)] = Len(all)
    BY Zenon DEF Stream, FrameEnds
  <2>2. at[Len(taken)] < Len(all)
    BY <1>1, <1>3
  <2>3. at[Len(taken)] # Len(all)
    BY <1>1, <2>2
  <2> QED
    BY <2>1, <2>3, Zenon
<1>5. Len(taken) < Len(sent) /\ Len(taken) + 1 \in 1 .. Len(sent) /\ (Len(taken) + 1) - 1 = Len(taken)
  BY <1>1, <1>4
<1> DEFINE m == sent[Len(taken) + 1]
<1>6. m \in Message
  BY <1>5, Lengths
<1>7. /\ \A j \in 1 .. 2 + Len(m) : all[at[Len(taken)] + j] = Frame(m)[j]
  BY <1>5, Zenon DEF Stream, FrameOctets
<1> HIDE DEF m
<1>8. /\ Len(m) \in Nat /\ Radix * Frame(m)[1] + Frame(m)[2] = Len(m)
  BY <1>6, FrameFacts, Zenon
<1>9. \A j \in 1 .. 2 : octets[j] = Frame(m)[j]
  <2>1. \A j \in 1 .. Len(got) + n : octets[j] = all[heard - Len(got) + j]
    BY RecvOctets, Zenon
  <2>2. \A j \in 1 .. 2 : j \in 1 .. Len(got) + n /\ j \in 1 .. 2 + Len(m)
    BY <1>8
  <2>3. heard - Len(got) = at[Len(taken)]
    BY <1>1, <1>2, SMTT(30)
  <2> QED
    BY <1>7, <2>1, <2>2, <2>3, Zenon
<1>10. octets[1] = Frame(m)[1] /\ octets[2] = Frame(m)[2]
  BY <1>9
<1>11. Declared(octets) = Len(m)
  BY <1>8, <1>10, Zenon DEF Declared
<1> QED
  BY <1>3, <1>5, <1>6, <1>11, Zenon DEF m

(* A complete body is the message itself, and the frame ends behind it. *)
LEMMA BodyRead ==
  ASSUME TypeOK, NEW all, NEW at, Stream(all, at), part = "body",
         NEW n \in 1 .. Len(wire), Len(got) + n = want,
         NEW octets, octets = got \o SubSeq(wire, 1, n)
  PROVE  /\ Len(taken) < Len(sent) /\ octets = sent[Len(taken) + 1]
         /\ heard + n = at[Len(taken) + 1]
<1>1. /\ Len(sent) \in Nat /\ Len(taken) \in 0 .. Len(sent) /\ Len(got) \in Nat
      /\ heard \in Nat /\ at[Len(taken)] \in Nat
  BY Lengths, Bounds
<1> DEFINE m == sent[Len(taken) + 1]
<1>2. Len(taken) < Len(sent) /\ want = Len(m) /\ heard = at[Len(taken)] + 2 + Len(got)
  <2>1. part # "prefix"
    OBVIOUS
  <2> QED
    BY <2>1, Zenon DEF Stream, Position
<1>3. Len(taken) + 1 \in 1 .. Len(sent) /\ (Len(taken) + 1) - 1 = Len(taken)
  <2>1. Len(taken) < Len(sent)
    BY <1>2, Zenon
  <2> QED
    BY <1>1, <2>1
<1>4. m \in Message
  BY <1>3, Lengths
<1>5. /\ \A j \in 1 .. 2 + Len(m) : all[at[Len(taken)] + j] = Frame(m)[j]
      /\ at[Len(taken) + 1] = at[Len(taken)] + 2 + Len(m)
  BY <1>3, Zenon DEF Stream, FrameOctets, FrameEnds
<1> HIDE DEF m
<1>6. m \in Seq(Octet) /\ Len(m) \in Nat /\ \A j \in 1 .. Len(m) : Frame(m)[2 + j] = m[j]
  BY <1>4, FrameFacts, Zenon
<1>7. /\ octets \in Seq(Octet) /\ Len(octets) = Len(m)
      /\ \A j \in 1 .. Len(m) : octets[j] = all[heard - Len(got) + j]
  <2>1. Len(got) + n = Len(m)
    BY <1>2, Zenon
  <2>2. /\ octets \in Seq(Octet) /\ Len(octets) = Len(got) + n
        /\ \A j \in 1 .. Len(got) + n : octets[j] = all[heard - Len(got) + j]
    BY RecvOctets, Zenon
  <2> QED
    BY <2>1, <2>2, Zenon
<1>8. ASSUME NEW j \in 1 .. Len(m) PROVE octets[j] = m[j]
  <2>1. 2 + j \in 1 .. 2 + Len(m) /\ Len(m) \in Nat
    BY <1>6
  <2>2. heard - Len(got) + j = at[Len(taken)] + (2 + j)
    <3>1. j \in Nat
      OBVIOUS
    <3>2. (at[Len(taken)] + 2 + Len(got)) - Len(got) + j = at[Len(taken)] + (2 + j)
      BY <1>1, <3>1, Sums, ZenonT(30)
    <3> QED
      BY <1>2, <3>2, Zenon
  <2> QED
    BY <1>5, <1>6, <1>7, <2>1, <2>2, Zenon
<1>9. octets = m
  BY <1>6, <1>7, <1>8, SeqEqual, Zenon
<1>10. heard + n = at[Len(taken) + 1]
  <2>1. heard + n = at[Len(taken)] + 2 + (Len(got) + n)
    BY <1>1, <1>2, SMTT(30)
  <2> QED
    BY <1>2, <1>5, <2>1, Zenon
<1> QED
  BY <1>2, <1>9, <1>10, Zenon DEF m

(* An octet pays for the wait before it. *)
LEMMA Paid ==
  ASSUME NEW T \in Nat, NEW h \in Nat, NEW n \in Nat \ {0}, NEW w \in 0 .. T,
         NEW k \in Nat, k <= T * h + w
  PROVE  k <= T * (h + n) + 0
<1>1. T * (h + n) = T * h + T * n /\ T * h \in Nat /\ T * n \in Nat
  OBVIOUS
<1>2. T * n >= T
  <2>1. n >= 1
    OBVIOUS
  <2>2. T * n = T + T * (n - 1) /\ T * (n - 1) \in Nat
    BY <2>1
  <2> QED
    BY <2>2
<1> QED
  BY <1>1, <1>2

(* recv returns octets: of a prefix or a body, which are completed or not. *)
LEMMA RecvIInv == ASSUME IInv, NEW n \in 1 .. Len(wire), Recv(n) PROVE IInv'
<1> DEFINE octets == got \o SubSeq(wire, 1, n)
<1>0. end = ""
  BY Zenon DEF Recv
<1>1. /\ wire' = From(wire, n + 1) /\ idle' = 0 /\ heard' = heard + n
      /\ UNCHANGED <<sent, unsent, eof, held>>
  BY Zenon DEF Recv, peerVars
<1>2. \/ Len(octets) = want /\ Complete(octets)
      \/ Len(octets) < want /\ got' = octets /\ UNCHANGED <<reader, want, part, taken, end>>
  BY Zenon DEF Recv
<1>3. TypeOK /\ StreamInv /\ WaitInv
  BY DEF IInv
<1>4. PICK all, at : Stream(all, at)
  BY <1>0, <1>3, Zenon DEF StreamInv
<1>5. /\ octets \in Seq(Octet) /\ Len(octets) = Len(got) + n
      /\ \A j \in 1 .. Len(got) + n : octets[j] = all[heard - Len(got) + j]
  BY <1>3, <1>4, RecvOctets, ZenonT(30)
<1>6. wire' \in Seq(Octet) /\ PendingCount(all)' /\ PendingOctets(all)'
  BY <1>1, <1>3, <1>4, RecvPending, Zenon
<1>7. all \in Seq(Octet) /\ at \in [Nat -> Nat] /\ FrameEnds(all, at)' /\ FrameOctets(all, at)'
  BY <1>1, <1>4, Zenon DEF Stream, FrameEnds, FrameOctets
<1>8. Len(got) \in Nat /\ heard \in Nat /\ heard' \in Nat /\ n \in Nat /\ heard + n = heard'
  <2>1. Len(got) \in Nat /\ heard \in Nat
    BY <1>3, Lengths
  <2> QED
    BY <1>1, <2>1
<1>9. idle' \in 0 .. IoTimeout /\ held' \in Nat /\ heard' \in Nat
  <2>1. 0 \in 0 .. IoTimeout
    BY LimitsKnown
  <2>2. held \in Nat
    BY <1>3, Zenon DEF TypeOK
  <2> QED
    BY <1>1, <1>8, <2>1, <2>2, Zenon
<1>10. WaitInv'
  <2>1. IoTimeout \in Nat /\ n \in Nat \ {0}
    BY LimitsKnown
  <2>2. idle \in 0 .. IoTimeout /\ held \in Nat /\ held <= IoTimeout * heard + idle
    BY <1>3, Zenon DEF TypeOK, WaitInv
  <2>3. held <= IoTimeout * (heard + n) + 0
    BY <1>8, <2>1, <2>2, Paid, Zenon
  <2> QED
    BY <1>1, <2>3, Zenon DEF WaitInv
<1>11. /\ sent' \in Seq(Message) /\ unsent' \in Seq(Octet) /\ eof' \in BOOLEAN
  BY <1>1, <1>3, Zenon DEF TypeOK
<1>12. CASE Len(octets) < want /\ got' = octets /\ UNCHANGED <<reader, want, part, taken, end>>
  <2>1. TypeOK'
    BY <1>3, <1>5, <1>6, <1>9, <1>11, <1>12, Zenon DEF TypeOK
  <2>2. GotOctets(all)'
    <3>1. heard' - Len(got') = heard - Len(got)
      <4>1. Len(got') = Len(got) + n
        BY <1>5, <1>12, Zenon
      <4> HIDE DEF octets
      <4> QED
        BY <1>1, <1>8, <4>1
    <3>2. \A j \in 1 .. Len(got') : got'[j] = all[heard - Len(got) + j]
      BY <1>5, <1>12, Zenon
    <3> QED
      BY <3>1, <3>2, Zenon DEF GotOctets
  <2>3. Taken'
    BY <1>1, <1>4, <1>12, Zenon DEF Stream, Taken
  <2>4. Position(at)'
    <3>1. at[Len(taken)] \in Nat
      BY <1>3, <1>4, Bounds
    <3>2. /\ \A k \in Nat : (at[Len(taken)] + Len(got)) + k = at[Len(taken)] + (Len(got) + k)
          /\ \A k \in Nat : (at[Len(taken)] + 2 + Len(got)) + k = at[Len(taken)] + 2 + (Len(got) + k)
      BY <1>8, <3>1, Sums, Zenon
    <3>3. /\ (at[Len(taken)] + Len(got)) + n = at[Len(taken)] + Len(got')
          /\ (at[Len(taken)] + 2 + Len(got)) + n = at[Len(taken)] + 2 + Len(got')
      BY <1>5, <1>8, <1>12, <3>2, Zenon
    <3>4. Position(at)
      BY <1>4, Zenon DEF Stream
    <3> QED
      BY <1>1, <1>12, <3>3, <3>4, Zenon DEF Position
  <2>5. Stream(all, at)'
    BY <1>6, <1>7, <2>2, <2>3, <2>4, Zenon DEF Stream
  <2> QED
    BY <1>10, <2>1, <2>5, Zenon DEF IInv, StreamInv
<1>13. CASE Len(octets) = want /\ part = "prefix" /\ Complete(octets)
  <2>1. want = 2
    BY <1>4, <1>13, Zenon DEF Stream, Position
  <2>2. Len(got) + n = 2
    BY <1>5, <1>13, <2>1, Zenon
  <2>3. /\ Len(taken) < Len(sent) /\ sent[Len(taken) + 1] \in Message
        /\ Declared(octets) = Len(sent[Len(taken) + 1])
        /\ heard + n = at[Len(taken)] + 2
    BY <1>3, <1>4, <1>13, <2>2, PrefixRead, Zenon
  <2>4. CASE \E reason \in {"format", "eof"} : GiveUp(reason)
    <3>1. end' \in {"format", "eof"} /\ UNCHANGED <<reader, want, got, part, taken>>
      BY <2>4, Zenon DEF GiveUp
    <3>2. end' # "" /\ end' \in {"", "format", "eof", "timeout"}
      BY <3>1, Zenon
    <3>3. TypeOK'
      BY <1>3, <1>6, <1>9, <1>11, <3>1, <3>2, Zenon DEF TypeOK
    <3> QED
      BY <1>10, <3>2, <3>3, Zenon DEF IInv, StreamInv
  <2>5. CASE /\ Declared(octets) >= (IF reader = "_next" THEN HeaderSize ELSE 1)
             /\ part' = "body" /\ want' = Declared(octets) /\ got' = <<>>
             /\ UNCHANGED <<reader, taken, end>>
    <3> DEFINE m == sent[Len(taken) + 1]
    <3>1. Len(m) \in Nat /\ Len(m) < Radix * Radix /\ want' = Len(m)
      BY <2>3, <2>5, FrameFacts, Zenon
    <3>2. Len(m) >= 1
      <4>1. Len(m) >= (IF reader = "_next" THEN HeaderSize ELSE 1)
        BY <2>3, <2>5, Zenon
      <4> HIDE DEF m
      <4>2. CASE reader = "_next"
        <5>1. Len(m) >= HeaderSize
          BY <4>1, <4>2, Zenon
        <5> QED
          BY <3>1, <5>1, LimitsKnown
      <4>3. CASE reader # "_next"
        BY <4>1, <4>3, Zenon
      <4> QED
        BY <4>2, <4>3, Zenon
    <3>3. want' \in 1 .. Radix * Radix
      <4> HIDE DEF m
      <4>1. Radix * Radix \in Nat
        BY RadixKnown
      <4>2. Len(m) \in 1 .. Radix * Radix
        BY <3>1, <3>2, <4>1
      <4> QED
        BY <3>1, <4>2, Zenon
    <3>4. got' \in Seq(Octet) /\ Len(got') = 0
      BY <2>5
    <3>5. Len(got') < want'
      BY <3>3, <3>4
    <3>6. TypeOK'
      BY <1>3, <1>6, <1>9, <1>11, <2>5, <3>3, <3>4, <3>5, Zenon DEF TypeOK
    <3>7. GotOctets(all)'
      <4>1. \A j \in 1 .. Len(got') : FALSE
        BY <3>4
      <4> QED
        BY <4>1, Zenon DEF GotOctets
    <3>8. Taken'
      BY <1>1, <1>4, <2>5, Zenon DEF Stream, Taken
    <3>9. Position(at)'
      <4>1. at[Len(taken)] + 2 + Len(got') = at[Len(taken)] + 2
        <5>1. at[Len(taken)] \in Nat
          BY <1>3, <1>4, Bounds
        <5> QED
          BY <3>4, <5>1
      <4> QED
        BY <1>1, <2>3, <2>5, <3>1, <4>1, Zenon DEF Position
    <3>10. Stream(all, at)'
      BY <1>6, <1>7, <3>7, <3>8, <3>9, Zenon DEF Stream
    <3> QED
      BY <1>10, <3>6, <3>10, Zenon DEF IInv, StreamInv
  <2> QED
    BY <1>13, <2>4, <2>5, Zenon DEF Complete
<1>14. CASE Len(octets) = want /\ part = "body" /\ Complete(octets)
  <2>1. /\ taken' = Append(taken, octets) /\ reader' \in {"recv_frame", "_next"}
        /\ part' = "prefix" /\ want' = 2 /\ got' = <<>> /\ UNCHANGED end
    BY <1>14, Zenon DEF Complete
  <2>2. Len(got) + n = want
    BY <1>5, <1>14, Zenon
  <2>3. /\ Len(taken) < Len(sent) /\ octets = sent[Len(taken) + 1]
        /\ heard + n = at[Len(taken) + 1]
    BY <1>3, <1>4, <1>14, <2>2, BodyRead, Zenon
  <2>4. taken \in Seq(Seq(Octet)) /\ Len(taken) \in Nat /\ Len(sent) \in Nat
    BY <1>3, Lengths
  <2>5. octets \in Seq(Octet)
    BY <1>5, Zenon
  <2> HIDE DEF octets
  <2>6. /\ taken' \in Seq(Seq(Octet)) /\ Len(taken') = Len(taken) + 1
        /\ \A i \in 1 .. Len(taken) : taken'[i] = taken[i]
        /\ taken'[Len(taken) + 1] = octets
    BY <2>1, <2>4, <2>5, AppendProperties
  <2>7. got' \in Seq(Octet) /\ Len(got') = 0 /\ Len(got') < want' /\ want' \in 1 .. Radix * Radix
    BY <2>1, RadixKnown
  <2>8. TypeOK'
    BY <1>3, <1>6, <1>9, <1>11, <2>1, <2>6, <2>7, Zenon DEF TypeOK
  <2>9. Taken'
    <3>1. Len(taken') <= Len(sent)
      <4>1. Len(taken') = Len(taken) + 1 /\ Len(taken) < Len(sent)
        BY <2>3, <2>6, Zenon
      <4>2. Len(taken) \in Nat /\ Len(sent) \in Nat
        BY <2>4, Zenon
      <4> QED
        BY <4>1, <4>2
    <3>2. \A i \in 1 .. Len(taken') : i \in 1 .. Len(taken) \/ i = Len(taken) + 1
      <4>1. Len(taken') = Len(taken) + 1
        BY <2>6, Zenon
      <4>2. Len(taken) \in Nat
        BY <2>4, Zenon
      <4> QED
        BY <4>1, <4>2
    <3>3. \A i \in 1 .. Len(taken) : taken[i] = sent[i]
      BY <1>4, Zenon DEF Stream, Taken
    <3>4. \A i \in 1 .. Len(taken') : taken'[i] = sent[i]
      BY <2>3, <2>6, <3>2, <3>3, Zenon
    <3> QED
      BY <1>1, <3>1, <3>4, Zenon DEF Taken
  <2>10. Position(at)'
    <3>1. at[Len(taken) + 1] + Len(got') = at[Len(taken) + 1]
      <4>1. at[Len(taken) + 1] \in Nat
        <5>1. heard' = at[Len(taken) + 1]
          BY <1>1, <2>3, Zenon
        <5> QED
          BY <1>8, <5>1, Zenon
      <4>2. Len(got') = 0
        BY <2>7, Zenon
      <4> QED
        BY <4>1, <4>2
    <3> QED
      BY <1>1, <2>1, <2>3, <2>6, <3>1, Zenon DEF Position
  <2>11. GotOctets(all)'
    <3>1. \A j \in 1 .. Len(got') : FALSE
      BY <2>7
    <3> QED
      BY <3>1, Zenon DEF GotOctets
  <2>12. Stream(all, at)'
    BY <1>6, <1>7, <2>9, <2>10, <2>11, Zenon DEF Stream
  <2> QED
    BY <1>10, <2>8, <2>12, Zenon DEF IInv, StreamInv
<1> QED
  <2>1. part = "prefix" \/ part = "body"
    BY <1>3, Zenon DEF TypeOK
  <2> QED
    BY <1>2, <1>12, <1>13, <1>14, <2>1, Zenon

(* The readers give up: what they were promised ends here. *)
LEMMA StopIInv == ASSUME IInv, RecvEof \/ RecvTimesOut PROVE IInv'
<1>1. /\ end' \in {"eof", "timeout"}
      /\ UNCHANGED <<sent, unsent, eof, wire, reader, want, got, part, taken, idle, held, heard>>
  BY Zenon DEF RecvEof, RecvTimesOut, GiveUp, peerVars, clockVars
<1>2. end' # "" /\ end' \in {"", "format", "eof", "timeout"}
  BY <1>1, Zenon
<1>3. TypeOK /\ WaitInv
  BY DEF IInv
<1>4. TypeOK' /\ WaitInv'
  BY <1>1, <1>2, <1>3, Zenon DEF TypeOK, WaitInv
<1> QED
  BY <1>2, <1>4, Zenon DEF IInv, StreamInv

(* Every step of the peer, the network, the clock and the readers. *)
LEMMA NextIInv == ASSUME IInv, [Next]_vars PROVE IInv'
<1>1. ASSUME NEW m \in Message, Put(m) PROVE IInv'
  BY <1>1, PutIInv, Zenon
<1>2. ASSUME NEW n \in 1 .. Len(unsent), Arrive(n) PROVE IInv'
  BY <1>2, ArriveIInv, Zenon
<1>3. ASSUME NEW n \in 1 .. Len(wire), Recv(n) PROVE IInv'
  BY <1>3, RecvIInv, Zenon
<1>4. CASE Shut
  BY <1>4, ShutIInv, Zenon
<1>5. CASE Tick
  BY <1>5, TickIInv, Zenon
<1>6. CASE RecvEof \/ RecvTimesOut
  BY <1>6, StopIInv, Zenon
<1>7. CASE UNCHANGED vars
  <2>1. TypeOK /\ StreamInv /\ WaitInv
    BY DEF IInv
  <2>2. UNCHANGED <<sent, unsent, eof, wire, reader, want, got, part, taken, end, idle, held, heard>>
    BY <1>7, Zenon DEF vars, peerVars, readVars, clockVars
  <2>3. TypeOK' /\ WaitInv'
    BY <2>1, <2>2, Zenon DEF TypeOK, WaitInv
  <2>4. StreamInv'
    <3>1. CASE end = ""
      <4>1. PICK all, at : Stream(all, at)
        BY <2>1, <3>1, Zenon DEF StreamInv
      <4>2. Stream(all, at)'
        BY <2>2, <4>1, Zenon
           DEF Stream, FrameEnds, FrameOctets, PendingCount, PendingOctets, Taken, Position, GotOctets
      <4> QED
        BY <4>2, Zenon DEF StreamInv
    <3>2. CASE end # ""
      BY <2>2, <3>2, Zenon DEF StreamInv
    <3> QED
      BY <3>1, <3>2, Zenon
  <2> QED
    BY <2>3, <2>4, Zenon DEF IInv
<1> QED
  BY <1>1, <1>2, <1>3, <1>4, <1>5, <1>6, <1>7, Zenon DEF Next, Read

(* The invariant: the frames of the stream lie where the readers count on  *)
(* them while nobody has given up, and the waits are paid for.             *)
THEOREM Invariant == Spec => []IInv
<1>1. Init => IInv
  BY InitIInv
<1>2. IInv /\ [Next]_vars => IInv'
  BY NextIInv
<1> QED
  BY <1>1, <1>2, PTL DEF Spec

-----------------------------------------------------------------------------
(* A slow peer holds a reader for at most one timeout more than it has     *)
(* sent octets, however it cuts them (recv_exact, whose timeout is per     *)
(* recv).                                                                  *)
THEOREM WaitsArePaid == Spec => []HeldBounded
<1>1. IInv => HeldBounded
  <2> SUFFICES ASSUME IInv PROVE HeldBounded
    OBVIOUS
  <2>1. TypeOK /\ held <= IoTimeout * heard + idle
    BY Zenon DEF IInv, WaitInv
  <2>2. idle \in 0 .. IoTimeout /\ held \in Nat /\ heard \in Nat
    BY <2>1, Zenon DEF TypeOK
  <2>3. held <= IoTimeout * (heard + 1) + 0
    <3>1. 1 \in Nat \ {0}
      OBVIOUS
    <3> QED
      BY <2>1, <2>2, <3>1, LimitsKnown, Paid, Zenon
  <2>4. held <= IoTimeout * (heard + 1)
    <3>1. IoTimeout * (heard + 1) \in Nat
      BY <2>2, LimitsKnown
    <3> QED
      BY <2>3, <3>1
  <2> QED
    BY <2>1, <2>4, Zenon DEF HeldBounded
<1> QED
  BY <1>1, Invariant, PTL

(* A completed body is the next message of the peer: Channel!Take. *)
LEMMA RecvIsTake ==
  ASSUME IInv, NEW n \in 1 .. Len(wire), Recv(n) PROVE [Channel!Next]_Channel!vars
<1> DEFINE octets == got \o SubSeq(wire, 1, n)
<1>1. end = "" /\ UNCHANGED sent
  BY Zenon DEF Recv, peerVars
<1>2. \/ Len(octets) = want /\ Complete(octets)
      \/ Len(octets) < want /\ UNCHANGED <<taken, end>>
  BY Zenon DEF Recv
<1>3. TypeOK /\ StreamInv
  BY DEF IInv
<1>4. PICK all, at : Stream(all, at)
  BY <1>1, <1>3, Zenon DEF StreamInv
<1>5. Len(octets) = Len(got) + n
  BY <1>3, <1>4, RecvOctets, Zenon
<1>6. CASE UNCHANGED <<taken, end>>
  BY <1>1, <1>6, Zenon DEF Channel!vars
<1>7. CASE end' # "" /\ UNCHANGED taken
  <2>1. Channel!End
    BY <1>1, <1>7, Zenon DEF Channel!End
  <2> QED
    BY <2>1, Zenon DEF Channel!Next
<1>8. CASE /\ Len(octets) = want /\ part = "body"
           /\ taken' = Append(taken, octets) /\ UNCHANGED end
  <2>1. Len(got) + n = want
    BY <1>5, <1>8, Zenon
  <2>2. Len(taken) < Len(sent) /\ octets = sent[Len(taken) + 1]
    BY <1>3, <1>4, <1>8, <2>1, BodyRead, Zenon
  <2>3. Channel!Take
    BY <1>1, <1>8, <2>2, Zenon DEF Channel!Take
  <2> QED
    BY <2>3, Zenon DEF Channel!Next
<1>9. Complete(octets) => \/ UNCHANGED <<taken, end>>
                          \/ end' # "" /\ UNCHANGED taken
                          \/ /\ part = "body" /\ taken' = Append(taken, octets) /\ UNCHANGED end
  <2>1. \A reason \in {"format", "eof"} : GiveUp(reason) => end' # "" /\ UNCHANGED taken
    BY Zenon DEF GiveUp
  <2> QED
    BY <2>1, Zenon DEF Complete
<1> QED
  BY <1>2, <1>6, <1>7, <1>8, <1>9, Zenon

(* Whatever the cuts of the stream, and whichever of recv_frame and _next  *)
(* reads the next message, the two take the peer's messages whole, each    *)
(* once and in order.                                                      *)
THEOREM ReadersImplementChannel == Spec => ImplementsChannel
<1>1. Init => Channel!Init
  BY Zenon DEF Init, Channel!Init
<1>2. IInv /\ [Next]_vars => [Channel!Next]_Channel!vars
  <2> SUFFICES ASSUME IInv, [Next]_vars PROVE [Channel!Next]_Channel!vars
    OBVIOUS
  <2>1. ASSUME NEW m \in Message, Put(m) PROVE Channel!Put(m)
    BY <2>1, Zenon DEF Put, readVars, Channel!Put
  <2>2. ASSUME NEW n \in 1 .. Len(wire), Recv(n) PROVE [Channel!Next]_Channel!vars
    BY <2>2, RecvIsTake, Zenon
  <2>3. CASE RecvEof \/ RecvTimesOut
    <3>1. sent' = sent /\ taken' = taken /\ end' # ""
      BY <2>3, Zenon DEF RecvEof, RecvTimesOut, GiveUp, peerVars
    <3>2. Channel!End
      BY <3>1, Zenon DEF Channel!End, RecvEof, RecvTimesOut, Waiting
    <3> QED
      BY <3>2, Zenon DEF Channel!Next
  <2>4. CASE (\E n \in 1 .. Len(unsent) : Arrive(n)) \/ Shut \/ Tick \/ UNCHANGED vars
    <3>1. sent' = sent /\ taken' = taken /\ end' = end
      BY <2>4, Zenon DEF Arrive, Shut, Tick, vars, peerVars, readVars
    <3> QED
      BY <3>1, Zenon DEF Channel!vars
  <2> QED
    BY <2>1, <2>2, <2>3, <2>4, Zenon DEF Next, Read, Channel!Next
<1>3. Spec => Channel!Spec
  BY <1>1, <1>2, Invariant, PTL DEF Spec, Channel!Spec
<1> QED
  BY <1>3 DEF ImplementsChannel

=============================================================================
