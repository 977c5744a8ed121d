--------------------------- MODULE SequenceFacts ----------------------------
(***************************************************************************)
(* What the proofs need of sequences beyond SequenceTheorems, and          *)
(* induction over the numbers that sequences are indexed by.  Elements     *)
(* that move from the front of one sequence to the end of another, as      *)
(* octets do that are written, read or put together, leave the two         *)
(* together as they were.                                                  *)
(***************************************************************************)
EXTENDS Integers, Sequences, SequenceTheorems, WellFoundedInduction, TLAPS

(* A sequence is its first element and the rest. *)
LEMMA HeadAndTail ==
  ASSUME NEW S, NEW t \in Seq(S), t # <<>>
  PROVE  Head(t) \in S /\ Tail(t) \in Seq(S) /\ t = <<Head(t)>> \o Tail(t)
<1>1. 1 \in 1 .. Len(t) /\ Len(t) \in 1 .. Len(t) /\ Head(t) = t[1]
  BY EmptySeq
<1>2. SubSeq(t, 1, Len(t)) = <<t[1]>> \o SubSeq(t, 2, Len(t))
  BY <1>1, SubSeqRecursiveFirst
<1>3. SubSeq(t, 1, Len(t)) = t /\ Tail(t) = SubSeq(t, 2, Len(t))
  BY SubSeqFull, TailIsSubSeq
<1> QED
  BY <1>1, <1>2, <1>3, HeadTailProperties

(* The first n elements and the rest. *)
LEMMA FrontAndRest ==
  ASSUME NEW S, NEW t \in Seq(S), NEW n \in 0 .. Len(t)
  PROVE  /\ SubSeq(t, 1, n) \in Seq(S) /\ SubSeq(t, n + 1, Len(t)) \in Seq(S)
         /\ Len(SubSeq(t, 1, n)) = n /\ Len(SubSeq(t, n + 1, Len(t))) = Len(t) - n
         /\ SubSeq(t, 1, n) \o SubSeq(t, n + 1, Len(t)) = t
<1>1. /\ Len(t) \in Nat /\ 1 \in 1 .. Len(t) + 1 /\ n \in 1 - 1 .. Len(t) /\ Len(t) \in n .. Len(t)
      /\ \A i \in 1 .. Len(t) : t[i] \in S
  OBVIOUS
<1>2. SubSeq(t, 1, n) \o SubSeq(t, n + 1, Len(t)) = SubSeq(t, 1, Len(t))
  BY <1>1, ConcatAdjacentSubSeq
<1>3. SubSeq(t, 1, Len(t)) = t
  BY SubSeqFull
<1>4. SubSeq(t, 1, n) \in Seq(S) /\ Len(SubSeq(t, 1, n)) = n
  <2>1. \A i \in 1 .. n : t[i] \in S
    BY <1>1
  <2>2. /\ SubSeq(t, 1, n) \in Seq(S)
        /\ Len(SubSeq(t, 1, n)) = IF 1 <= n THEN n - 1 + 1 ELSE 0
    BY <2>1, SubSeqProperties
  <2> QED
    BY <2>2
<1>5. SubSeq(t, n + 1, Len(t)) \in Seq(S) /\ Len(SubSeq(t, n + 1, Len(t))) = Len(t) - n
  <2>1. \A i \in n + 1 .. Len(t) : t[i] \in S
    BY <1>1
  <2>2. /\ SubSeq(t, n + 1, Len(t)) \in Seq(S)
        /\ Len(SubSeq(t, n + 1, Len(t))) = IF n + 1 <= Len(t) THEN Len(t) - (n + 1) + 1 ELSE 0
    BY <1>1, <2>1, SubSeqProperties
  <2> QED
    BY <1>1, <2>2
<1> QED
  BY <1>2, <1>3, <1>4, <1>5

(* What a sequence ends with is not changed by an element before it: the   *)
(* end from b on of s with one more element.                               *)
LEMMA EndAppended ==
  ASSUME NEW S, NEW s \in Seq(S), NEW e \in S, NEW b \in 1 .. Len(s) + 1
  PROVE  /\ SubSeq(s, b, Len(s)) \in Seq(S)
         /\ SubSeq(Append(s, e), b, Len(s) + 1) = SubSeq(s, b, Len(s)) \o <<e>>
<1> DEFINE u == Append(s, e)
<1>1. /\ u \in Seq(S) /\ Len(u) = Len(s) + 1 /\ u[Len(s) + 1] = e /\ Len(s) \in Nat
      /\ \A i \in 1 .. Len(s) : u[i] = s[i] /\ s[i] \in S
  BY AppendProperties
<1> HIDE DEF u
<1>2. SubSeq(u, b, Len(s) + 1) = SubSeq(u, b, Len(s)) \o <<e>>
  <2>1. b \in 1 .. Len(u) /\ Len(u) \in b .. Len(u) /\ Len(u) - 1 = Len(s)
    BY <1>1
  <2>2. SubSeq(u, b, Len(u)) = SubSeq(u, b, Len(u) - 1) \o <<u[Len(u)]>>
    BY <1>1, <2>1, SubSeqRecursiveSecond
  <2> QED
    BY <1>1, <2>1, <2>2
<1>3. SubSeq(u, b, Len(s)) = SubSeq(s, b, Len(s)) /\ SubSeq(s, b, Len(s)) \in Seq(S)
  <2>1. /\ \A i \in b .. Len(s) : u[i] \in S /\ s[i] \in S /\ u[i] = s[i]
        /\ b \in Int /\ Len(s) \in Int
    BY <1>1
  <2>2. /\ SubSeq(u, b, Len(s)) \in Seq(S)
        /\ Len(SubSeq(u, b, Len(s))) = IF b <= Len(s) THEN Len(s) - b + 1 ELSE 0
        /\ \A i \in 1 .. Len(s) - b + 1 : SubSeq(u, b, Len(s))[i] = u[b + i - 1]
    BY <2>1, SubSeqProperties
  <2>3. /\ SubSeq(s, b, Len(s)) \in Seq(S)
        /\ Len(SubSeq(s, b, Len(s))) = IF b <= Len(s) THEN Len(s) - b + 1 ELSE 0
        /\ \A i \in 1 .. Len(s) - b + 1 : SubSeq(s, b, Len(s))[i] = s[b + i - 1]
    BY <2>1, SubSeqProperties
  <2> DEFINE x == SubSeq(u, b, Len(s))  y == SubSeq(s, b, Len(s))
  <2>4. x \in Seq(S) /\ y \in Seq(S) /\ Len(x) = Len(y)
    BY <2>2, <2>3
  <2>5. \A i \in 1 .. Len(x) : x[i] = y[i]
    <3> SUFFICES ASSUME NEW i \in 1 .. Len(x) PROVE x[i] = y[i]
      OBVIOUS
    <3>1. i \in 1 .. Len(s) - b + 1
      BY <1>1, <2>2
    <3>2. b + i - 1 \in b .. Len(s)
      BY <1>1, <3>1
    <3> QED
      BY <2>1, <2>2, <2>3, <3>1, <3>2
  <2> HIDE DEF x, y
  <2>6. x = y
    BY <2>4, <2>5, SeqEqual
  <2> QED
    BY <2>3, <2>6 DEF x, y
<1> QED
  BY <1>2, <1>3 DEF u

(* An element moves from the front of t to the end of s. *)
LEMMA MoveOne ==
  ASSUME NEW S, NEW s \in Seq(S), NEW t \in Seq(S), t # <<>>, NEW b \in 1 .. Len(s) + 1
  PROVE  SubSeq(Append(s, Head(t)), b, Len(s) + 1) \o Tail(t) = SubSeq(s, b, Len(s)) \o t
<1>1. Head(t) \in S /\ Tail(t) \in Seq(S) /\ t = <<Head(t)>> \o Tail(t)
  BY HeadAndTail
<1>2. /\ SubSeq(s, b, Len(s)) \in Seq(S)
      /\ SubSeq(Append(s, Head(t)), b, Len(s) + 1) = SubSeq(s, b, Len(s)) \o <<Head(t)>>
  BY <1>1, EndAppended
<1>3. <<Head(t)>> \in Seq(S)
  BY <1>1
<1>4. (SubSeq(s, b, Len(s)) \o <<Head(t)>>) \o Tail(t) = SubSeq(s, b, Len(s)) \o (<<Head(t)>> \o Tail(t))
  BY <1>1, <1>2, <1>3, ConcatAssociative, SMTT(60)
<1> QED
  BY <1>1, <1>2, <1>4

-----------------------------------------------------------------------------
(* The same element by element: of two sequences put together, ...         *)
LEMMA ConcatElements ==
  ASSUME NEW S, NEW s \in Seq(S), NEW t \in Seq(S)
  PROVE  /\ s \o t \in Seq(S) /\ Len(s \o t) = Len(s) + Len(t)
         /\ \A i \in 1 .. Len(s) : (s \o t)[i] = s[i]
         /\ \A i \in 1 .. Len(t) : (s \o t)[Len(s) + i] = t[i]
<1>1. /\ s \o t \in Seq(S) /\ Len(s \o t) = Len(s) + Len(t) /\ Len(s) \in Nat /\ Len(t) \in Nat
      /\ \A i \in 1 .. Len(s) + Len(t) : (s \o t)[i] = IF i <= Len(s) THEN s[i] ELSE t[i - Len(s)]
  BY ConcatProperties
<1>2. ASSUME NEW i \in 1 .. Len(s) PROVE (s \o t)[i] = s[i]
  <2>1. i \in 1 .. Len(s) + Len(t) /\ i <= Len(s)
    BY <1>1
  <2> QED
    BY <1>1, <2>1
<1>3. ASSUME NEW i \in 1 .. Len(t) PROVE (s \o t)[Len(s) + i] = t[i]
  <2>1. Len(s) + i \in 1 .. Len(s) + Len(t) /\ ~(Len(s) + i <= Len(s)) /\ (Len(s) + i) - Len(s) = i
    BY <1>1
  <2> QED
    BY <1>1, <2>1
<1> QED
  BY <1>1, <1>2, <1>3

(* ... and of a sequence cut in two. *)
LEMMA Cut ==
  ASSUME NEW S, NEW t \in Seq(S), NEW n \in 0 .. Len(t)
  PROVE  /\ SubSeq(t, 1, n) \in Seq(S) /\ Len(SubSeq(t, 1, n)) = n
         /\ \A i \in 1 .. n : SubSeq(t, 1, n)[i] = t[i]
         /\ SubSeq(t, n + 1, Len(t)) \in Seq(S) /\ Len(SubSeq(t, n + 1, Len(t))) = Len(t) - n
         /\ \A i \in 1 .. Len(t) - n : SubSeq(t, n + 1, Len(t))[i] = t[n + i]
<1>1. Len(t) \in Nat /\ n \in Nat /\ \A i \in 1 .. Len(t) : t[i] \in S
  OBVIOUS
<1>2. \A i \in 1 .. n : SubSeq(t, 1, n)[i] = t[i]
  <2>1. \A i \in 1 .. n : t[i] \in S
    BY <1>1
  <2>2. \A i \in 1 .. n - 1 + 1 : SubSeq(t, 1, n)[i] = t[1 + i - 1]
    BY <2>1, SubSeqProperties
  <2> QED
    BY <2>2
<1>3. \A i \in 1 .. Len(t) - n : SubSeq(t, n + 1, Len(t))[i] = t[n + i]
  <2>1. \A i \in n + 1 .. Len(t) : t[i] \in S
    BY <1>1
  <2>2. \A i \in 1 .. Len(t) - (n + 1) + 1 : SubSeq(t, n + 1, Len(t))[i] = t[(n + 1) + i - 1]
    BY <1>1, <2>1, SubSeqProperties
  <2> QED
    BY <1>1, <2>2
<1> QED
  BY <1>2, <1>3, FrontAndRest

-----------------------------------------------------------------------------
(* Induction over the numbers, with a set in place of a property and a     *)
(* function in place of a definition: the form the provers can instantiate.*)

(* Every set of numbers that is not empty has a least element. *)
LEMMA LeastNumber ==
  ASSUME NEW T, T \subseteq Nat, T # {}
  PROVE  \E m \in T : \A k \in T : m <= k
<1> DEFINE R == {ss \in Nat \X Nat : ss[1] < ss[2]}
<1>1. IsWellFoundedOn(R, Nat)
  BY NatLessThanWellFounded DEF OpToRel
<1>2. PICK m \in T : \A k \in T : <<k, m>> \notin R
  <2> HIDE DEF R
  <2> QED
    BY <1>1, WFMin
<1>3. ASSUME NEW k \in T PROVE m <= k
  <2>1. k \in Nat /\ m \in Nat /\ <<k, m>> \notin R
    BY <1>2
  <2> QED
    BY <2>1
<1> QED
  BY <1>3

(* A set with 0 and the successors of its elements has every number. *)
LEMMA Induction ==
  ASSUME NEW T, 0 \in T, \A n \in Nat : n \in T => n + 1 \in T
  PROVE  Nat \subseteq T
<1> DEFINE B == Nat \ T
<1> SUFFICES ASSUME B # {} PROVE FALSE
  OBVIOUS
<1>1. PICK m \in B : \A k \in B : m <= k
  <2>1. B \subseteq Nat
    OBVIOUS
  <2> HIDE DEF B
  <2> QED
    BY <2>1, LeastNumber
<1>2. m \in Nat /\ m # 0 /\ m - 1 \in Nat /\ ~(m <= m - 1)
  OBVIOUS
<1>3. m - 1 \in T
  BY <1>1, <1>2
<1> QED
  BY <1>2, <1>3

(* The same up to a bound. *)
LEMMA InductionTo ==
  ASSUME NEW N \in Nat, NEW T, 0 \in T, \A n \in 1 .. N : n - 1 \in T => n \in T
  PROVE  \A n \in 0 .. N : n \in T
<1> DEFINE U == {n \in Nat : n <= N => n \in T}
<1>1. 0 \in U
  OBVIOUS
<1>2. ASSUME NEW n \in Nat, n \in U PROVE n + 1 \in U
  <2> SUFFICES ASSUME n + 1 <= N PROVE n + 1 \in T
    OBVIOUS
  <2>1. n + 1 \in 1 .. N /\ (n + 1) - 1 = n /\ n \in T
    BY <1>2
  <2> QED
    BY <2>1
<1>3. Nat \subseteq U
  <2> HIDE DEF U
  <2> QED
    BY <1>1, <1>2, Induction
<1> QED
  BY <1>3

(* A function may be defined from its value one before: h[n] is the step   *)
(* from n - 1 to n.                                                        *)
StepsWithin(h, N, S) == \A n \in 1 .. N : \A s \in S : h[n][s] \in S
FollowsSteps(f, x, h, N, S) ==
  /\ f \in [0 .. N -> S] /\ f[0] = x
  /\ \A n \in 1 .. N : f[n] = h[n][f[n - 1]]

LEMMA Recursion ==
  ASSUME NEW N \in Nat, NEW S, NEW x \in S, NEW h, StepsWithin(h, N, S)
  PROVE  \E f : FollowsSteps(f, x, h, N, S)
<1> DEFINE Done(m) == \E f \in [0 .. m -> S] : f[0] = x /\ \A n \in 1 .. m : f[n] = h[n][f[n - 1]]
           T == {m \in Nat : m <= N => Done(m)}
<1>1. 0 \in T
  <2> DEFINE f == [n \in 0 .. 0 |-> x]
  <2>1. f \in [0 .. 0 -> S] /\ f[0] = x /\ 1 .. 0 = {}
    OBVIOUS
  <2>2. Done(0)
    BY <2>1
  <2> QED
    BY <2>2
<1>2. ASSUME NEW m \in Nat, m \in T PROVE m + 1 \in T
  <2> SUFFICES ASSUME m + 1 <= N PROVE Done(m + 1)
    OBVIOUS
  <2>1. PICK f \in [0 .. m -> S] : f[0] = x /\ \A n \in 1 .. m : f[n] = h[n][f[n - 1]]
    BY <1>2
  <2> DEFINE g == [n \in 0 .. m + 1 |-> IF n = m + 1 THEN h[m + 1][f[m]] ELSE f[n]]
  <2>2. h[m + 1][f[m]] \in S
    <3>1. f[m] \in S /\ m + 1 \in 1 .. N
      OBVIOUS
    <3> QED
      BY <3>1 DEF StepsWithin
  <2>3. g \in [0 .. m + 1 -> S] /\ g[0] = x
    BY <2>1, <2>2
  <2>4. ASSUME NEW n \in 1 .. m + 1 PROVE g[n] = h[n][g[n - 1]]
    <3>1. n - 1 \in 0 .. m /\ n - 1 \in 0 .. m + 1 /\ n - 1 # m + 1 /\ n \in 0 .. m + 1
      OBVIOUS
    <3>2. g[n - 1] = f[n - 1]
      BY <3>1
    <3>3. CASE n = m + 1
      <4>1. n - 1 = m /\ g[n] = h[n][f[m]]
        BY <3>3, <3>1
      <4> QED
        BY <4>1, <3>2
    <3>4. CASE n # m + 1
      <4>1. n \in 1 .. m /\ g[n] = f[n]
        BY <3>4, <3>1
      <4> QED
        BY <4>1, <3>2, <2>1
    <3> QED
      BY <3>3, <3>4
  <2> HIDE DEF g
  <2> QED
    BY <2>3, <2>4
<1>3. N \in T
  <2> HIDE DEF T
  <2> QED
    BY <1>1, <1>2, Induction
<1>4. PICK f \in [0 .. N -> S] : f[0] = x /\ \A n \in 1 .. N : f[n] = h[n][f[n - 1]]
  BY <1>3
<1> QED
  BY <1>4 DEF FollowsSteps

=============================================================================
