------------------------- MODULE QuestionNameProofs -------------------------
(***************************************************************************)
(* Theorems about QuestionName, for any messages, any names, any number of *)
(* turns of the loop and any suffix.                                       *)
(***************************************************************************)
EXTENDS QuestionName, SequenceFacts, FiniteSetTheorems

Octets == 0 .. 255
Place == Nat \cup {Nowhere}

-----------------------------------------------------------------------------
(* The octets of a message, what begins at one of them, and the path.      *)

LEMMA OctetIsNumber == ASSUME NEW b \in Octets PROVE b \in Nat
BY DEF Octets

LEMMA SixBits == ASSUME NEW a \in Nat PROVE a % 64 \in Nat
OBVIOUS

LEMMA KindsDiffer ==
  ASSUME NEW b \in Nat
  PROVE  ~(b >= 192 /\ b \in 1 .. 63) /\ ~(b = 0 /\ b >= 192) /\ ~(b = 0 /\ b \in 1 .. 63)
OBVIOUS

LEMMA OctetType ==
  ASSUME message \in Seq(Octets), NEW o \in Nat, Inside(o)
  PROVE  Octet(o) \in Octets /\ Octet(o) \in Nat
<1>1. o + 1 \in 1 .. Len(message)
  BY DEF Inside
<1>2. Octet(o) \in Octets
  BY <1>1 DEF Octet
<1> QED
  BY <1>2, OctetIsNumber

(* Pointers, labels and roots exclude each other, and what a pointer or a  *)
(* label leads to is in the message or right behind a label.               *)
LEMMA Begins ==
  ASSUME message \in Seq(Octets), NEW o \in Nat
  PROVE  /\ ~(IsPointer(o) /\ IsLabel(o)) /\ ~(IsRoot(o) /\ (IsPointer(o) \/ IsLabel(o)))
         /\ IsPointer(o) => Target(o) \in Nat /\ Target(o) < Len(message) /\ o + 1 < Len(message)
         /\ IsLabel(o) => /\ Octet(o) \in 1 .. 63 /\ o + 1 + Octet(o) \in Nat
                          /\ o + 1 + Octet(o) <= Len(message)
         /\ IsRoot(o) => o < Len(message)
<1>1. ~(IsPointer(o) /\ IsLabel(o)) /\ ~(IsRoot(o) /\ (IsPointer(o) \/ IsLabel(o)))
  <2>1. Inside(o) => Octet(o) \in Nat
    BY OctetType
  <2> QED
    BY <2>1, KindsDiffer, Zenon DEF IsPointer, IsLabel, IsRoot
<1>2. ASSUME IsPointer(o) PROVE Target(o) \in Nat /\ Target(o) < Len(message) /\ o + 1 < Len(message)
  <2>1. Octet(o) \in Nat /\ Octet(o + 1) \in Nat
    BY <1>2, OctetType DEF IsPointer
  <2>2. Target(o) \in Nat
    BY <2>1, SixBits DEF Target
  <2> QED
    BY <1>2, <2>2 DEF IsPointer, Inside
<1>3. ASSUME IsLabel(o)
      PROVE Octet(o) \in 1 .. 63 /\ o + 1 + Octet(o) \in Nat /\ o + 1 + Octet(o) <= Len(message)
  <2>1. Octet(o) \in 1 .. 63 /\ Octet(o) \in Nat /\ o + Octet(o) < Len(message)
    BY <1>3, OctetType DEF IsLabel
  <2>2. Len(message) \in Nat
    OBVIOUS
  <2> QED
    BY <2>1
<1> QED
  BY <1>1, <1>2, <1>3 DEF IsRoot, Inside

LEMMA HopType ==
  ASSUME message \in Seq(Octets), NEW o \in Place
  PROVE  Hop(o) \in Place
<1>1. CASE o = Nowhere
  BY <1>1 DEF Hop, Place
<1>2. CASE o # Nowhere
  <2>1. o \in Nat
    BY <1>2 DEF Place
  <2> QED
    BY <2>1, Begins DEF Hop, Place
<1> QED
  BY <1>1, <1>2

LEMMA PathFacts ==
  ASSUME message \in Seq(Octets)
  PROVE  /\ Path \in [0 .. MaxSteps -> Place] /\ Path[0] = Start
         /\ \A n \in 1 .. MaxSteps : Path[n] = Hop(Path[n - 1])
<1> DEFINE Is(p) == p = [n \in 0 .. MaxSteps |-> IF n = 0 THEN Start ELSE Hop(p[n - 1])]
           h == [n \in 1 .. MaxSteps |-> [o \in Place |-> Hop(o)]]
<1>1. MaxSteps \in Nat /\ Start \in Place
  BY SizeAssumption DEF Place
<1>2. \A n \in 1 .. MaxSteps, o \in Place : h[n][o] = Hop(o)
  OBVIOUS
<1>2a. StepsWithin(h, MaxSteps, Place)
  BY <1>2, HopType DEF StepsWithin
<1>3. PICK f : FollowsSteps(f, Start, h, MaxSteps, Place)
  <2> HIDE DEF h
  <2> QED
    BY <1>1, <1>2a, Recursion
<1>3a. /\ f \in [0 .. MaxSteps -> Place] /\ f[0] = Start
       /\ \A n \in 1 .. MaxSteps : f[n] = h[n][f[n - 1]]
  BY <1>3 DEF FollowsSteps
<1>4. \A n \in 1 .. MaxSteps : f[n] = Hop(f[n - 1])
  <2> HIDE DEF h
  <2> SUFFICES ASSUME NEW n \in 1 .. MaxSteps PROVE f[n] = Hop(f[n - 1])
    OBVIOUS
  <2>1. n - 1 \in 0 .. MaxSteps
    BY <1>1
  <2> QED
    BY <1>2, <1>3a, <2>1
<1>5. Is(f)
  <2> DEFINE g == [n \in 0 .. MaxSteps |-> IF n = 0 THEN Start ELSE Hop(f[n - 1])]
  <2>1. ASSUME NEW n \in 0 .. MaxSteps PROVE f[n] = g[n]
    <3>1. n # 0 => n \in 1 .. MaxSteps
      BY <1>1
    <3> QED
      BY <1>3a, <1>4, <3>1
  <2>2. f = g
    BY <1>3a, <2>1
  <2> QED
    BY <2>2
<1>6. Is(Path)
  <2>1. Path = CHOOSE p : Is(p)
    BY DEF Path
  <2> HIDE DEF Is
  <2> QED
    BY <1>5, <2>1
<1> DEFINE T == {n \in 0 .. MaxSteps : Path[n] \in Place}
<1>7. \A n \in 0 .. MaxSteps : n \in T
  <2>1. 0 \in T
    BY <1>1, <1>6
  <2>2. ASSUME NEW n \in 1 .. MaxSteps, n - 1 \in T PROVE n \in T
    <3>1. Path[n] = Hop(Path[n - 1])
      BY <1>1, <1>6
    <3> QED
      BY <2>2, <3>1, HopType
  <2> HIDE DEF T
  <2> QED
    BY <1>1, <2>1, <2>2, InductionTo
<1>8. \A n \in 0 .. MaxSteps : Path[n] \in Place
  BY <1>1, <1>7
<1> QED
  BY <1>1, <1>6, <1>8

(* The labels on the path, one more whenever a label begins at a hop. *)
LabelAt(o) == IF o # Nowhere /\ IsLabel(o) THEN <<Span(o + 1, Octet(o))>> ELSE <<>>
Text == Seq(Octets)

LEMMA SpanFacts ==
  ASSUME message \in Seq(Octets), NEW o \in Nat, NEW n \in Nat, o + 1 + n <= Len(message)
  PROVE  /\ Span(o + 1, n) \in Text /\ Len(Span(o + 1, n)) = n
         /\ \A i \in 1 .. n : Span(o + 1, n)[i] = message[o + 1 + i]
<1> DEFINE a == o + 2  b == o + 1 + n
<1>1. b \in Nat /\ b <= Len(message) /\ a \in Nat /\ a > 0
  OBVIOUS
<1>2. \A i \in a .. b : message[i] \in Octets
  BY <1>1
<1>3. /\ SubSeq(message, a, b) \in Seq(Octets)
      /\ Len(SubSeq(message, a, b)) = IF a <= b THEN b - a + 1 ELSE 0
      /\ \A i \in 1 .. b - a + 1 : SubSeq(message, a, b)[i] = message[a + i - 1]
  <2> HIDE DEF a, b
  <2> QED
    BY <1>1, <1>2, SubSeqProperties
<1>4. Span(o + 1, n) = SubSeq(message, a, b)
  BY <1>1 DEF Span
<1>5. b - a + 1 = n /\ (IF a <= b THEN b - a + 1 ELSE 0) = n
  BY <1>1
<1>6. \A i \in 1 .. n : a + i - 1 = o + 1 + i
  BY <1>1
<1> HIDE DEF a, b
<1> QED
  BY <1>3, <1>4, <1>5, <1>6 DEF Text

LEMMA SpanType ==
  ASSUME message \in Seq(Octets), NEW o \in Nat, IsLabel(o)
  PROVE  /\ Span(o + 1, Octet(o)) \in Text /\ Len(Span(o + 1, Octet(o))) = Octet(o)
         /\ \A i \in 1 .. Octet(o) : Span(o + 1, Octet(o))[i] = message[o + 1 + i]
<1>1. Octet(o) \in Nat /\ o + 1 + Octet(o) <= Len(message)
  BY Begins, OctetType DEF IsLabel
<1> QED
  BY <1>1, SpanFacts

LEMMA LabelAtType ==
  ASSUME message \in Seq(Octets), NEW o \in Place
  PROVE  LabelAt(o) \in Seq(Text)
<1>1. CASE o # Nowhere /\ IsLabel(o)
  <2>1. o \in Nat
    BY <1>1 DEF Place
  <2>2. Span(o + 1, Octet(o)) \in Text
    BY <1>1, <2>1, SpanType
  <2> QED
    BY <1>1, <2>2 DEF LabelAt
<1>2. CASE ~(o # Nowhere /\ IsLabel(o))
  BY <1>2 DEF LabelAt
<1> QED
  BY <1>1, <1>2

LEMMA LabelsFacts ==
  ASSUME message \in Seq(Octets)
  PROVE  /\ LabelsBefore[0] = <<>> /\ \A n \in 0 .. MaxSteps : LabelsBefore[n] \in Seq(Text)
         /\ \A n \in 1 .. MaxSteps : LabelsBefore[n] = LabelsBefore[n - 1] \o LabelAt(Path[n - 1])
<1> DEFINE Is(p) == p = [n \in 0 .. MaxSteps |-> IF n = 0 THEN <<>> ELSE p[n - 1] \o LabelAt(Path[n - 1])]
           S == Seq(Text)
           h == [n \in 1 .. MaxSteps |-> [s \in S |-> s \o LabelAt(Path[n - 1])]]
<1>1. MaxSteps \in Nat /\ <<>> \in S
  BY SizeAssumption
<1>2. \A n \in 1 .. MaxSteps : \A s \in S : h[n][s] = s \o LabelAt(Path[n - 1])
  OBVIOUS
<1>3. \A n \in 1 .. MaxSteps : LabelAt(Path[n - 1]) \in S
  <2> SUFFICES ASSUME NEW n \in 1 .. MaxSteps PROVE LabelAt(Path[n - 1]) \in S
    OBVIOUS
  <2>1. n - 1 \in 0 .. MaxSteps
    BY <1>1
  <2> QED
    BY <2>1, PathFacts, LabelAtType
<1>4. StepsWithin(h, MaxSteps, S)
  <2> SUFFICES ASSUME NEW n \in 1 .. MaxSteps, NEW s \in S PROVE h[n][s] \in S
    BY DEF StepsWithin
  <2> HIDE DEF h
  <2> QED
    BY <1>2, <1>3, ConcatProperties
<1>5. PICK f : FollowsSteps(f, <<>>, h, MaxSteps, S)
  <2> HIDE DEF h, S
  <2> QED
    BY <1>1, <1>4, Recursion
<1>6. /\ f \in [0 .. MaxSteps -> S] /\ f[0] = <<>>
      /\ \A n \in 1 .. MaxSteps : f[n] = f[n - 1] \o LabelAt(Path[n - 1])
  <2>1. /\ f \in [0 .. MaxSteps -> S] /\ f[0] = <<>>
        /\ \A n \in 1 .. MaxSteps : f[n] = h[n][f[n - 1]]
    BY <1>5 DEF FollowsSteps
  <2> SUFFICES ASSUME NEW n \in 1 .. MaxSteps PROVE f[n] = f[n - 1] \o LabelAt(Path[n - 1])
    BY <2>1
  <2>2. f[n - 1] \in S
    BY <1>1, <2>1
  <2> HIDE DEF h
  <2> QED
    BY <1>2, <2>1, <2>2
<1>7. Is(f)
  <2> DEFINE g == [n \in 0 .. MaxSteps |-> IF n = 0 THEN <<>> ELSE f[n - 1] \o LabelAt(Path[n - 1])]
  <2>1. ASSUME NEW n \in 0 .. MaxSteps PROVE f[n] = g[n]
    <3>1. n # 0 => n \in 1 .. MaxSteps
      BY <1>1
    <3> QED
      BY <1>6, <3>1
  <2>2. f = g
    BY <1>6, <2>1
  <2> QED
    BY <2>2
<1>8. Is(LabelsBefore)
  <2>1. LabelsBefore = CHOOSE p : Is(p)
    BY DEF LabelsBefore, LabelAt
  <2> HIDE DEF Is
  <2> QED
    BY <1>7, <2>1
<1>9. LabelsBefore[0] = <<>> /\ \A n \in 1 .. MaxSteps : LabelsBefore[n] = LabelsBefore[n - 1] \o LabelAt(Path[n - 1])
  <2>1. \A n \in 0 .. MaxSteps : LabelsBefore[n] = IF n = 0 THEN <<>> ELSE LabelsBefore[n - 1] \o LabelAt(Path[n - 1])
    BY <1>8, Zenon
  <2>2. 0 \in 0 .. MaxSteps /\ \A n \in 1 .. MaxSteps : n \in 0 .. MaxSteps /\ n # 0
    BY <1>1
  <2> QED
    BY <2>1, <2>2, Zenon
<1> DEFINE T == {n \in 0 .. MaxSteps : LabelsBefore[n] \in S}
<1>10. \A n \in 0 .. MaxSteps : n \in T
  <2>1. 0 \in T
    <3>1. 0 \in 0 .. MaxSteps /\ LabelsBefore[0] \in S
      BY <1>1, <1>9
    <3> QED
      BY <3>1
  <2>2. ASSUME NEW n \in 1 .. MaxSteps, n - 1 \in T PROVE n \in T
    <3>1. LabelsBefore[n] = LabelsBefore[n - 1] \o LabelAt(Path[n - 1])
      BY <1>9
    <3>2. LabelsBefore[n - 1] \in Seq(Text) /\ LabelAt(Path[n - 1]) \in Seq(Text)
      BY <2>2, <1>3
    <3>3. LabelsBefore[n] \in S
      BY <3>1, <3>2, ConcatProperties
    <3>4. n \in 0 .. MaxSteps
      BY <1>1
    <3> QED
      BY <3>3, <3>4
  <2> HIDE DEF T
  <2> QED
    BY <1>1, <2>1, <2>2, InductionTo
<1> QED
  BY <1>9, <1>10

-----------------------------------------------------------------------------
(* Where the path may go.                                                  *)

LEMMA LeastOf ==
  ASSUME NEW T, T \subseteq Nat, T # {}
  PROVE  Min(T) \in T /\ \A k \in T : Min(T) <= k
<1>1. PICK m \in T : \A k \in T : m <= k
  BY LeastNumber
<1> DEFINE Least(x) == x \in T /\ \A k \in T : x <= k
<1>2. Min(T) = CHOOSE x \in T : \A k \in T : x <= k
  BY DEF Min
<1> QED
  BY <1>1, <1>2

(* The hops at which a pointer, and those at which a label begins. *)
Pointers == {i \in 0 .. MaxSteps : Path[i] # Nowhere /\ IsPointer(Path[i])}
Labelled == {i \in 0 .. MaxSteps : Path[i] # Nowhere /\ IsLabel(Path[i])}
OnPath(n) == \A i \in 0 .. n - 1 : i \in Pointers \cup Labelled

LEMMA HopAt ==
  ASSUME message \in Seq(Octets), NEW n \in 0 .. MaxSteps
  PROVE  /\ Path[n] \in Place
         /\ n \in Pointers \cup Labelled => Path[n] \in Nat /\ ~IsRoot(Path[n])
         /\ n < MaxSteps /\ n \in Pointers => Path[n + 1] = Target(Path[n])
         /\ n < MaxSteps /\ n \in Labelled => Path[n + 1] = Path[n] + 1 + Octet(Path[n])
         /\ n < MaxSteps /\ n \notin Pointers \cup Labelled => Path[n + 1] = Nowhere
<1>1. Path[n] \in Place
  BY PathFacts
<1>2. n < MaxSteps => Path[n + 1] = Hop(Path[n])
  <2>1. n < MaxSteps => n + 1 \in 1 .. MaxSteps /\ (n + 1) - 1 = n
    BY SizeAssumption
  <2> QED
    BY <2>1, PathFacts
<1>3. Path[n] # Nowhere => Path[n] \in Nat
  BY <1>1 DEF Place
<1>4. Path[n] \in Nat => /\ ~(IsPointer(Path[n]) /\ IsLabel(Path[n]))
                        /\ ~(IsRoot(Path[n]) /\ (IsPointer(Path[n]) \/ IsLabel(Path[n])))
  BY Begins
<1> QED
  BY <1>1, <1>2, <1>3, <1>4 DEF Pointers, Labelled, Hop

(* No root has been passed. *)
LEMMA RootAhead ==
  ASSUME message \in Seq(Octets), NEW n \in 0 .. MaxSteps, OnPath(n)
  PROVE  \A i \in Length : i \in Nat /\ i >= n /\ i < MaxSteps
<1> SUFFICES ASSUME NEW i \in Length PROVE i \in Nat /\ i >= n /\ i < MaxSteps
  OBVIOUS
<1>1. i \in Nat /\ i < MaxSteps /\ i \in 0 .. MaxSteps /\ IsRoot(Path[i])
  BY SizeAssumption DEF Length
<1>2. ~(i \in 0 .. n - 1)
  BY <1>1, HopAt DEF OnPath
<1> QED
  BY <1>1, <1>2

(* Where nothing can be followed the path ends. *)
LEMMA DeadEnd ==
  ASSUME message \in Seq(Octets), NEW s \in 0 .. MaxSteps, s < MaxSteps, s \notin Pointers \cup Labelled
  PROVE  \A n \in 0 .. MaxSteps : n > s => Path[n] = Nowhere
<1> DEFINE T == {n \in 0 .. MaxSteps : n > s => Path[n] = Nowhere}
<1>1. 0 \in T
  BY SizeAssumption
<1>2. ASSUME NEW n \in 1 .. MaxSteps, n - 1 \in T PROVE n \in T
  <2>1. n - 1 \in 0 .. MaxSteps /\ n - 1 < MaxSteps /\ (n - 1) + 1 = n /\ n \in 0 .. MaxSteps
    BY SizeAssumption
  <2> SUFFICES ASSUME n > s PROVE Path[n] = Nowhere
    BY <2>1
  <2>2. n - 1 = s \/ n - 1 > s
    BY SizeAssumption
  <2>3. n - 1 \notin Pointers \cup Labelled
    BY <1>2, <2>2 DEF Pointers, Labelled
  <2> QED
    BY <2>1, <2>3, HopAt
<1>3. \A n \in 0 .. MaxSteps : n \in T
  <2> HIDE DEF T
  <2> QED
    BY <1>1, <1>2, InductionTo, SizeAssumption
<1> QED
  BY <1>3

(* A path that comes back to where it has been never comes to a root.      *)
LEMMA Cycle ==
  ASSUME message \in Seq(Octets), NEW s \in 0 .. MaxSteps, s < MaxSteps,
         OnPath(s + 1), NEW i \in 0 .. s, Path[s + 1] = Path[i]
  PROVE  Length = {}
<1> DEFINE p == s + 1 - i
           T == {m \in 0 .. MaxSteps : m >= i /\ m + p <= MaxSteps => Path[m + p] = Path[m]}
<1>1. MaxSteps \in Nat /\ s \in Nat /\ i \in Nat /\ p \in Nat /\ p > 0 /\ i + p = s + 1
  BY SizeAssumption
<1> HIDE DEF p
<1>2. 0 \in T
  <2>1. 0 >= i => i = 0 /\ 0 + p = s + 1
    BY <1>1
  <2> QED
    BY <1>1, <2>1
<1>3. ASSUME NEW m \in 1 .. MaxSteps, m - 1 \in T PROVE m \in T
  <2> SUFFICES ASSUME m >= i, m + p <= MaxSteps PROVE Path[m + p] = Path[m]
    BY <1>1
  <2>1. CASE m = i
    BY <1>1, <2>1
  <2>2. CASE m # i
    <3>1. /\ m - 1 >= i /\ (m - 1) + p <= MaxSteps /\ m + p \in 1 .. MaxSteps
          /\ (m + p) - 1 = (m - 1) + p
      BY <1>1, <2>2
    <3>2. Path[(m - 1) + p] = Path[m - 1]
      BY <1>3, <3>1
    <3>3. Path[m + p] = Hop(Path[(m + p) - 1]) /\ Path[m] = Hop(Path[m - 1])
      BY <3>1, PathFacts
    <3> QED
      BY <3>1, <3>2, <3>3
  <2> QED
    BY <2>1, <2>2
<1>4. \A m \in 0 .. MaxSteps : m \in T
  <2> HIDE DEF T
  <2> QED
    BY <1>1, <1>2, <1>3, InductionTo
<1>5. s + 1 \in 0 .. MaxSteps
  BY <1>1
<1> SUFFICES ASSUME Length # {} PROVE FALSE
  OBVIOUS
<1>6. PICK n \in Length : \A k \in Length : n <= k
  <2>1. Length \subseteq Nat
    BY <1>1 DEF Length
  <2> QED
    BY <2>1, LeastNumber
<1>7. n \in Nat /\ n >= s + 1 /\ n < MaxSteps
  BY <1>5, RootAhead
<1>8. n - p \in 0 .. MaxSteps - 1 /\ n - p \in 0 .. MaxSteps /\ n - p >= i /\ (n - p) + p = n /\ ~(n <= n - p)
  BY <1>1, <1>7
<1>9. Path[n] = Path[n - p]
  <2>1. n - p \in T
    BY <1>4, <1>8
  <2>2. (n - p) + p <= MaxSteps
    BY <1>1, <1>7, <1>8
  <2> QED
    BY <2>1, <2>2, <1>8
<1>10. n - p \in Length
  BY <1>8, <1>9 DEF Length
<1> QED
  BY <1>6, <1>8, <1>10

-----------------------------------------------------------------------------
(* Where the name ends, as far as it is known after n hops. *)
PointersTo(n) == {i \in 0 .. n - 1 : IsPointer(Path[i])}
EndBefore(n) == IF PointersTo(n) = {} THEN 0 ELSE Path[Min(PointersTo(n))] + 2

LEMMA EndFacts ==
  ASSUME message \in Seq(Octets), NEW n \in 0 .. MaxSteps, OnPath(n)
  PROVE  /\ EndBefore(n) \in Nat
         /\ EndBefore(n) # 0 => EndBefore(n) <= Len(message)
         /\ Path[n] \in Nat => NameEnd(n) = IF EndBefore(n) = 0 THEN Path[n] + 1 ELSE EndBefore(n)
<1>1. CASE PointersTo(n) = {}
  BY <1>1 DEF EndBefore, NameEnd, PointersTo
<1>2. CASE PointersTo(n) # {}
  <2> DEFINE m == Min(PointersTo(n))
  <2>1. PointersTo(n) \subseteq Nat
    BY DEF PointersTo
  <2>2. m \in PointersTo(n)
    BY <1>2, <2>1, LeastOf
  <2>3. m \in 0 .. n - 1 /\ m \in 0 .. MaxSteps /\ IsPointer(Path[m])
    BY <2>2, SizeAssumption DEF PointersTo
  <2>4. Path[m] \in Nat
    BY <2>3, HopAt DEF OnPath
  <2>5. Path[m] + 1 < Len(message)
    BY <2>3, <2>4, Begins
  <2>6. EndBefore(n) = Path[m] + 2 /\ NameEnd(n) = Path[m] + 2
    BY <1>2 DEF EndBefore, NameEnd, PointersTo
  <2>7. Len(message) \in Nat
    OBVIOUS
  <2> HIDE DEF m
  <2> QED
    BY <2>4, <2>5, <2>6, <2>7
<1> QED
  BY <1>1, <1>2

(* The first pointer settles it. *)
LEMMA EndNext ==
  ASSUME message \in Seq(Octets), NEW n \in 0 .. MaxSteps, OnPath(n), n < MaxSteps, n \in Pointers \cup Labelled
  PROVE  EndBefore(n + 1) = IF n \in Pointers /\ EndBefore(n) = 0 THEN Path[n] + 2 ELSE EndBefore(n)
<1>1. n \in Nat /\ (n + 1) - 1 = n /\ \A i : i \in 0 .. n <=> i \in 0 .. n - 1 \/ i = n
  BY SizeAssumption
<1>2. IsPointer(Path[n]) <=> n \in Pointers
  BY HopAt, Begins DEF Pointers, Labelled
<1>3. PointersTo(n + 1) = PointersTo(n) \cup (IF n \in Pointers THEN {n} ELSE {})
  BY <1>1, <1>2 DEF PointersTo
<1>4. PointersTo(n) \subseteq 0 .. n - 1 /\ PointersTo(n) \subseteq Nat /\ PointersTo(n + 1) \subseteq Nat
  BY <1>1 DEF PointersTo
<1>5. PointersTo(n) # {} => EndBefore(n) # 0
  <2> SUFFICES ASSUME PointersTo(n) # {} PROVE EndBefore(n) # 0
    OBVIOUS
  <2>1. Min(PointersTo(n)) \in PointersTo(n)
    BY <1>4, LeastOf
  <2>2. Path[Min(PointersTo(n))] \in Nat
    <3>1. Min(PointersTo(n)) \in 0 .. n - 1
      BY <1>4, <2>1
    <3>2. Min(PointersTo(n)) \in 0 .. MaxSteps
      BY <3>1, SizeAssumption
    <3> QED
      BY <3>1, <3>2, HopAt DEF OnPath
  <2> QED
    BY <2>2 DEF EndBefore
<1>6. CASE PointersTo(n) = {} /\ n \in Pointers
  <2>1. PointersTo(n + 1) = {n}
    BY <1>3, <1>6
  <2>2. Min({n}) = n
    BY <1>1, LeastOf
  <2>3. EndBefore(n) = 0 /\ EndBefore(n + 1) = Path[n] + 2
    BY <1>6, <2>1, <2>2 DEF EndBefore
  <2> QED
    BY <1>6, <2>3
<1>7. CASE PointersTo(n) # {} /\ n \in Pointers
  <2>1. PointersTo(n + 1) = PointersTo(n) \cup {n}
    BY <1>3, <1>7
  <2>2. /\ Min(PointersTo(n)) \in PointersTo(n) /\ \A k \in PointersTo(n) : Min(PointersTo(n)) <= k
        /\ Min(PointersTo(n + 1)) \in PointersTo(n + 1)
        /\ \A k \in PointersTo(n + 1) : Min(PointersTo(n + 1)) <= k
    BY <1>4, <1>7, <2>1, LeastOf
  <2>3. Min(PointersTo(n + 1)) = Min(PointersTo(n))
    BY <1>1, <1>4, <2>1, <2>2
  <2> QED
    BY <1>5, <1>7, <2>1, <2>3 DEF EndBefore
<1>8. CASE n \notin Pointers
  <2>1. PointersTo(n + 1) = PointersTo(n)
    BY <1>3, <1>8
  <2> QED
    BY <1>8, <2>1 DEF EndBefore
<1> QED
  BY <1>6, <1>7, <1>8

-----------------------------------------------------------------------------
(***************************************************************************)
(* The inductive invariant.  The loop has followed the path (LoopInv):     *)
(* every offset it has visited is one the path has been at, so that a      *)
(* pointer back to one of them, which the loop refuses, is one from which  *)
(* the path never comes to a root.                                         *)
(***************************************************************************)
TypeInv == TypeOK /\ message \in Message /\ labels \in Seq(Text)

BeginInv == state = "begin" => steps = 0 /\ labels = <<>> /\ visited = {} /\ end = 0

LoopInv ==
  state = "decode" =>
    /\ header = "one" /\ cursor = Path[steps]
    /\ OnPath(steps)
    /\ \A o \in visited : \E i \in 1 .. steps : o = Path[i]
    /\ end = EndBefore(steps) /\ labels = LabelsBefore[steps]

DoneInv ==
  /\ state = "failed" /\ header = "one" => WellFormed = {}
  /\ state = "named" /\ header = "one" => \E n \in WellFormed : labels = LabelsBefore[n] /\ end = NameEnd(n)

IInv == TypeInv /\ BeginInv /\ LoopInv /\ DoneInv

(* What only depends on the message does not change with it unchanged. *)
LEMMA Static ==
  ASSUME UNCHANGED message
  PROVE  /\ Path' = Path /\ LabelsBefore' = LabelsBefore /\ WellFormed' = WellFormed
         /\ \A n : EndBefore(n)' = EndBefore(n) /\ NameEnd(n)' = NameEnd(n) /\ OnPath(n)' = OnPath(n)
<1>1. \A o : /\ IsPointer(o)' = IsPointer(o) /\ IsLabel(o)' = IsLabel(o) /\ Target(o)' = Target(o)
             /\ Octet(o)' = Octet(o) /\ IsRoot(o)' = IsRoot(o) /\ Span(o + 1, Octet(o))' = Span(o + 1, Octet(o))
  BY DEF IsPointer, IsLabel, IsRoot, Target, Octet, Inside, Span
<1>2. Path' = Path
  BY DEF Path, Hop, IsPointer, IsLabel, Target, Octet, Inside, Span
<1>3. LabelsBefore' = LabelsBefore
  BY <1>2 DEF LabelsBefore, IsLabel, Octet, Inside, Span
<1> QED
  BY <1>1, <1>2, <1>3 DEF WellFormed, Length, NameEnd, EndBefore, OnPath, Pointers, Labelled, PointersTo

LEMMA MessageType == TypeInv => message \in Seq(Octets) /\ Len(message) >= Start
BY MessageAssumption DEF TypeInv, Octets

(* The invariant holds before the header is read, and one lemma for each   *)
(* action says that it is kept.                                            *)
LEMMA InitIInv == Init => IInv
<1> SUFFICES ASSUME Init PROVE IInv
  OBVIOUS
<1>1. message \in Seq(Octets) /\ Len(message) \in Nat
  BY MessageAssumption DEF Init, Octets
<1>2. MaxSteps \in Nat
  BY SizeAssumption
<1>3. TypeInv
  BY <1>1, <1>2 DEF Init, TypeInv, TypeOK, Octets
<1> QED
  BY <1>3 DEF Init, IInv, BeginInv, LoopInv, DoneInv

LEMMA BeginStep == IInv /\ Begin => IInv'
<1> SUFFICES ASSUME IInv, Begin PROVE IInv'
  OBVIOUS
<1>1. UNCHANGED message /\ cursor' = Start /\ steps' = 0 /\ labels' = <<>> /\ visited' = {} /\ end' = 0
      /\ header' = "one" /\ state' = "decode"
  BY DEF Begin, query, IInv, BeginInv
<1>2. message \in Seq(Octets) /\ Len(message) >= Start /\ Start \in Nat /\ MaxSteps \in Nat
  BY MessageType, SizeAssumption DEF IInv
<1>3. TypeInv'
  <2>1. Start \in 0 .. Len(message)
    BY <1>2
  <2> QED
    BY <2>1, <1>1 DEF Begin, query, IInv, TypeInv, TypeOK
<1>4. LoopInv'
  <2>1. cursor' = Path'[steps'] /\ labels' = LabelsBefore'[steps']
    BY <1>1, <1>2, PathFacts, LabelsFacts, Static
  <2>2. OnPath(steps)'
    BY <1>1 DEF OnPath
  <2>3. EndBefore(steps)' = 0
    BY <1>1 DEF EndBefore, PointersTo
  <2> QED
    BY <1>1, <2>1, <2>2, <2>3 DEF LoopInv
<1> QED
  BY <1>1, <1>3, <1>4 DEF IInv, BeginInv, DoneInv

(* A hop of the loop, along a pointer or a label. *)
LEMMA LoopGoesOn ==
  ASSUME IInv, state = "decode", steps < MaxSteps, steps \in Pointers \cup Labelled,
         UNCHANGED <<header, message, state>>, steps' = steps + 1, cursor' = Path[steps + 1],
         \A o \in visited' : o \in visited \/ o = Path[steps + 1],
         end' = IF steps \in Pointers /\ end = 0 THEN Path[steps] + 2 ELSE end,
         labels' = labels \o LabelAt(Path[steps])
  PROVE  LoopInv'
<1>1. message \in Seq(Octets) /\ steps \in Nat /\ MaxSteps \in Nat /\ steps \in 0 .. MaxSteps
  BY MessageType, SizeAssumption DEF IInv, TypeInv, TypeOK
<1>2. /\ header = "one" /\ OnPath(steps) /\ \A o \in visited : \E i \in 1 .. steps : o = Path[i]
      /\ end = EndBefore(steps) /\ labels = LabelsBefore[steps]
  BY DEF IInv, LoopInv
<1>3. OnPath(steps + 1)
  BY <1>1, <1>2 DEF OnPath
<1>4. end' = EndBefore(steps + 1)
  BY <1>1, <1>2, EndNext
<1>5. labels' = LabelsBefore[steps + 1]
  <2>1. steps + 1 \in 1 .. MaxSteps /\ (steps + 1) - 1 = steps
    BY <1>1
  <2> QED
    BY <1>1, <1>2, <2>1, LabelsFacts
<1>6. \A o \in visited' : \E i \in 1 .. steps + 1 : o = Path[i]
  <2> SUFFICES ASSUME NEW o \in visited' PROVE \E i \in 1 .. steps + 1 : o = Path[i]
    OBVIOUS
  <2>1. CASE o = Path[steps + 1]
    BY <1>1, <2>1
  <2>2. CASE o \in visited
    <3>1. PICK i \in 1 .. steps : o = Path[i]
      BY <1>2, <2>2
    <3>2. i \in 1 .. steps + 1
      BY <1>1
    <3> QED
      BY <3>1, <3>2
  <2> QED
    BY <2>1, <2>2
<1> QED
  BY <1>2, <1>3, <1>4, <1>5, <1>6, Static DEF LoopInv

(* What the loop knows when it takes a turn. *)
LEMMA Turning ==
  ASSUME IInv, state = "decode"
  PROVE  /\ message \in Seq(Octets) /\ Len(message) \in Nat /\ header = "one"
         /\ steps \in 0 .. MaxSteps /\ steps \in Nat /\ MaxSteps \in Nat
         /\ cursor = Path[steps] /\ cursor \in Nat /\ OnPath(steps)
         /\ end \in Nat /\ end = EndBefore(steps) /\ labels = LabelsBefore[steps]
         /\ NameEnd(steps) = EndOr(cursor + 1)
         /\ IsPointer(cursor) <=> steps \in Pointers
         /\ IsLabel(cursor) <=> steps \in Labelled
<1>1. message \in Seq(Octets) /\ Len(message) \in Nat /\ MaxSteps \in Nat
  BY MessageType, SizeAssumption DEF IInv
<1>2. /\ header = "one" /\ steps \in 0 .. MaxSteps /\ steps \in Nat
      /\ cursor = Path[steps] /\ cursor \in Nat /\ OnPath(steps)
      /\ end = EndBefore(steps) /\ labels = LabelsBefore[steps]
  BY <1>1 DEF IInv, LoopInv, TypeInv, TypeOK
<1>3. end \in Nat /\ NameEnd(steps) = EndOr(cursor + 1)
  BY <1>1, <1>2, EndFacts DEF EndOr
<1>4. (IsPointer(cursor) <=> steps \in Pointers) /\ (IsLabel(cursor) <=> steps \in Labelled)
  BY <1>2 DEF Pointers, Labelled, Nowhere
<1> QED
  BY <1>1, <1>2, <1>3, <1>4

LEMMA JumpStep == IInv /\ Jump => IInv'
<1> SUFFICES ASSUME IInv, Jump PROVE IInv'
  OBVIOUS
<1>1. /\ state = "decode" /\ steps < MaxSteps /\ IsPointer(cursor)
      /\ cursor' = Target(cursor) /\ visited' = visited \cup {Target(cursor)}
      /\ end' = EndOr(cursor + 2) /\ steps' = steps + 1
      /\ UNCHANGED <<header, message, state, labels, scenario>>
  BY DEF Jump, Follow, Turn, CanJump, query
<1>2. Path[steps + 1] = Target(cursor) /\ steps \in Pointers /\ LabelAt(Path[steps]) = <<>>
  BY <1>1, Turning, HopAt, Begins DEF LabelAt
<1>3. /\ Target(cursor) \in Nat /\ Target(cursor) < Len(message) /\ cursor + 1 < Len(message)
      /\ Len(message) \in Nat /\ end \in Nat /\ cursor \in Nat
  BY <1>1, Turning, Begins
<1>4. TypeInv'
  <2>1. end' \in 0 .. Len(message)
    BY <1>1, <1>3 DEF EndOr, IInv, TypeInv, TypeOK
  <2>2. steps' \in 0 .. MaxSteps /\ Len(labels) <= steps'
    BY <1>1, Turning DEF IInv, TypeInv, TypeOK
  <2>3. Target(cursor) \in 0 .. Len(message) /\ Target(cursor) \in 0 .. Len(message) - 1
    BY <1>3
  <2> QED
    BY <1>1, <2>1, <2>2, <2>3 DEF IInv, TypeInv, TypeOK
<1>5. LoopInv'
  <2>1. labels \o LabelAt(Path[steps]) = labels
    BY <1>2, ConcatEmptySeq DEF IInv, TypeInv
  <2>2. end' = IF steps \in Pointers /\ end = 0 THEN Path[steps] + 2 ELSE end
    BY <1>1, <1>2, Turning DEF EndOr
  <2> QED
    BY <1>1, <1>2, <2>1, <2>2, LoopGoesOn
<1> QED
  BY <1>1, <1>4, <1>5 DEF IInv, BeginInv, DoneInv

LEMMA LabelStep == IInv /\ TakeLabel => IInv'
<1> SUFFICES ASSUME IInv, TakeLabel PROVE IInv'
  OBVIOUS
<1>1. /\ state = "decode" /\ steps < MaxSteps /\ IsLabel(cursor)
      /\ labels' = Append(labels, Span(cursor + 1, Octet(cursor)))
      /\ cursor' = cursor + 1 + Octet(cursor) /\ steps' = steps + 1
      /\ UNCHANGED <<header, message, state, visited, end, scenario>>
  BY DEF TakeLabel, Turn, query
<1>2. /\ Path[steps + 1] = cursor' /\ steps \in Labelled /\ steps \notin Pointers
      /\ LabelAt(Path[steps]) = <<Span(cursor + 1, Octet(cursor))>>
  BY <1>1, Turning, HopAt, Begins DEF LabelAt, Nowhere
<1>3. Span(cursor + 1, Octet(cursor)) \in Text /\ cursor' \in 0 .. Len(message)
  BY <1>1, Turning, SpanType, Begins
<1>4. /\ labels \in Seq(Text) /\ labels' \in Seq(Text) /\ Len(labels') = Len(labels) + 1
      /\ labels' = labels \o <<Span(cursor + 1, Octet(cursor))>>
  <2>1. labels \in Seq(Text)
    BY DEF IInv, TypeInv
  <2> QED
    BY <1>1, <1>3, <2>1, AppendProperties, AppendIsConcat
<1>5. TypeInv'
  <2>1. steps' \in 0 .. MaxSteps /\ Len(labels') <= steps'
    <3>1. Len(labels) \in Nat /\ Len(labels) <= steps
      BY <1>4 DEF IInv, TypeInv, TypeOK
    <3> QED
      BY <1>1, <1>4, <3>1, Turning
  <2> QED
    BY <1>1, <1>3, <1>4, <2>1 DEF IInv, TypeInv, TypeOK
<1>6. LoopInv'
  <2>1. steps \in Pointers \cup Labelled /\ end' = IF steps \in Pointers /\ end = 0 THEN Path[steps] + 2 ELSE end
    BY <1>1, <1>2
  <2>2. labels' = labels \o LabelAt(Path[steps])
    BY <1>2, <1>4
  <2> QED
    BY <1>1, <1>2, <2>1, <2>2, LoopGoesOn
<1> QED
  BY <1>1, <1>5, <1>6 DEF IInv, BeginInv, DoneInv

LEMMA FinishStep == IInv /\ Finish => IInv'
<1> SUFFICES ASSUME IInv, Finish PROVE IInv'
  OBVIOUS
<1>1. /\ state = "decode" /\ steps < MaxSteps /\ IsRoot(cursor)
      /\ EndOr(cursor + 1) + FixedSize <= Len(message)
      /\ state' = "named" /\ end' = EndOr(cursor + 1) /\ steps' = steps + 1
      /\ scenario' = ScenarioFor(Joined(labels))
      /\ UNCHANGED <<header, message, cursor, labels, visited>>
  BY DEF Finish, Turn, CanFinish, query
<1>2. steps \in WellFormed
  <2>1. steps \in 0 .. MaxSteps - 1 /\ Path[steps] = cursor /\ cursor # Nowhere
    BY <1>1, Turning DEF Nowhere
  <2> QED
    BY <1>1, <2>1, Turning DEF WellFormed, Length
<1>3. TypeInv'
  <2>1. scenario' \in ScenarioLabel \cup {<<>>}
    BY <1>1 DEF ScenarioFor
  <2>2. end' \in 0 .. Len(message)
    BY <1>1, Turning, SizeAssumption DEF EndOr
  <2>3. steps' \in 0 .. MaxSteps /\ Len(labels) <= steps'
    BY <1>1, Turning DEF IInv, TypeInv, TypeOK
  <2> QED
    BY <1>1, <2>1, <2>2, <2>3 DEF IInv, TypeInv, TypeOK
<1>4. DoneInv'
  BY <1>1, <1>2, Turning, Static DEF DoneInv
<1> QED
  BY <1>1, <1>3, <1>4 DEF IInv, BeginInv, LoopInv

(* Where the loop gives up there is no name to be read. *)
LEMMA NothingToRead ==
  ASSUME IInv, state = "decode", ~(Turn /\ (CanJump \/ IsLabel(cursor) \/ CanFinish))
  PROVE  WellFormed = {}
<1>1. /\ message \in Seq(Octets) /\ header = "one" /\ steps \in 0 .. MaxSteps /\ steps \in Nat
      /\ MaxSteps \in Nat /\ cursor = Path[steps] /\ cursor \in Nat /\ OnPath(steps)
      /\ NameEnd(steps) = EndOr(cursor + 1)
      /\ IsPointer(cursor) <=> steps \in Pointers
      /\ IsLabel(cursor) <=> steps \in Labelled
  BY Turning
<1>2. \A n \in Length : n \in Nat /\ n >= steps /\ n < MaxSteps
  BY <1>1, RootAhead
<1>3. CASE ~(steps < MaxSteps)
  BY <1>1, <1>2, <1>3 DEF WellFormed
<1>4. CASE steps < MaxSteps /\ IsPointer(cursor)
  <2>1. Target(cursor) \in visited \cup {cursor}
    BY <1>4 DEF Turn, CanJump
  <2>2. Path[steps + 1] = Target(cursor)
    BY <1>1, <1>4, HopAt
  <2>3. PICK i \in 0 .. steps : Path[steps + 1] = Path[i]
    <3>1. CASE Target(cursor) = cursor
      BY <1>1, <2>2, <3>1
    <3>2. CASE Target(cursor) \in visited
      <4>1. PICK i \in 1 .. steps : Target(cursor) = Path[i]
        BY <3>2 DEF IInv, LoopInv
      <4>2. i \in 0 .. steps
        BY <1>1
      <4> QED
        BY <2>2, <4>1, <4>2
    <3> QED
      BY <2>1, <3>1, <3>2
  <2>4. OnPath(steps + 1)
    BY <1>1, <1>4 DEF OnPath
  <2> QED
    BY <1>1, <1>4, <2>3, <2>4, Cycle DEF WellFormed
<1>5. CASE steps < MaxSteps /\ ~IsPointer(cursor)
  <2>1. ~IsLabel(cursor) /\ ~CanFinish
    BY <1>5 DEF Turn
  <2>2. \A n \in 0 .. MaxSteps : n > steps => Path[n] = Nowhere
    BY <1>1, <1>5, <2>1, DeadEnd
  <2>3. \A n \in Length : n = steps
    <3> SUFFICES ASSUME NEW n \in Length PROVE n = steps
      OBVIOUS
    <3>1. n \in 0 .. MaxSteps /\ Path[n] # Nowhere
      BY <1>1 DEF Length
    <3> QED
      BY <1>1, <1>2, <2>2, <3>1
  <2>4. ASSUME NEW n \in WellFormed PROVE FALSE
    <3>1. n \in Length /\ NameEnd(n) + FixedSize <= Len(message)
      BY DEF WellFormed
    <3>2. n = steps /\ IsRoot(cursor)
      BY <1>1, <2>3, <3>1 DEF Length
    <3> QED
      BY <1>1, <2>1, <3>1, <3>2 DEF CanFinish
  <2> QED
    BY <2>4
<1> QED
  BY <1>3, <1>4, <1>5

LEMMA GiveUpStep == IInv /\ GiveUp => IInv'
<1> SUFFICES ASSUME IInv, GiveUp PROVE IInv'
  OBVIOUS
<1>1. /\ state = "decode" /\ state' = "failed"
      /\ UNCHANGED <<header, message, cursor, steps, labels, visited, end, scenario>>
  BY DEF GiveUp, Fail, query
<1>2. WellFormed' = {}
  <2>1. WellFormed = {}
    BY NothingToRead DEF GiveUp
  <2> QED
    BY <1>1, <2>1, Static
<1>3. TypeInv'
  BY <1>1 DEF IInv, TypeInv, TypeOK
<1> QED
  BY <1>1, <1>2, <1>3 DEF IInv, BeginInv, LoopInv, DoneInv

(* A query that no name is read from. *)
LEMMA NoNameStep == IInv /\ (Nameless \/ Unreadable) => IInv'
<1> SUFFICES ASSUME IInv, Nameless \/ Unreadable PROVE IInv'
  OBVIOUS
<1>1. /\ header # "one" /\ state' \in {"named", "failed"}
      /\ UNCHANGED <<header, message, cursor, steps, labels, visited, end, scenario>>
  BY DEF Nameless, Unreadable, Fail, query
<1>2. TypeInv'
  BY <1>1 DEF IInv, TypeInv, TypeOK
<1> QED
  BY <1>1, <1>2 DEF IInv, BeginInv, LoopInv, DoneInv

LEMMA StutterStep == IInv /\ UNCHANGED vars => IInv'
<1> SUFFICES ASSUME IInv, UNCHANGED vars PROVE IInv'
  OBVIOUS
<1>1. UNCHANGED <<header, message, state, cursor, steps, labels, visited, end, scenario>>
  BY DEF vars, query
<1>2. TypeInv'
  BY <1>1 DEF IInv, TypeInv, TypeOK
<1> QED
  BY <1>1, <1>2, Static DEF IInv, BeginInv, LoopInv, DoneInv

LEMMA NextIInv == IInv /\ [Next]_vars => IInv'
BY BeginStep, JumpStep, LabelStep, FinishStep, GiveUpStep, NoNameStep, StutterStep DEF Next

(* At every turn the loop of _decode_name is where the path is, with the   *)
(* labels on the way, and what it ends with is what the path says.         *)
THEOREM LoopInvariance == Spec => []IInv
BY InitIInv, NextIInv, PTL DEF Spec

(***************************************************************************)
(* The loop reads exactly the names that can be read (_decode_name): it    *)
(* refuses none because of a pointer it has followed before, and what it   *)
(* reads are the labels on the path and the end behind the first pointer.  *)
(***************************************************************************)
THEOREM Decodes == Spec => []DecodesExactly
<1>1. IInv => DecodesExactly
  BY DEF IInv, TypeInv, DoneInv, DecodesExactly
<1> QED
  BY <1>1, LoopInvariance, PTL

-----------------------------------------------------------------------------
(* Small facts of arithmetic about lengths and positions.                  *)
LEMMA Further == ASSUME NEW a \in Nat, NEW b \in Nat, NEW j \in 1 .. b PROVE a + j \in 1 .. a + b
OBVIOUS

LEMMA WithinText ==
  ASSUME NEW a \in Nat, NEW b \in Nat, NEW d \in Nat, a + b + 1 <= d, NEW j \in 1 .. b
  PROVE  a + j \in 1 .. d - 1 /\ (a + j) + 1 = a + (j + 1)
OBVIOUS

LEMMA DotWithin ==
  ASSUME NEW a \in Nat, NEW b \in Nat, NEW c, c = a + b + 1,
         NEW e \in Nat, NEW g, g = c + e + 1, NEW d \in Nat, g <= d, NEW l, l = d - 1
  PROVE  c \in 1 .. l
OBVIOUS

LEMMA NotShorter == ASSUME NEW a \in Nat, NEW b \in Nat, NEW c \in Nat, a >= c PROVE a + b >= c
OBVIOUS

LEMMA Typed == ASSUME NEW S, NEW s \in Seq(S) PROVE Len(s) \in Nat /\ DOMAIN s = 1 .. Len(s)
OBVIOUS

(* c is s and, behind it, t. *)
Joins(c, s, t) ==
  /\ Len(c) = Len(s) + Len(t) /\ Len(s) \in Nat /\ Len(t) \in Nat
  /\ \A i \in 1 .. Len(s) : c[i] = s[i]
  /\ \A i \in 1 .. Len(t) : c[Len(s) + i] = t[i]

LEMMA Joining ==
  ASSUME NEW S, NEW s \in Seq(S), NEW t \in Seq(S)
  PROVE  s \o t \in Seq(S) /\ Joins(s \o t, s, t)
<1>1. Len(s) \in Nat /\ Len(t) \in Nat
  OBVIOUS
<1> QED
  BY <1>1, ConcatElements DEF Joins

LEMMA EmptyFront == ASSUME NEW S, NEW s \in Seq(S) PROVE <<>> \o s = s
BY ConcatEmptySeq

(* Sequences put together: f[i] is the first i of them, one behind the     *)
(* other.                                                                  *)
Flattens(f, seqs, S) ==
  /\ f \in [0 .. Len(seqs) -> Seq(S)] /\ f[0] = <<>>
  /\ \A i \in 1 .. Len(seqs) : f[i] = f[i - 1] \o seqs[i]

LEMMA FlattenFacts ==
  ASSUME NEW S, NEW seqs \in Seq(Seq(S))
  PROVE  \E f : Flattens(f, seqs, S) /\ FlattenSeq(seqs) = f[Len(seqs)]
<1> DEFINE L == Len(seqs)
           h == [i \in 1 .. L |-> [s \in Seq(S) |-> s \o seqs[i]]]
           Is(p) == p = [i \in 1 .. L |-> IF i = 1 THEN seqs[i] ELSE p[i - 1] \o seqs[i]]
<1>1. L \in Nat /\ <<>> \in Seq(S) /\ \A i \in 1 .. L : seqs[i] \in Seq(S)
  OBVIOUS
<1>2. \A i \in 1 .. L : \A s \in Seq(S) : h[i][s] = s \o seqs[i]
  OBVIOUS
<1>3. StepsWithin(h, L, Seq(S))
  <2> SUFFICES ASSUME NEW i \in 1 .. L, NEW s \in Seq(S) PROVE h[i][s] \in Seq(S)
    BY DEF StepsWithin
  <2> HIDE DEF h, L
  <2> QED
    BY <1>1, <1>2, ConcatProperties
<1>4. PICK f : FollowsSteps(f, <<>>, h, L, Seq(S))
  <2> HIDE DEF h, L
  <2> QED
    BY <1>1, <1>3, Recursion
<1>5. /\ f \in [0 .. L -> Seq(S)] /\ f[0] = <<>>
      /\ \A i \in 1 .. L : f[i] = f[i - 1] \o seqs[i]
  <2>1. /\ f \in [0 .. L -> Seq(S)] /\ f[0] = <<>>
        /\ \A i \in 1 .. L : f[i] = h[i][f[i - 1]]
    BY <1>4 DEF FollowsSteps
  <2> SUFFICES ASSUME NEW i \in 1 .. L PROVE f[i] = f[i - 1] \o seqs[i]
    BY <2>1
  <2>2. f[i - 1] \in Seq(S)
    <3> HIDE DEF h, L
    <3>1. i - 1 \in 0 .. L
      BY <1>1
    <3> QED
      BY <2>1, <3>1
  <2> HIDE DEF h, L
  <2> QED
    BY <1>2, <2>1, <2>2
<1>6. Flattens(f, seqs, S)
  BY <1>5 DEF Flattens
<1>7. CASE L = 0
  <2>1. seqs = <<>>
    BY <1>7, EmptySeq
  <2>2. FlattenSeq(seqs) = seqs
    BY <1>7 DEF FlattenSeq
  <2> QED
    BY <1>5, <1>6, <1>7, <2>1, <2>2
<1>8. CASE L # 0
  <2> DEFINE g == [i \in 1 .. L |-> f[i]]
             k == [i \in 1 .. L |-> IF i = 1 THEN seqs[i] ELSE g[i - 1] \o seqs[i]]
             p == CHOOSE q : Is(q)
  <2>1. ASSUME NEW i \in 1 .. L PROVE g[i] = k[i]
    <3>1. CASE i = 1
      <4>1. f[1] = <<>> \o seqs[1]
        <5> HIDE DEF L
        <5>1. f[1] = f[1 - 1] \o seqs[1]
          BY <1>5, <3>1
        <5>2. 1 - 1 = 0
          OBVIOUS
        <5> QED
          BY <1>5, <5>1, <5>2, Zenon
      <4> QED
        BY <1>1, <3>1, <4>1, ConcatEmptySeq
    <3>2. CASE i # 1
      <4>1. i - 1 \in 1 .. L
        BY <1>1, <3>2
      <4> QED
        BY <1>5, <3>2, <4>1
    <3> QED
      BY <3>1, <3>2
  <2>2. g = k
    BY <2>1
  <2>3. Is(g)
    BY <2>2
  <2>4. Is(p)
    <3> HIDE DEF Is, g
    <3> QED
      BY <2>3
  <2>5. \A i \in 1 .. L : p[i] = IF i = 1 THEN seqs[i] ELSE p[i - 1] \o seqs[i]
    <3> HIDE DEF p, L
    <3> QED
      BY <2>4, Zenon
  <2> DEFINE T == {i \in 0 .. L : i # 0 => p[i] = f[i]}
  <2> HIDE DEF p
  <2>6. \A i \in 0 .. L : i \in T
    <3>1. 0 \in T
      BY <1>1
    <3>2. ASSUME NEW i \in 1 .. L, i - 1 \in T PROVE i \in T
      <4>1. CASE i = 1
        <5> HIDE DEF L
        <5>0. f[1] = f[1 - 1] \o seqs[1]
          BY <1>5, <4>1
        <5>3. 1 - 1 = 0
          OBVIOUS
        <5>1. f[1] = <<>> \o seqs[1]
          BY <1>5, <5>0, <5>3, Zenon
        <5>1a. p[1] = seqs[1]
          BY <2>5, <4>1
        <5>2. f[1] = seqs[1]
          BY <1>1, <4>1, <5>1, ConcatEmptySeq
        <5> QED
          BY <4>1, <5>1a, <5>2
      <4>2. CASE i # 1
        <5>1. p[i - 1] = f[i - 1]
          BY <3>2, <4>2
        <5>2. p[i] = p[i - 1] \o seqs[i] /\ f[i] = f[i - 1] \o seqs[i]
          BY <1>5, <2>5, <4>2
        <5>3. i \in 0 .. L
          BY <1>1
        <5> QED
          BY <5>1, <5>2, <5>3
      <4> QED
        BY <4>1, <4>2
    <3> HIDE DEF T, L
    <3> QED
      BY <1>1, <3>1, <3>2, InductionTo
  <2>7. p[L] = f[L]
    BY <1>1, <1>8, <2>6
  <2>8. FlattenSeq(seqs) = p[L]
    BY <1>8 DEF FlattenSeq, p
  <2> QED
    BY <1>6, <2>7, <2>8
<1> QED
  BY <1>7, <1>8

(* Every one of the sequences is a piece of the whole. *)
PieceAt(f, seqs, i) ==
  /\ Len(f[i - 1]) \in Nat /\ Len(f[i]) = Len(f[i - 1]) + Len(seqs[i])
  /\ Len(f[i]) <= Len(f[Len(seqs)])
  /\ \A j \in 1 .. Len(seqs[i]) : f[Len(seqs)][Len(f[i - 1]) + j] = seqs[i][j]

LEMMA Pieces ==
  ASSUME NEW S, NEW seqs \in Seq(Seq(S)), NEW f, Flattens(f, seqs, S), NEW i \in 1 .. Len(seqs)
  PROVE  PieceAt(f, seqs, i)
<1> DEFINE L == Len(seqs)
           T == {m \in 0 .. L : m >= i => Len(f[m]) >= Len(f[i]) /\ \A x \in 1 .. Len(f[i]) : f[m][x] = f[i][x]}
<1>1. L \in Nat /\ i \in 1 .. L /\ i \in 0 .. L /\ i - 1 \in 0 .. L /\ i \in Nat
  OBVIOUS
<1>2. /\ \A m \in 0 .. L : f[m] \in Seq(S) /\ Len(f[m]) \in Nat
      /\ \A m \in 1 .. L : f[m] = f[m - 1] \o seqs[m] /\ seqs[m] \in Seq(S)
  <2>1. f \in [0 .. L -> Seq(S)] /\ \A m \in 1 .. L : f[m] = f[m - 1] \o seqs[m]
    BY Zenon DEF Flattens
  <2>2. \A m \in 1 .. L : seqs[m] \in Seq(S)
    OBVIOUS
  <2> HIDE DEF L
  <2>3. \A m \in 0 .. L : f[m] \in Seq(S)
    BY <2>1, Zenon
  <2> QED
    BY <2>1, <2>2, <2>3, Typed, Zenon
<1> HIDE DEF L
<1>3. 0 \in T
  BY <1>1
<1>4. ASSUME NEW m \in 1 .. L, m - 1 \in T PROVE m \in T
  <2>1. m \in 0 .. L /\ m - 1 \in 0 .. L
    BY <1>1
  <2>2. m = i => m \in T
    BY <1>1, <1>2
  <2> SUFFICES ASSUME m > i PROVE m \in T
    BY <2>1, <2>2
  <2>3. m - 1 >= i
    BY <1>1
  <2>4. Len(f[m - 1]) >= Len(f[i]) /\ \A x \in 1 .. Len(f[i]) : f[m - 1][x] = f[i][x]
    BY <1>4, <2>3
  <2>5. /\ Len(f[m]) = Len(f[m - 1]) + Len(seqs[m]) /\ Len(seqs[m]) \in Nat
        /\ \A x \in 1 .. Len(f[m - 1]) : f[m][x] = f[m - 1][x]
    <3>1. f[m - 1] \in Seq(S) /\ seqs[m] \in Seq(S) /\ f[m] = f[m - 1] \o seqs[m]
      BY <1>2, <2>1
    <3>2. Joins(f[m], f[m - 1], seqs[m])
      BY <3>1, Joining, Zenon
    <3> QED
      BY <3>2, Zenon DEF Joins
  <2>6. Len(f[m - 1]) \in Nat /\ Len(f[i]) \in Nat
    BY <1>1, <1>2, <2>1
  <2>7. \A x \in 1 .. Len(f[i]) : x \in 1 .. Len(f[m - 1])
    BY <2>4, <2>6
  <2>8. Len(f[m]) >= Len(f[i])
    BY <2>4, <2>5, <2>6, NotShorter, Zenon
  <2> QED
    BY <2>1, <2>4, <2>5, <2>7, <2>8
<1>5. L \in T
  <2>1. \A m \in 0 .. L : m \in T
    <3> HIDE DEF T
    <3> QED
      BY <1>1, <1>3, <1>4, InductionTo
  <2> QED
    BY <1>1, <2>1
<1>6. Len(f[L]) >= Len(f[i]) /\ \A x \in 1 .. Len(f[i]) : f[L][x] = f[i][x]
  BY <1>1, <1>5
<1>7. /\ Len(f[i]) = Len(f[i - 1]) + Len(seqs[i]) /\ Len(seqs[i]) \in Nat /\ Len(f[i - 1]) \in Nat
      /\ \A j \in 1 .. Len(seqs[i]) : f[i][Len(f[i - 1]) + j] = seqs[i][j]
  <2>1. f[i - 1] \in Seq(S) /\ seqs[i] \in Seq(S) /\ f[i] = f[i - 1] \o seqs[i]
    BY <1>1, <1>2
  <2>2. Joins(f[i], f[i - 1], seqs[i])
    BY <2>1, Joining, Zenon
  <2> QED
    BY <2>2, Zenon DEF Joins
<1>8. \A j \in 1 .. Len(seqs[i]) : Len(f[i - 1]) + j \in 1 .. Len(f[i])
  BY <1>7, Further, Zenon
<1>9. Len(f[i]) <= Len(f[L])
  BY <1>1, <1>2, <1>6
<1> QED
  BY <1>6, <1>7, <1>8, <1>9 DEF PieceAt, L

-----------------------------------------------------------------------------
(* The path through a message that build_query has made.                   *)

Piece(ls) == [i \in DOMAIN ls |-> <<Len(ls[i])>> \o ls[i]]

(* An octet and a text behind it. *)
LEMMA Headed ==
  ASSUME NEW b \in Octets, NEW s \in Text
  PROVE  /\ <<b>> \o s \in Text /\ Len(<<b>> \o s) = Len(s) + 1 /\ Len(s) \in Nat
         /\ (<<b>> \o s)[1] = b /\ \A j \in 1 .. Len(s) : (<<b>> \o s)[j + 1] = s[j]
<1> DEFINE h == <<b>>
<1>1. h \in Seq(Octets) /\ Len(h) = 1 /\ h[1] = b /\ s \in Seq(Octets) /\ Len(s) \in Nat
  BY DEF Text
<1> HIDE DEF h
<1>2. /\ h \o s \in Seq(Octets) /\ Len(h \o s) = Len(h) + Len(s)
      /\ \A x \in 1 .. Len(h) : (h \o s)[x] = h[x]
      /\ \A x \in 1 .. Len(s) : (h \o s)[Len(h) + x] = s[x]
  <2>1. h \in Seq(Octets) /\ s \in Seq(Octets)
    BY <1>1, Zenon
  <2>2. h \o s \in Seq(Octets) /\ Joins(h \o s, h, s)
    BY <2>1, Joining
  <2> QED
    BY <2>2, Zenon DEF Joins
<1>3. \A j \in 1 .. Len(s) : Len(h) + j = j + 1
  BY <1>1
<1>4. \A j \in 1 .. Len(s) : (h \o s)[j + 1] = s[j]
  BY <1>2, <1>3
<1>5. h \o s \in Text /\ Len(h \o s) = Len(s) + 1 /\ (h \o s)[1] = b
  BY <1>1, <1>2 DEF Text
<1> QED
  BY <1>1, <1>4, <1>5 DEF h

(* The message has the octets of the pieces, one piece behind the other,   *)
(* from Start, and a root behind them.                                     *)
LEMMA QueryLayout ==
  ASSUME NEW ls \in Seq(Text), Buildable(ls)
  PROVE  /\ Piece(ls) \in Seq(Text) /\ Len(Piece(ls)) = Len(ls)
         /\ \A i \in 1 .. Len(ls) : /\ Len(ls[i]) \in 1 .. 63 /\ Ascii(ls[i]) /\ Len(Piece(ls)[i]) = Len(ls[i]) + 1
                                    /\ Piece(ls)[i][1] = Len(ls[i])
                                    /\ \A j \in 1 .. Len(ls[i]) : Piece(ls)[i][j + 1] = ls[i][j]
<1>1. DOMAIN ls = 1 .. Len(ls) /\ \A i \in 1 .. Len(ls) : ls[i] \in Seq(Octets) /\ Len(ls[i]) \in 1 .. 63 /\ Ascii(ls[i])
  BY DEF Buildable, Text
<1>2. ASSUME NEW i \in 1 .. Len(ls)
      PROVE  /\ Piece(ls)[i] \in Text /\ Len(Piece(ls)[i]) = Len(ls[i]) + 1
             /\ Piece(ls)[i][1] = Len(ls[i]) /\ \A j \in 1 .. Len(ls[i]) : Piece(ls)[i][j + 1] = ls[i][j]
  <2>1. Piece(ls)[i] = <<Len(ls[i])>> \o ls[i]
    BY <1>1 DEF Piece
  <2>2. Len(ls[i]) \in Octets /\ ls[i] \in Text
    BY <1>1 DEF Octets, Text
  <2> QED
    BY <2>1, <2>2, Headed
<1>3. Piece(ls) \in Seq(Text) /\ Len(Piece(ls)) = Len(ls)
  BY <1>1, <1>2 DEF Piece
<1> QED
  BY <1>1, <1>2, <1>3

QueryAt(m, f, n) ==
  /\ m \in Seq(Octets) /\ Len(m) = Start + Len(f[n]) + 1 + FixedSize /\ Len(f[n]) \in Nat
  /\ Len(f[n]) + 1 <= NameOctets
  /\ m[Start + Len(f[n]) + 1] = 0 /\ \A x \in 1 .. Len(f[n]) : m[Start + x] = f[n][x]

LEMMA QueryOctets ==
  ASSUME NEW ls \in Seq(Text), Buildable(ls)
  PROVE  \E f : Flattens(f, Piece(ls), Octets) /\ QueryAt(BuildQuery(ls), f, Len(ls))
<1>1. PICK f : Flattens(f, Piece(ls), Octets) /\ FlattenSeq(Piece(ls)) = f[Len(ls)]
  <2>1. Piece(ls) \in Seq(Seq(Octets)) /\ Len(Piece(ls)) = Len(ls)
    BY QueryLayout DEF Text
  <2> QED
    BY <2>1, FlattenFacts
<1> DEFINE n == Len(ls)
           z == [i \in 1 .. Start |-> 0]
           w == [i \in 1 .. FixedSize |-> 1]
           e == f[n] \o <<0>>
<1>2. Start \in Nat /\ FixedSize \in Nat
  BY SizeAssumption
<1>3. z \in Seq(Octets) /\ Len(z) = Start /\ w \in Seq(Octets) /\ Len(w) = FixedSize /\ <<0>> \in Seq(Octets)
  <2>1. 0 \in Octets /\ 1 \in Octets
    BY DEF Octets
  <2> QED
    BY <1>2, <2>1
<1>4. f[n] \in Seq(Octets) /\ Len(f[n]) \in Nat
  <2>1. Len(Piece(ls)) = n /\ n \in 0 .. n
    BY QueryLayout
  <2> QED
    BY <1>1, <2>1 DEF Flattens
<1>5. BuildQuery(ls) = (z \o e) \o w /\ Encoded(ls) = e
  BY <1>1 DEF BuildQuery, Encoded, Piece
<1> HIDE DEF n, z, w
<1>6. /\ e \in Seq(Octets) /\ Len(e) = Len(f[n]) + 1 /\ e[Len(f[n]) + 1] = 0
      /\ \A x \in 1 .. Len(f[n]) : e[x] = f[n][x]
  <2>1. Len(<<0>>) = 1 /\ <<0>>[1] = 0 /\ 1 \in 1 .. 1
    OBVIOUS
  <2> QED
    BY <1>3, <1>4, <2>1, ConcatElements
<1> HIDE DEF e
<1>7. /\ z \o e \in Seq(Octets) /\ Len(z \o e) = Start + Len(e)
      /\ \A x \in 1 .. Len(e) : (z \o e)[Start + x] = e[x]
  <2>1. z \in Seq(Octets) /\ e \in Seq(Octets) /\ Len(z) = Start
    BY <1>3, <1>6, Zenon
  <2>2. z \o e \in Seq(Octets) /\ Joins(z \o e, z, e)
    BY <2>1, Joining
  <2>3. Len(z \o e) = Len(z) + Len(e) /\ \A x \in 1 .. Len(e) : (z \o e)[Len(z) + x] = e[x]
    BY <2>2, Zenon DEF Joins
  <2> QED
    BY <2>1, <2>2, <2>3, Zenon
<1>8. /\ (z \o e) \o w \in Seq(Octets) /\ Len((z \o e) \o w) = Start + Len(e) + FixedSize
      /\ \A x \in 1 .. Start + Len(e) : ((z \o e) \o w)[x] = (z \o e)[x]
  BY <1>3, <1>7, ConcatElements
<1>9. \A x \in 1 .. Len(e) : BuildQuery(ls)[Start + x] = e[x]
  <2>1. \A x \in 1 .. Len(e) : Start + x \in 1 .. Start + Len(e)
    BY <1>2, <1>4, <1>6
  <2> QED
    BY <1>5, <1>7, <1>8, <2>1
<1>10. Len(f[n]) + 1 <= NameOctets
  BY <1>5, <1>6 DEF Buildable
<1>11. QueryAt(BuildQuery(ls), f, n)
  <2>1. Len(f[n]) + 1 \in 1 .. Len(e) /\ \A x \in 1 .. Len(f[n]) : x \in 1 .. Len(e)
    BY <1>4, <1>6
  <2>2. BuildQuery(ls)[Start + (Len(f[n]) + 1)] = 0 /\ Start + (Len(f[n]) + 1) = Start + Len(f[n]) + 1
    BY <1>2, <1>4, <1>6, <1>9, <2>1
  <2>3. \A x \in 1 .. Len(f[n]) : BuildQuery(ls)[Start + x] = f[n][x]
    BY <1>6, <1>9, <2>1
  <2>4. Len(BuildQuery(ls)) = Start + Len(f[n]) + 1 + FixedSize
    BY <1>2, <1>4, <1>5, <1>6, <1>8
  <2> QED
    BY <1>4, <1>5, <1>8, <1>10, <2>2, <2>3, <2>4 DEF QueryAt
<1> QED
  BY <1>1, <1>11 DEF n

(* A piece begins at the message's octet Start + Len(f[k]): it is a label. *)
OwnHop(ls, f, k) ==
  LET o == Start + Len(f[k]) IN
  /\ o \in Nat /\ IsLabel(o) /\ Span(o + 1, Octet(o)) = ls[k + 1]
  /\ o + 1 + Octet(o) = Start + Len(f[k + 1])

LEMMA OwnHops ==
  ASSUME NEW ls \in Seq(Text), Buildable(ls), NEW f, Flattens(f, Piece(ls), Octets),
         QueryAt(message, f, Len(ls)), NEW k \in 0 .. Len(ls) - 1
  PROVE  OwnHop(ls, f, k)
<1> DEFINE o == Start + Len(f[k])
           i == k + 1
           l == Len(ls[i])
<1>1. k \in Nat /\ i \in 1 .. Len(ls) /\ i - 1 = k /\ Start \in Nat /\ FixedSize \in Nat
  BY SizeAssumption
<1>2. /\ l \in 1 .. 63 /\ l \in Nat /\ Ascii(ls[i]) /\ Len(Piece(ls)[i]) = l + 1 /\ Piece(ls)[i][1] = l
      /\ \A j \in 1 .. l : Piece(ls)[i][j + 1] = ls[i][j]
      /\ ls[i] \in Text /\ Piece(ls) \in Seq(Seq(Octets)) /\ Len(Piece(ls)) = Len(ls)
  BY <1>1, QueryLayout DEF Text
<1> HIDE DEF i
<1>3. PieceAt(f, Piece(ls), i)
  BY <1>1, <1>2, Pieces
<1>4. /\ Len(f[k]) \in Nat /\ Len(f[i]) = Len(f[k]) + l + 1 /\ Len(f[i]) <= Len(f[Len(ls)])
      /\ \A j \in 1 .. l + 1 : f[Len(ls)][Len(f[k]) + j] = Piece(ls)[i][j]
  <2>1. /\ Len(f[k]) \in Nat /\ Len(f[i]) = Len(f[k]) + Len(Piece(ls)[i])
        /\ Len(f[i]) <= Len(f[Len(Piece(ls))])
        /\ \A j \in 1 .. Len(Piece(ls)[i]) : f[Len(Piece(ls))][Len(f[k]) + j] = Piece(ls)[i][j]
    BY <1>1, <1>3, Zenon DEF PieceAt
  <2>2. Len(Piece(ls)) = Len(ls) /\ Len(Piece(ls)[i]) = l + 1 /\ l \in Nat
    BY <1>2, Zenon
  <2>3. Len(f[k]) + (l + 1) = Len(f[k]) + l + 1
    <3>1. \A a \in Nat, b \in Nat : a + (b + 1) = a + b + 1
      OBVIOUS
    <3> QED
      BY <2>1, <2>2, <3>1, Zenon
  <2> QED
    BY <2>1, <2>2, <2>3, Zenon
<1>5. /\ message \in Seq(Octets) /\ Len(f[Len(ls)]) \in Nat
      /\ Len(message) = Start + Len(f[Len(ls)]) + 1 + FixedSize
      /\ \A x \in 1 .. Len(f[Len(ls)]) : message[Start + x] = f[Len(ls)][x]
  BY DEF QueryAt
<1> HIDE DEF l
<1> DEFINE e == Len(f[k])  g == Len(f[i])  w == Len(f[Len(ls)])
<1>12. /\ e \in Nat /\ w \in Nat /\ g = e + l + 1 /\ g <= w /\ o = Start + e
       /\ Start \in Nat /\ FixedSize \in Nat /\ l \in Nat /\ Len(message) = Start + w + 1 + FixedSize
  BY <1>1, <1>2, <1>4, <1>5, Zenon
<1> HIDE DEF e, g, w, o
<1>13. \A j \in 1 .. l + 1 : e + j \in 1 .. w /\ Start + (e + j) = o + j
  BY <1>12
<1>14. o \in Nat /\ o + 1 + l <= Len(message) /\ o + 1 + l = Start + g
  BY <1>12
<1>6. \A j \in 1 .. l + 1 : Len(f[k]) + j \in 1 .. Len(f[Len(ls)]) /\ Start + (Len(f[k]) + j) = o + j
  BY <1>13, Zenon DEF e, w
<1>7. \A j \in 1 .. l + 1 : message[o + j] = Piece(ls)[i][j]
  BY <1>4, <1>5, <1>6
<1>8. o \in Nat /\ o + 1 + l <= Len(message) /\ o + 1 + l = Start + Len(f[i])
  BY <1>14, Zenon DEF g
<1>9. Octet(o) = l
  <2>1. 1 \in 1 .. l + 1
    BY <1>2
  <2> QED
    BY <1>2, <1>7, <2>1 DEF Octet
<1>10. Span(o + 1, l) = ls[i]
  <2>1. /\ Span(o + 1, l) \in Seq(Octets) /\ Len(Span(o + 1, l)) = l
        /\ \A j \in 1 .. l : Span(o + 1, l)[j] = message[o + 1 + j]
    BY <1>2, <1>5, <1>8, SpanFacts DEF Text
  <2>2. \A j \in 1 .. l : Span(o + 1, l)[j] = ls[i][j]
    <3> SUFFICES ASSUME NEW j \in 1 .. l PROVE Span(o + 1, l)[j] = ls[i][j]
      OBVIOUS
    <3>1. j + 1 \in 1 .. l + 1 /\ o + (j + 1) = o + 1 + j
      BY <1>2, <1>8
    <3>2. message[o + (j + 1)] = ls[i][j]
      BY <1>2, <1>7, <3>1
    <3> QED
      BY <2>1, <3>1, <3>2
  <2> HIDE DEF l
  <2>3. Len(ls[i]) = l /\ ls[i] \in Seq(Octets)
    BY <1>2 DEF Text, l
  <2> QED
    BY <2>1, <2>2, <2>3, SeqEqual
<1>11. IsLabel(o)
  <2> HIDE DEF l
  <2>1. o < Len(message) /\ o + l < Len(message)
    BY <1>12, <1>14
  <2>2. Inside(o)
    BY <1>14, <2>1, Zenon DEF Inside
  <2> QED
    BY <1>2, <1>9, <1>10, <2>1, <2>2, Zenon DEF IsLabel, l
<1> QED
  BY <1>8, <1>9, <1>10, <1>11 DEF OwnHop, i, o

(* It has fewer labels than the loop has turns: each takes two octets.     *)
LEMMA OwnSize ==
  ASSUME NEW ls \in Seq(Text), Buildable(ls), NEW f, Flattens(f, Piece(ls), Octets),
         QueryAt(message, f, Len(ls))
  PROVE  Len(ls) \in Nat /\ Len(ls) < MaxSteps
<1> DEFINE n == Len(ls)
           T == {k \in 0 .. n : Len(f[k]) \in Nat /\ Len(f[k]) >= 2 * k}
<1>1. n \in Nat
  OBVIOUS
<1>2. 0 \in T
  <2>1. f[0] = <<>>
    BY DEF Flattens
  <2> QED
    BY <1>1, <2>1
<1>3. ASSUME NEW k \in 1 .. n, k - 1 \in T PROVE k \in T
  <2>1. PieceAt(f, Piece(ls), k) /\ Len(Piece(ls)[k]) = Len(ls[k]) + 1 /\ Len(ls[k]) \in 1 .. 63
    BY QueryLayout, Pieces DEF Text
  <2>2. Len(f[k]) = Len(f[k - 1]) + (Len(ls[k]) + 1)
    BY <2>1, Zenon DEF PieceAt
  <2>3. Len(f[k - 1]) \in Nat /\ Len(f[k - 1]) >= 2 * (k - 1) /\ k \in Nat /\ k \in 0 .. n
    BY <1>1, <1>3
  <2>4. \A a \in Nat, b \in 1 .. 63 : a >= 2 * (k - 1) => a + (b + 1) \in Nat /\ a + (b + 1) >= 2 * k
    BY <2>3
  <2>5. Len(f[k]) \in Nat /\ Len(f[k]) >= 2 * k
    BY <2>1, <2>2, <2>3, <2>4, Zenon
  <2> QED
    BY <2>3, <2>5
<1>4. \A k \in 0 .. n : k \in T
  <2> HIDE DEF T, n
  <2> QED
    BY <1>1, <1>2, <1>3, InductionTo
<1>5. n \in T
  BY <1>1, <1>4
<1>6. Len(f[n]) + 1 <= NameOctets /\ NameOctets = 2 * MaxSteps - 1 /\ MaxSteps \in Nat
  BY SizeAssumption DEF QueryAt
<1> HIDE DEF n
<1> QED
  BY <1>1, <1>5, <1>6 DEF n

(* The path goes from label to label, reads them, and comes to the root.   *)
LEMMA OwnPath ==
  ASSUME NEW ls \in Seq(Text), Buildable(ls), message = BuildQuery(ls)
  PROVE  WellFormed = {Len(ls)} /\ LabelsBefore[Len(ls)] = ls
<1> DEFINE n == Len(ls)
<1>1. PICK f : Flattens(f, Piece(ls), Octets) /\ QueryAt(message, f, n)
  BY QueryOctets
<1>2. n \in Nat /\ n < MaxSteps /\ MaxSteps \in Nat /\ message \in Seq(Octets) /\ Start \in Nat
  BY <1>1, OwnSize, SizeAssumption DEF QueryAt
<1>3. \A k \in 0 .. n - 1 : OwnHop(ls, f, k)
  BY <1>1, OwnHops
<1> HIDE DEF n
<1> DEFINE T == {k \in 0 .. n : Path[k] = Start + Len(f[k])}
<1>4. \A k \in 0 .. n : k \in T
  <2>1. 0 \in T
    <3>1. f[0] = <<>>
      BY <1>1 DEF Flattens
    <3> QED
      BY <1>2, <3>1, PathFacts
  <2>2. ASSUME NEW k \in 1 .. n, k - 1 \in T PROVE k \in T
    <3>1. k - 1 \in 0 .. n - 1 /\ k \in 0 .. n /\ k \in 1 .. MaxSteps /\ (k - 1) + 1 = k
      BY <1>2
    <3> DEFINE o == Path[k - 1]
    <3>2. o = Start + Len(f[k - 1])
      BY <2>2
    <3>3. o \in Nat /\ IsLabel(o) /\ o + 1 + Octet(o) = Start + Len(f[k])
      BY <1>3, <3>1, <3>2 DEF OwnHop
    <3>4. Path[k] = Hop(o)
      BY <1>2, <3>1, PathFacts
    <3>5. Hop(o) = o + 1 + Octet(o)
      BY <1>2, <3>3, Begins DEF Hop, Nowhere
    <3> QED
      BY <3>1, <3>3, <3>4, <3>5
  <2> HIDE DEF T
  <2> QED
    BY <1>2, <2>1, <2>2, InductionTo
<1>5. \A k \in 0 .. n - 1 : /\ Path[k] # Nowhere /\ IsLabel(Path[k]) /\ Path[k] \in Nat
                            /\ Span(Path[k] + 1, Octet(Path[k])) = ls[k + 1]
  <2> SUFFICES ASSUME NEW k \in 0 .. n - 1
               PROVE /\ Path[k] # Nowhere /\ IsLabel(Path[k]) /\ Path[k] \in Nat
                     /\ Span(Path[k] + 1, Octet(Path[k])) = ls[k + 1]
    OBVIOUS
  <2>1. k \in T
    BY <1>2, <1>4
  <2> QED
    BY <1>3, <2>1 DEF OwnHop, Nowhere
<1>6. LabelsBefore[n] = ls
  <2> DEFINE U == {k \in 0 .. n : Len(LabelsBefore[k]) = k /\ \A i \in 1 .. k : LabelsBefore[k][i] = ls[i]}
  <2>1. 0 \in U
    BY <1>2, LabelsFacts
  <2>2. ASSUME NEW k \in 1 .. n, k - 1 \in U PROVE k \in U
    <3>1. k - 1 \in 0 .. n - 1 /\ k \in 0 .. n /\ k \in 1 .. MaxSteps /\ k - 1 \in 0 .. MaxSteps /\ (k - 1) + 1 = k
      BY <1>2
    <3>2. LabelsBefore[k] = LabelsBefore[k - 1] \o <<ls[k]>> /\ LabelsBefore[k - 1] \in Seq(Text)
      <4>1. LabelAt(Path[k - 1]) = <<ls[k]>>
        BY <1>5, <3>1 DEF LabelAt
      <4> QED
        BY <1>2, <3>1, <4>1, LabelsFacts
    <3>3. ls[k] \in Text /\ <<ls[k]>> \in Seq(Text) /\ Len(<<ls[k]>>) = 1 /\ <<ls[k]>>[1] = ls[k] /\ 1 \in 1 .. 1
      BY DEF n
    <3>4. Len(LabelsBefore[k - 1]) = k - 1 /\ \A i \in 1 .. k - 1 : LabelsBefore[k - 1][i] = ls[i]
      BY <2>2
    <3>5. /\ Len(LabelsBefore[k]) = (k - 1) + 1
          /\ \A i \in 1 .. k - 1 : LabelsBefore[k][i] = LabelsBefore[k - 1][i]
          /\ LabelsBefore[k][(k - 1) + 1] = ls[k]
      BY <3>2, <3>3, <3>4, ConcatElements
    <3>6. \A i \in 1 .. k : i \in 1 .. k - 1 \/ i = k
      BY <1>2
    <3> QED
      BY <3>1, <3>4, <3>5, <3>6
  <2>3. n \in U
    <3>1. \A k \in 0 .. n : k \in U
      <4> HIDE DEF U
      <4> QED
        BY <1>2, <2>1, <2>2, InductionTo
    <3> QED
      BY <1>2, <3>1
  <2>4. LabelsBefore[n] \in Seq(Text)
    BY <1>2, LabelsFacts
  <2> QED
    BY <2>3, <2>4, SeqEqual DEF n
<1>7. OnPath(n)
  BY <1>2, <1>5 DEF OnPath, Labelled
<1>8. Path[n] = Start + Len(f[n]) /\ Len(f[n]) \in Nat /\ Path[n] \in Nat /\ IsRoot(Path[n])
  <2>1. Path[n] = Start + Len(f[n])
    BY <1>2, <1>4
  <2>2. /\ Len(f[n]) \in Nat /\ Len(message) = Start + Len(f[n]) + 1 + FixedSize
        /\ message[Start + Len(f[n]) + 1] = 0 /\ FixedSize \in Nat
    BY <1>1, SizeAssumption DEF QueryAt
  <2> QED
    BY <1>2, <2>1, <2>2 DEF IsRoot, Inside, Octet
<1>9. PointersTo(n) = {}
  BY <1>2, <1>5, Begins DEF PointersTo
<1>10. NameEnd(n) + FixedSize = Len(message)
  <2>1. NameEnd(n) = Path[n] + 1
    BY <1>9 DEF NameEnd, PointersTo
  <2> QED
    BY <1>1, <1>2, <1>8, <2>1, SizeAssumption DEF QueryAt
<1>11. n \in WellFormed
  <2>1. n \in 0 .. MaxSteps - 1 /\ Path[n] # Nowhere /\ Len(message) \in Nat
    BY <1>2, <1>8 DEF Nowhere
  <2> QED
    BY <1>8, <1>10, <2>1 DEF WellFormed, Length
<1>12. ASSUME NEW m \in WellFormed PROVE m = n
  <2>1. m \in Length /\ m \in 0 .. MaxSteps /\ Path[m] # Nowhere
    BY <1>2 DEF WellFormed, Length
  <2>2. m \in Nat /\ m >= n
    BY <1>2, <1>7, <2>1, RootAhead
  <2>3. n \notin Pointers \cup Labelled
    BY <1>8, Begins, <1>2 DEF Pointers, Labelled
  <2>4. ~(m > n)
    BY <1>2, <2>1, <2>3, DeadEnd
  <2> QED
    BY <1>2, <2>2, <2>4
<1> QED
  BY <1>6, <1>11, <1>12 DEF n

(***************************************************************************)
(* What build_query makes of any name it accepts is read back label by     *)
(* label: the loop's turns are enough for the longest of them.             *)
(***************************************************************************)
THEOREM ReadsOwnNames == Spec => []OwnNamesRead
<1>1. IInv => OwnNamesRead
  <2> SUFFICES ASSUME IInv, message \in OwnQueries, header = "one"
               PROVE state # "failed" /\ (state = "named" => BuildQuery(labels) = message)
    BY DEF OwnNamesRead
  <2>1. PICK ls \in Name : Buildable(ls) /\ message = BuildQuery(ls)
    BY DEF OwnQueries
  <2>2. ls \in Seq(Text)
    BY <2>1, NameAssumption DEF Text, Octets
  <2>3. WellFormed = {Len(ls)} /\ LabelsBefore[Len(ls)] = ls
    BY <2>1, <2>2, OwnPath
  <2> QED
    BY <2>1, <2>3 DEF IInv, DoneInv
<1> QED
  BY <1>1, LoopInvariance, PTL

-----------------------------------------------------------------------------
(* The text of a name.                                                     *)

(* The labels ls lie in the text t one behind the other, P[k] - 1 octets   *)
(* for the first k of them, with dots between them.                        *)
LayOut(t, ls, P) ==
  /\ t \in Text /\ ls \in Seq(Text) /\ ls # <<>>
  /\ P \in [0 .. Len(ls) -> Nat] /\ P[0] = 0 /\ Len(t) = P[Len(ls)] - 1
  /\ \A k \in 1 .. Len(ls) :
       /\ P[k] = P[k - 1] + Len(ls[k]) + 1 /\ P[k] <= P[Len(ls)]
       /\ \A j \in 1 .. Len(ls[k]) : t[P[k - 1] + j] = ls[k][j]
  /\ \A k \in 1 .. Len(ls) - 1 : t[P[k]] = Dot

LEMMA JoinedLayOut ==
  ASSUME NEW ls \in Seq(Text), ls # <<>>
  PROVE  \E P : LayOut(Joined(ls), ls, P)
<1> DEFINE q == [i \in DOMAIN ls |-> <<Dot>> \o ls[i]]
           n == Len(ls)
<1>1. n \in Nat /\ n >= 1 /\ DOMAIN ls = 1 .. n /\ \A k \in 1 .. n : ls[k] \in Text
  <2>1. n # 0
    BY EmptySeq
  <2> QED
    BY <2>1
<1>2. \A k \in 1 .. n : /\ q[k] \in Seq(Octets) /\ Len(q[k]) = Len(ls[k]) + 1 /\ Len(ls[k]) \in Nat
                        /\ q[k][1] = Dot /\ \A j \in 1 .. Len(ls[k]) : q[k][j + 1] = ls[k][j]
  <2> SUFFICES ASSUME NEW k \in 1 .. n
               PROVE /\ q[k] \in Seq(Octets) /\ Len(q[k]) = Len(ls[k]) + 1 /\ Len(ls[k]) \in Nat
                     /\ q[k][1] = Dot /\ \A j \in 1 .. Len(ls[k]) : q[k][j + 1] = ls[k][j]
    OBVIOUS
  <2>1. q[k] = <<Dot>> \o ls[k] /\ ls[k] \in Text /\ Dot \in Octets
    BY <1>1 DEF Dot, Octets
  <2> HIDE DEF q
  <2> QED
    BY <2>1, Headed DEF Text
<1>3. q \in Seq(Seq(Octets)) /\ Len(q) = n
  BY <1>1, <1>2
<1>4. Joined(ls) = Tail(FlattenSeq(q))
  BY DEF Joined
<1> HIDE DEF q, n
<1>5. PICK f : Flattens(f, q, Octets) /\ FlattenSeq(q) = f[n]
  BY <1>3, FlattenFacts
<1> DEFINE P == [k \in 0 .. n |-> Len(f[k])]
           t == Tail(f[n])
<1>6. \A k \in 0 .. n : f[k] \in Seq(Octets) /\ Len(f[k]) \in Nat
  <2>1. f \in [0 .. n -> Seq(Octets)]
    BY <1>3, <1>5, Zenon DEF Flattens
  <2> QED
    BY <2>1, Typed, Zenon
<1>7. ASSUME NEW k \in 1 .. n
      PROVE  /\ P[k] = P[k - 1] + Len(ls[k]) + 1 /\ P[k] <= P[n] /\ P[k - 1] \in Nat
             /\ f[n][P[k - 1] + 1] = Dot
             /\ \A j \in 1 .. Len(ls[k]) : f[n][P[k - 1] + (j + 1)] = ls[k][j]
  <2>1. PieceAt(f, q, k)
    BY <1>3, <1>5, Pieces
  <2>2. /\ Len(f[k - 1]) \in Nat /\ Len(f[k]) = Len(f[k - 1]) + Len(q[k]) /\ Len(f[k]) <= Len(f[n])
        /\ \A j \in 1 .. Len(q[k]) : f[n][Len(f[k - 1]) + j] = q[k][j]
    BY <1>3, <2>1 DEF PieceAt
  <2>3. P[k] = Len(f[k]) /\ P[k - 1] = Len(f[k - 1]) /\ P[n] = Len(f[n])
    BY <1>1
  <2> HIDE DEF P
  <2>4. Len(q[k]) = Len(ls[k]) + 1 /\ Len(ls[k]) \in Nat
    BY <1>2
  <2>5. 1 \in 1 .. Len(q[k]) /\ \A j \in 1 .. Len(ls[k]) : j + 1 \in 1 .. Len(q[k])
    BY <2>4
  <2>6. f[n][P[k - 1] + 1] = Dot /\ \A j \in 1 .. Len(ls[k]) : f[n][P[k - 1] + (j + 1)] = ls[k][j]
    BY <1>2, <2>2, <2>3, <2>5
  <2>7. P[k] = P[k - 1] + Len(ls[k]) + 1
    <3>1. \A a \in Nat, b \in Nat : a + (b + 1) = a + b + 1
      OBVIOUS
    <3> QED
      BY <2>2, <2>3, <2>4, <3>1, Zenon
  <2> QED
    BY <2>2, <2>3, <2>6, <2>7
<1>8. P \in [0 .. n -> Nat] /\ P[0] = 0 /\ P[n] = Len(f[n])
  <2>1. f[0] = <<>>
    BY <1>5 DEF Flattens
  <2> QED
    BY <1>1, <1>6, <2>1
<1> HIDE DEF P
<1>9. f[n] # <<>> /\ f[n] \in Seq(Octets)
  <2>1. P[n] >= 1
    <3>1. n \in 1 .. n
      BY <1>1
    <3>2. P[n] = P[n - 1] + Len(ls[n]) + 1 /\ P[n - 1] \in Nat /\ Len(ls[n]) \in Nat
      BY <1>2, <1>7, <3>1, Zenon
    <3>3. \A a \in Nat, b \in Nat : a + b + 1 >= 1
      OBVIOUS
    <3> QED
      BY <3>2, <3>3, Zenon
  <2> QED
    BY <1>1, <1>6, <1>8, <2>1
<1>10. t \in Text /\ Len(t) = P[n] - 1 /\ \A i \in 1 .. Len(t) : t[i] = f[n][i + 1]
  BY <1>8, <1>9, HeadTailProperties DEF Text
<1> HIDE DEF t
<1>11. \A k \in 1 .. n : \A j \in 1 .. Len(ls[k]) : t[P[k - 1] + j] = ls[k][j]
  <2> SUFFICES ASSUME NEW k \in 1 .. n, NEW j \in 1 .. Len(ls[k]) PROVE t[P[k - 1] + j] = ls[k][j]
    OBVIOUS
  <2>1. Len(ls[k]) \in Nat /\ P[n] \in Nat
    BY <1>1, <1>2, <1>8
  <2>2. P[k - 1] + j \in 1 .. Len(t) /\ (P[k - 1] + j) + 1 = P[k - 1] + (j + 1)
    <3>1. /\ P[k - 1] \in Nat /\ P[k - 1] + Len(ls[k]) + 1 <= P[n] /\ Len(t) = P[n] - 1
      BY <1>7, <1>10, Zenon
    <3> QED
      BY <2>1, <3>1, WithinText, ZenonT(40)
  <2>3. f[n][P[k - 1] + (j + 1)] = ls[k][j]
    BY <1>7, Zenon
  <2> QED
    BY <1>10, <2>2, <2>3, Zenon
<1>12. \A k \in 1 .. n - 1 : t[P[k]] = Dot
  <2> SUFFICES ASSUME NEW k \in 1 .. n - 1 PROVE t[P[k]] = Dot
    OBVIOUS
  <2>1. k \in 1 .. n /\ k + 1 \in 1 .. n /\ (k + 1) - 1 = k
    BY <1>1
  <2>2. /\ P[k] = P[k - 1] + Len(ls[k]) + 1 /\ P[k - 1] \in Nat /\ Len(ls[k]) \in Nat
        /\ P[k + 1] = P[k] + Len(ls[k + 1]) + 1 /\ P[k + 1] <= P[n] /\ Len(ls[k + 1]) \in Nat /\ P[n] \in Nat
    <3>1. n \in 0 .. n
      BY <1>1
    <3>2. P[n] \in Nat
      BY <1>8, <3>1, Zenon
    <3> QED
      BY <1>2, <1>7, <2>1, <3>2, Zenon
  <2>3. P[k] \in 1 .. Len(t)
    BY <1>10, <2>2, DotWithin, Zenon
  <2>4. f[n][P[k] + 1] = Dot
    BY <1>7, <2>1
  <2> QED
    BY <1>10, <2>3, <2>4
<1>13. Joined(ls) = t
  BY <1>4, <1>5 DEF t
<1> QED
  BY <1>7, <1>8, <1>10, <1>11, <1>12, <1>13 DEF LayOut, n

(* No letter in lower case or upper case is a dot. *)
LowerAll(ls) == [k \in DOMAIN ls |-> Lower(ls[k])]
Dotless(ls) == \A k \in 1 .. Len(ls) : Len(ls[k]) >= 1 /\ \A j \in 1 .. Len(ls[k]) : ls[k][j] # Dot

LEMMA LowerFacts ==
  ASSUME NEW t \in Text
  PROVE  /\ Lower(t) \in Text /\ Len(Lower(t)) = Len(t)
         /\ \A i \in 1 .. Len(t) : /\ Lower(t)[i] = (IF t[i] \in 65 .. 90 THEN t[i] + 32 ELSE t[i])
                                   /\ Lower(t)[i] = Dot <=> t[i] = Dot
<1>1. DOMAIN t = 1 .. Len(t) /\ Len(t) \in Nat /\ \A i \in 1 .. Len(t) : t[i] \in Octets
  BY DEF Text
<1>2. \A b \in Octets : LET c == IF b \in 65 .. 90 THEN b + 32 ELSE b IN c \in Octets /\ (c = Dot <=> b = Dot)
  BY DEF Octets, Dot
<1>3. \A i \in 1 .. Len(t) : /\ Lower(t)[i] = (IF t[i] \in 65 .. 90 THEN t[i] + 32 ELSE t[i])
                             /\ Lower(t)[i] \in Octets /\ (Lower(t)[i] = Dot <=> t[i] = Dot)
  BY <1>1, <1>2 DEF Lower
<1>4. Lower(t) \in Seq(Octets) /\ Len(Lower(t)) = Len(t)
  BY <1>1, <1>3 DEF Lower
<1> QED
  BY <1>3, <1>4 DEF Text

LEMMA LowerAllFacts ==
  ASSUME NEW ls \in Seq(Text)
  PROVE  /\ LowerAll(ls) \in Seq(Text) /\ Len(LowerAll(ls)) = Len(ls)
         /\ \A k \in 1 .. Len(ls) : LowerAll(ls)[k] = Lower(ls[k])
         /\ Dotless(ls) => Dotless(LowerAll(ls))
<1>1. DOMAIN ls = 1 .. Len(ls) /\ \A k \in 1 .. Len(ls) : ls[k] \in Text
  OBVIOUS
<1>2. \A k \in 1 .. Len(ls) : LowerAll(ls)[k] = Lower(ls[k]) /\ Lower(ls[k]) \in Text
  BY <1>1, LowerFacts DEF LowerAll
<1>3. LowerAll(ls) \in Seq(Text) /\ Len(LowerAll(ls)) = Len(ls)
  BY <1>1, <1>2 DEF LowerAll
<1>4. Dotless(ls) => Dotless(LowerAll(ls))
  <2> SUFFICES ASSUME Dotless(ls), NEW k \in 1 .. Len(ls)
               PROVE /\ Len(LowerAll(ls)[k]) >= 1
                     /\ \A j \in 1 .. Len(LowerAll(ls)[k]) : LowerAll(ls)[k][j] # Dot
    BY <1>3 DEF Dotless
  <2> QED
    BY <1>1, <1>2, LowerFacts DEF Dotless
<1> QED
  BY <1>2, <1>3, <1>4

LEMMA LowerLayOut ==
  ASSUME NEW t, NEW ls, NEW P, LayOut(t, ls, P)
  PROVE  LayOut(Lower(t), LowerAll(ls), P)
<1> DEFINE n == Len(ls)
<1>1. /\ t \in Text /\ ls \in Seq(Text) /\ ls # <<>> /\ n \in Nat
      /\ P \in [0 .. n -> Nat] /\ P[0] = 0 /\ Len(t) = P[n] - 1
      /\ \A k \in 1 .. n : /\ P[k] = P[k - 1] + Len(ls[k]) + 1 /\ P[k] <= P[n]
                           /\ \A j \in 1 .. Len(ls[k]) : t[P[k - 1] + j] = ls[k][j]
      /\ \A k \in 1 .. n - 1 : t[P[k]] = Dot
  BY DEF LayOut
<1>2. /\ LowerAll(ls) \in Seq(Text) /\ Len(LowerAll(ls)) = n
      /\ \A k \in 1 .. n : LowerAll(ls)[k] = Lower(ls[k]) /\ ls[k] \in Text
      /\ Lower(t) \in Text /\ Len(Lower(t)) = Len(t)
  BY <1>1, LowerAllFacts, LowerFacts
<1>3. LowerAll(ls) # <<>>
  BY <1>1, <1>2, EmptySeq
<1> HIDE DEF n
<1>4. ASSUME NEW k \in 1 .. n
      PROVE /\ P[k] = P[k - 1] + Len(LowerAll(ls)[k]) + 1 /\ P[k] <= P[n]
            /\ \A j \in 1 .. Len(LowerAll(ls)[k]) : Lower(t)[P[k - 1] + j] = LowerAll(ls)[k][j]
  <2>1. Len(LowerAll(ls)[k]) = Len(ls[k]) /\ Len(ls[k]) \in Nat
    BY <1>2, LowerFacts DEF Text
  <2> SUFFICES ASSUME NEW j \in 1 .. Len(ls[k]) PROVE Lower(t)[P[k - 1] + j] = Lower(ls[k])[j]
    BY <1>1, <1>2, <2>1
  <2>2. P[k - 1] \in Nat /\ P[k] \in Nat /\ P[n] \in Nat
    <3>1. k - 1 \in 0 .. n /\ k \in 0 .. n /\ n \in 0 .. n
      BY <1>1
    <3> QED
      BY <1>1, <3>1
  <2>3. P[k - 1] + j \in 1 .. Len(t)
    <3>1. P[k - 1] + Len(ls[k]) + 1 <= P[n] /\ Len(t) = P[n] - 1
      BY <1>1, Zenon
    <3> QED
      BY <2>1, <2>2, <3>1, WithinText, Zenon
  <2>4. t \in Text /\ ls[k] \in Text /\ t[P[k - 1] + j] = ls[k][j]
    BY <1>1, <1>2, Zenon
  <2>5. /\ Lower(t)[P[k - 1] + j] = IF t[P[k - 1] + j] \in 65 .. 90 THEN t[P[k - 1] + j] + 32 ELSE t[P[k - 1] + j]
        /\ Lower(ls[k])[j] = IF ls[k][j] \in 65 .. 90 THEN ls[k][j] + 32 ELSE ls[k][j]
    BY <2>3, <2>4, LowerFacts, Zenon
  <2> QED
    BY <2>4, <2>5
<1>5. ASSUME NEW k \in 1 .. n - 1 PROVE Lower(t)[P[k]] = Dot
  <2>1. k \in 1 .. n /\ k + 1 \in 1 .. n /\ k \in 0 .. n /\ k - 1 \in 0 .. n /\ n \in 0 .. n /\ (k + 1) - 1 = k
    BY <1>1
  <2>2. P[k] \in Nat /\ P[k - 1] \in Nat /\ P[n] \in Nat /\ Len(ls[k]) \in Nat /\ Len(ls[k + 1]) \in Nat
    <3>1. P[k] \in Nat /\ P[k - 1] \in Nat /\ P[n] \in Nat
      BY <1>1, <2>1, Zenon
    <3>2. ls[k] \in Seq(Octets) /\ ls[k + 1] \in Seq(Octets)
      BY <1>2, <2>1, Zenon DEF Text
    <3> QED
      BY <3>1, <3>2, Typed, Zenon
  <2>3. P[k] = P[k - 1] + Len(ls[k]) + 1 /\ P[k + 1] = P[k] + Len(ls[k + 1]) + 1 /\ P[k + 1] <= P[n]
    BY <1>1, <2>1
  <2>4. P[k] \in 1 .. Len(t)
    <3>1. Len(t) = P[n] - 1
      BY <1>1, Zenon
    <3> QED
      BY <2>2, <2>3, <3>1, DotWithin, Zenon
  <2> QED
    BY <1>1, <2>4, LowerFacts
<1> QED
  BY <1>1, <1>2, <1>3, <1>4, <1>5 DEF LayOut

-----------------------------------------------------------------------------
(* The dots of a text laid out so, and what it is split into at them.      *)
Dots(t) == {i \in DOMAIN t : t[i] = Dot}
NextCut(t, i) == Min({j \in Dots(t) \cup {Len(t) + 1} : j > i})

(* Each label ends behind where it begins, before the next one.            *)
Rising(P, n) == \A a, b \in 0 .. n : a < b => P[a] < P[b]

LEMMA LayOutRises ==
  ASSUME NEW t, NEW ls, NEW P, LayOut(t, ls, P)
  PROVE  Rising(P, Len(ls))
<1> DEFINE n == Len(ls)
<1>1. /\ n \in Nat /\ P \in [0 .. n -> Nat] /\ \A k \in 1 .. n : ls[k] \in Text
      /\ \A k \in 1 .. n : P[k] = P[k - 1] + Len(ls[k]) + 1
  BY DEF LayOut
<1> SUFFICES ASSUME NEW a \in 0 .. n PROVE \A b \in 0 .. n : a < b => P[a] < P[b]
  BY DEF Rising
<1> HIDE DEF n
<1> DEFINE T == {b \in 0 .. n : a < b => P[a] < P[b]}
<1>2. 0 \in T
  BY <1>1
<1>3. ASSUME NEW b \in 1 .. n, b - 1 \in T PROVE b \in T
  <2>1. b - 1 \in 0 .. n /\ b \in 0 .. n /\ (a < b => a < b - 1 \/ a = b - 1)
    BY <1>1
  <2>2. P[b - 1] \in Nat /\ P[a] \in Nat /\ Len(ls[b]) \in Nat
    BY <1>1, <2>1 DEF Text
  <2>3. P[b - 1] < P[b]
    BY <1>1, <2>2
  <2>4. P[b] \in Nat
    BY <1>1, <2>1
  <2> QED
    BY <1>3, <2>1, <2>2, <2>3, <2>4
<1>4. \A b \in 0 .. n : b \in T
  <2> HIDE DEF T
  <2> QED
    BY <1>1, <1>2, <1>3, InductionTo
<1> QED
  BY <1>4

(* The dots are those between the labels. *)
LEMMA LayOutDots ==
  ASSUME NEW t, NEW ls, NEW P, LayOut(t, ls, P), Dotless(ls)
  PROVE  Dots(t) = {P[k] : k \in 1 .. Len(ls) - 1} /\ t[Len(t)] # Dot /\ Len(t) >= 1
<1> DEFINE n == Len(ls)
<1>1. /\ t \in Text /\ n \in Nat /\ P \in [0 .. n -> Nat] /\ P[0] = 0 /\ Len(t) = P[n] - 1
      /\ DOMAIN t = 1 .. Len(t) /\ ls # <<>> /\ ls \in Seq(Text) /\ \A k \in 1 .. n : ls[k] \in Text
      /\ \A k \in 1 .. n : P[k] = P[k - 1] + Len(ls[k]) + 1 /\ \A j \in 1 .. Len(ls[k]) : t[P[k - 1] + j] = ls[k][j]
      /\ \A k \in 1 .. n - 1 : t[P[k]] = Dot
  BY DEF LayOut, Text
<1>2. n >= 1
  BY <1>1, EmptySeq
<1>3. Rising(P, n)
  BY LayOutRises
<1>4. \A k \in 1 .. n : Len(ls[k]) \in Nat /\ Len(ls[k]) >= 1 /\ \A j \in 1 .. Len(ls[k]) : ls[k][j] # Dot
  BY <1>1 DEF Dotless, Text
<1> HIDE DEF n
<1>5. ASSUME NEW k \in 1 .. n - 1 PROVE P[k] \in Dots(t)
  <2>1. 0 < k /\ k < n /\ k \in 0 .. n /\ 0 \in 0 .. n /\ n \in 0 .. n
    BY <1>1
  <2>2. P[0] < P[k] /\ P[k] < P[n] /\ P[k] \in Nat /\ P[n] \in Nat
    BY <1>1, <1>3, <2>1 DEF Rising
  <2>3. P[k] \in 1 .. Len(t)
    BY <1>1, <2>2
  <2> QED
    BY <1>1, <2>3 DEF Dots
<1>6. ASSUME NEW i \in Dots(t) PROVE \E k \in 1 .. n - 1 : i = P[k]
  <2> DEFINE K == {k \in 1 .. n : i < P[k]}
  <2>1. i \in 1 .. Len(t) /\ i \in Nat /\ t[i] = Dot /\ n \in 0 .. n
    BY <1>1 DEF Dots
  <2>2. n \in K /\ K \subseteq Nat
    BY <1>1, <1>2, <2>1
  <2>3. PICK k \in K : \A m \in K : k <= m
    BY <2>2, LeastNumber
  <2>4. k \in 1 .. n /\ k - 1 \in 0 .. n /\ i < P[k] /\ P[k - 1] \in Nat
    BY <1>1, <2>3
  <2>5. ~(i < P[k - 1])
    <3>1. CASE k - 1 = 0
      BY <1>1, <2>1, <3>1
    <3>2. CASE k - 1 # 0
      <4>1. k - 1 \in 1 .. n /\ ~(k <= k - 1)
        BY <2>4, <3>2
      <4> QED
        BY <2>3, <4>1
    <3> QED
      BY <3>1, <3>2
  <2>6. i = P[k - 1]
    <3> SUFFICES ASSUME i # P[k - 1] PROVE FALSE
      OBVIOUS
    <3>1. Len(ls[k]) \in Nat /\ P[k] = P[k - 1] + Len(ls[k]) + 1
      BY <1>1, <1>4, <2>4
    <3>2. i - P[k - 1] \in 1 .. Len(ls[k]) /\ P[k - 1] + (i - P[k - 1]) = i
      BY <2>1, <2>4, <2>5, <3>1, SMTT(30)
    <3>3. t[P[k - 1] + (i - P[k - 1])] = ls[k][i - P[k - 1]] /\ ls[k][i - P[k - 1]] # Dot
      BY <1>1, <1>4, <2>4, <3>2
    <3> QED
      BY <2>1, <3>2, <3>3
  <2>7. k - 1 # 0
    BY <1>1, <2>1, <2>6
  <2>8. k - 1 \in 1 .. n - 1
    BY <1>1, <2>4, <2>7
  <2> QED
    BY <2>6, <2>8
<1>7. t[Len(t)] # Dot /\ Len(t) >= 1
  <2>1. n \in 1 .. n /\ n - 1 \in 0 .. n
    BY <1>1, <1>2
  <2>2. Len(ls[n]) \in 1 .. Len(ls[n]) /\ P[n - 1] + Len(ls[n]) = Len(t) /\ P[n - 1] \in Nat /\ Len(ls[n]) >= 1 /\ Len(ls[n]) \in Nat
    BY <1>1, <1>4, <2>1
  <2>3. t[P[n - 1] + Len(ls[n])] = ls[n][Len(ls[n])] /\ ls[n][Len(ls[n])] # Dot
    BY <1>1, <1>4, <2>1, <2>2
  <2> QED
    BY <2>2, <2>3
<1>8. Dots(t) = {P[k] : k \in 1 .. n - 1}
  BY <1>5, <1>6
<1> QED
  BY <1>7, <1>8 DEF n

LEMMA GreatestOf ==
  ASSUME NEW T, T \subseteq Nat, NEW m \in T, \A k \in T : m >= k
  PROVE  Max(T) = m
<1>1. Max(T) = CHOOSE x \in T : \A k \in T : x >= k
  BY DEF Max
<1>2. Max(T) \in T /\ \A k \in T : Max(T) >= k
  BY <1>1, Zenon
<1>3. Max(T) \in Nat /\ m \in Nat /\ Max(T) >= m /\ m >= Max(T)
  BY <1>2, Zenon
<1>4. \A a \in Nat, b \in Nat : a >= b /\ b >= a => a = b
  OBVIOUS
<1> QED
  BY <1>3, <1>4, Zenon

(* No dot is stripped. *)
LEMMA NothingStripped ==
  ASSUME NEW t, NEW ls, NEW P, LayOut(t, ls, P), Dotless(ls)
  PROVE  RightStripped(t) = t
<1>1. t \in Seq(Octets) /\ DOMAIN t = 1 .. Len(t) /\ Len(t) \in Nat /\ Len(t) >= 1 /\ t[Len(t)] # Dot
  <2>1. t \in Seq(Octets)
    BY Zenon DEF LayOut, Text
  <2> QED
    BY <2>1, LayOutDots, Typed, Zenon
<1> DEFINE T == {0} \cup {i \in DOMAIN t : t[i] # Dot}
<1>2. T \subseteq Nat /\ Len(t) \in T /\ \A k \in T : Len(t) >= k
  BY <1>1
<1>3. Max(T) = Len(t)
  <2> HIDE DEF T
  <2> QED
    BY <1>2, GreatestOf
<1> QED
  BY <1>1, <1>3, SubSeqFull DEF RightStripped

LEMMA DotsCounted ==
  ASSUME NEW t, NEW ls, NEW P, LayOut(t, ls, P), Dotless(ls)
  PROVE  Cardinality(Dots(t)) = Len(ls) - 1
<1> DEFINE n == Len(ls)
           g == [k \in 1 .. n - 1 |-> P[k]]
<1>1. n \in Nat /\ n >= 1 /\ P \in [0 .. n -> Nat] /\ Rising(P, n) /\ Dots(t) = {P[k] : k \in 1 .. n - 1}
  <2>1. ls \in Seq(Text) /\ ls # <<>> /\ P \in [0 .. n -> Nat]
    BY DEF LayOut
  <2>2. n \in Nat /\ n >= 1
    BY <2>1, EmptySeq
  <2>3. Rising(P, n)
    BY LayOutRises
  <2>4. Dots(t) = {P[k] : k \in 1 .. n - 1}
    BY LayOutDots
  <2> QED
    BY <2>1, <2>2, <2>3, <2>4
<1> HIDE DEF n
<1>2. \A a, b \in 1 .. n - 1 : g[a] = g[b] => a = b
  <2> SUFFICES ASSUME NEW a \in 1 .. n - 1, NEW b \in 1 .. n - 1, a # b PROVE g[a] # g[b]
    OBVIOUS
  <2>1. a \in 0 .. n /\ b \in 0 .. n /\ (a < b \/ b < a)
    BY <1>1
  <2>2. P[a] \in Nat /\ P[b] \in Nat /\ (P[a] < P[b] \/ P[b] < P[a])
    BY <1>1, <2>1 DEF Rising
  <2> QED
    BY <2>2
<1>3. g \in [1 .. n - 1 -> Dots(t)] /\ \A d \in Dots(t) : \E k \in 1 .. n - 1 : g[k] = d
  BY <1>1
<1>4. ExistsBijection(1 .. n - 1, Dots(t))
  <2>1. g \in Injection(1 .. n - 1, Dots(t))
    BY <1>2, <1>3 DEF Injection, IsInjective
  <2>2. g \in Surjection(1 .. n - 1, Dots(t))
    BY <1>3 DEF Surjection
  <2> QED
    BY <2>1, <2>2 DEF ExistsBijection, Bijection
<1>5. n - 1 \in Nat
  BY <1>1
<1> QED
  BY <1>4, <1>5, FS_CountingElements DEF n

(* The next dot, or the end of the text, behind one ends the next label.   *)
LEMMA NextCuts ==
  ASSUME NEW t, NEW ls, NEW P, LayOut(t, ls, P), Dotless(ls), NEW k \in 1 .. Len(ls)
  PROVE  NextCut(t, P[k - 1]) = P[k]
<1> DEFINE n == Len(ls)
           C == {j \in Dots(t) \cup {Len(t) + 1} : j > P[k - 1]}
<1>1. /\ n \in Nat /\ P \in [0 .. n -> Nat] /\ Rising(P, n) /\ Dots(t) = {P[m] : m \in 1 .. n - 1}
      /\ Len(t) = P[n] - 1 /\ Len(t) \in Nat
  <2>1. /\ t \in Seq(Octets) /\ ls \in Seq(Text) /\ P \in [0 .. n -> Nat] /\ Len(t) = P[n] - 1
    BY Zenon DEF LayOut, Text
  <2>2. Rising(P, n)
    BY LayOutRises
  <2>3. Dots(t) = {P[m] : m \in 1 .. n - 1}
    BY LayOutDots
  <2> QED
    BY <2>1, <2>2, <2>3, Typed, Zenon
<1>2. k \in 1 .. n
  OBVIOUS
<1> HIDE DEF n
<1>3. Dots(t) \cup {Len(t) + 1} = {P[m] : m \in 1 .. n}
  <2>1. n \in 0 .. n /\ P[n] \in Nat
    BY <1>1
  <2>2. Len(t) + 1 = P[n]
    BY <1>1, <2>1
  <2>3. \A m : m \in 1 .. n <=> m \in 1 .. n - 1 \/ m = n
    BY <1>1, <1>2
  <2> QED
    BY <1>1, <2>2, <2>3
<1>4. k \in 0 .. n /\ k - 1 \in 0 .. n /\ k - 1 < k /\ P[k] \in Nat /\ P[k - 1] \in Nat
  BY <1>1, <1>2
<1>5. P[k - 1] < P[k]
  BY <1>1, <1>4 DEF Rising
<1>6. P[k] \in C
  BY <1>2, <1>3, <1>4, <1>5
<1>7. ASSUME NEW c \in C PROVE P[k] <= c /\ c \in Nat
  <2>1. PICK m \in 1 .. n : c = P[m]
    BY <1>3
  <2>2. m \in 0 .. n /\ P[m] \in Nat /\ P[m] > P[k - 1]
    BY <1>1, <2>1
  <2>3. ~(m < k - 1) /\ m # k - 1
    <3>1. m < k - 1 => P[m] < P[k - 1]
      BY <1>1, <1>4, <2>2 DEF Rising
    <3> QED
      BY <1>4, <2>2, <3>1
  <2>4. m = k \/ k < m
    BY <1>2, <2>2, <2>3
  <2>5. k < m => P[k] < P[m]
    BY <1>1, <1>4, <2>2 DEF Rising
  <2> QED
    BY <1>4, <2>1, <2>2, <2>4, <2>5
<1>8. Min(C) \in C /\ \A c \in C : Min(C) <= c
  <2>1. C \subseteq Nat /\ C # {}
    BY <1>6, <1>7
  <2> HIDE DEF C
  <2> QED
    BY <2>1, LeastOf
<1>9. Min(C) = P[k]
  <2>1. Min(C) \in Nat /\ P[k] <= Min(C) /\ Min(C) <= P[k]
    BY <1>6, <1>7, <1>8
  <2> QED
    BY <1>4, <2>1
<1> QED
  BY <1>9 DEF NextCut

(* Split at its dots, the text is the labels again. *)
LEMMA SplitLayOut ==
  ASSUME NEW t, NEW ls, NEW P, LayOut(t, ls, P), Dotless(ls)
  PROVE  Split(t) = ls
<1> DEFINE n == Cardinality(Dots(t)) + 1
           Is(c) == c = [k \in 0 .. n |-> IF k = 0 THEN 0 ELSE NextCut(t, c[k - 1])]
           cut == CHOOSE c : Is(c)
<1>4. Split(t) = [k \in 1 .. n |-> SubSeq(t, cut[k - 1] + 1, cut[k] - 1)]
  BY DEF Split, Dots, NextCut
<1>3. Len(ls) = n
  <2>1. ls \in Seq(Text) /\ ls # <<>>
    BY DEF LayOut
  <2>2. Len(ls) \in Nat
    BY <2>1
  <2>3. Cardinality(Dots(t)) = Len(ls) - 1
    BY DotsCounted
  <2> QED
    BY <2>2, <2>3
<1> HIDE DEF n
<1>1. /\ n \in Nat /\ n >= 1 /\ P \in [0 .. n -> Nat] /\ P[0] = 0 /\ Len(t) = P[n] - 1
      /\ ls \in Seq(Text) /\ t \in Seq(Octets) /\ \A k \in 1 .. n : ls[k] \in Seq(Octets)
      /\ \A k \in 1 .. n : P[k] = P[k - 1] + Len(ls[k]) + 1 /\ P[k] <= P[n]
                           /\ \A j \in 1 .. Len(ls[k]) : t[P[k - 1] + j] = ls[k][j]
  <2>1. ls \in Seq(Text) /\ ls # <<>>
    BY DEF LayOut
  <2>2. n \in Nat /\ n >= 1
    BY <1>3, <2>1, EmptySeq
  <2> QED
    BY <1>3, <2>1, <2>2 DEF LayOut, Text
<1>2. \A k \in 1 .. n : NextCut(t, P[k - 1]) = P[k]
  BY <1>3, NextCuts
<1>5. Is(P)
  <2> DEFINE g == [k \in 0 .. n |-> IF k = 0 THEN 0 ELSE NextCut(t, P[k - 1])]
  <2>1. ASSUME NEW k \in 0 .. n PROVE P[k] = g[k]
    <3>1. k # 0 => k \in 1 .. n
      BY <1>1
    <3> QED
      BY <1>1, <1>2, <3>1
  <2>2. P = g
    BY <1>1, <2>1
  <2> QED
    BY <2>2
<1>6. Is(cut)
  <2> HIDE DEF Is
  <2> QED
    BY <1>5
<1>7. \A k \in 0 .. n : cut[k] = IF k = 0 THEN 0 ELSE NextCut(t, cut[k - 1])
  <2> HIDE DEF cut
  <2> QED
    BY <1>6, Zenon
<1> HIDE DEF cut
<1> DEFINE T == {k \in 0 .. n : cut[k] = P[k]}
<1>8. \A k \in 0 .. n : k \in T
  <2>1. 0 \in T
    <3>1. 0 \in 0 .. n
      BY <1>1
    <3>2. cut[0] = 0
      BY <1>7, <3>1, Zenon
    <3> QED
      BY <1>1, <3>1, <3>2, Zenon
  <2>2. ASSUME NEW k \in 1 .. n, k - 1 \in T PROVE k \in T
    <3>1. k \in 0 .. n /\ k # 0
      BY <1>1
    <3>2. cut[k] = NextCut(t, cut[k - 1]) /\ cut[k - 1] = P[k - 1]
      BY <1>7, <2>2, <3>1
    <3> QED
      BY <1>2, <3>1, <3>2
  <2> HIDE DEF T
  <2> QED
    BY <1>1, <2>1, <2>2, InductionTo
<1>9. ASSUME NEW k \in 1 .. n PROVE SubSeq(t, cut[k - 1] + 1, cut[k] - 1) = ls[k]
  <2> DEFINE a == P[k - 1] + 1  b == P[k] - 1
  <2>1. k \in 0 .. n /\ k - 1 \in 0 .. n /\ n \in 0 .. n
    BY <1>1
  <2>2. cut[k] = P[k] /\ cut[k - 1] = P[k - 1] /\ P[k] \in Nat /\ P[k - 1] \in Nat /\ P[n] \in Nat
    BY <1>1, <1>8, <2>1
  <2>3. Len(ls[k]) \in Nat /\ P[k] = P[k - 1] + Len(ls[k]) + 1 /\ P[k] <= P[n] /\ Len(t) = P[n] - 1
    BY <1>1
  <2>4. a \in Int /\ b \in Int /\ a >= 1 /\ b <= Len(t) /\ b - a + 1 = Len(ls[k])
        /\ (IF a <= b THEN b - a + 1 ELSE 0) = Len(ls[k])
        /\ \A j \in 1 .. Len(ls[k]) : a + j - 1 = P[k - 1] + j
    <3> DEFINE x == P[k - 1]  y == P[k]  z == P[n]  l == Len(ls[k])  m == Len(t)
    <3>1. /\ x \in Nat /\ y \in Nat /\ z \in Nat /\ l \in Nat /\ y = x + l + 1 /\ y <= z /\ m = z - 1
          /\ a = x + 1 /\ b = y - 1
      BY <2>2, <2>3, Zenon
    <3> HIDE DEF a, b, x, y, z, l, m
    <3>2. /\ a \in Int /\ b \in Int /\ a >= 1 /\ b <= m /\ b - a + 1 = l
          /\ (IF a <= b THEN b - a + 1 ELSE 0) = l /\ \A j \in 1 .. l : a + j - 1 = x + j
      BY <3>1
    <3> QED
      BY <3>2, Zenon DEF x, l, m
  <2> HIDE DEF a, b
  <2>5. \A i \in a .. b : t[i] \in Octets
    <3>1. \A i \in a .. b : i \in 1 .. Len(t)
      <4>1. t \in Seq(Octets)
        BY <1>1, Zenon
      <4>2. Len(t) \in Nat
        BY <4>1
      <4> QED
        BY <2>4, <4>2
    <3>2. \A i \in 1 .. Len(t) : t[i] \in Octets
      <4>1. t \in Seq(Octets)
        BY <1>1, Zenon
      <4> QED
        BY <4>1
    <3> QED
      BY <3>1, <3>2, Zenon
  <2>6. /\ SubSeq(t, a, b) \in Seq(Octets) /\ Len(SubSeq(t, a, b)) = IF a <= b THEN b - a + 1 ELSE 0
        /\ \A i \in 1 .. b - a + 1 : SubSeq(t, a, b)[i] = t[a + i - 1]
    BY <2>4, <2>5, SubSeqProperties
  <2>7. \A j \in 1 .. Len(ls[k]) : SubSeq(t, a, b)[j] = ls[k][j]
    <3>1. ASSUME NEW j \in 1 .. Len(ls[k]) PROVE SubSeq(t, a, b)[j] = t[a + j - 1]
      BY <2>4, <2>6, <3>1
    <3>2. \A j \in 1 .. Len(ls[k]) : t[P[k - 1] + j] = ls[k][j]
      BY <1>1
    <3>3. \A j \in 1 .. Len(ls[k]) : t[a + j - 1] = ls[k][j]
      BY <2>4, <3>2, Zenon
    <3> QED
      BY <3>1, <3>3, Zenon
  <2>8. SubSeq(t, a, b) = ls[k]
    <3>1. SubSeq(t, a, b) \in Seq(Octets) /\ ls[k] \in Seq(Octets) /\ Len(SubSeq(t, a, b)) = Len(ls[k])
      BY <1>1, <2>4, <2>6, Zenon
    <3>2. \A j \in 1 .. Len(SubSeq(t, a, b)) : SubSeq(t, a, b)[j] = ls[k][j]
      BY <2>7, <3>1, Zenon
    <3> QED
      BY <3>1, <3>2, SeqEqual, Zenon
  <2> QED
    BY <2>2, <2>8 DEF a, b
<1> DEFINE r == [k \in 1 .. n |-> SubSeq(t, cut[k - 1] + 1, cut[k] - 1)]
<1>10. \A k \in 1 .. n : r[k] = ls[k]
  BY <1>9
<1>11. ls = [k \in 1 .. n |-> ls[k]]
  BY <1>1, <1>3
<1>12. r = ls
  BY <1>10, <1>11
<1> QED
  BY <1>4, <1>12

-----------------------------------------------------------------------------
(* The scenario a name selects: that of its labels. *)
ScenarioOf(ls) ==
  IF /\ Len(ls) = Len(Suffix) + 1 /\ Lower(Head(ls)) \in ScenarioLabel
     /\ \A i \in DOMAIN Suffix : Lower(ls[i + 1]) = Suffix[i]
  THEN Lower(Head(ls)) ELSE <<>>

LEMMA NamedByLabels ==
  ASSUME NEW ls \in Seq(Text), ls # <<>>, Dotless(ls)
  PROVE  ScenarioFor(Joined(ls)) = ScenarioOf(ls)
<1> DEFINE r == LowerAll(ls)
           m == Len(Suffix)
<1>1. Split(RightStripped(Lower(Joined(ls)))) = r
  <2>1. PICK P : LayOut(Joined(ls), ls, P)
    BY JoinedLayOut
  <2>2. LayOut(Lower(Joined(ls)), r, P) /\ Dotless(r)
    BY <2>1, LowerLayOut, LowerAllFacts
  <2> HIDE DEF r
  <2> QED
    BY <2>2, NothingStripped, SplitLayOut
<1>2. r \in Seq(Text) /\ Len(r) = Len(ls) /\ \A k \in 1 .. Len(ls) : r[k] = Lower(ls[k])
  BY LowerAllFacts
<1>3. Len(ls) \in Nat /\ Len(ls) >= 1 /\ Head(ls) = ls[1]
  BY EmptySeq
<1>4. Suffix \in Seq(Text) /\ m \in Nat /\ DOMAIN Suffix = 1 .. m
  BY NameAssumption DEF Text, Octets
<1> HIDE DEF r
<1>5. Head(r) = Lower(Head(ls))
  <2>1. 1 \in 1 .. Len(ls) /\ Head(r) = r[1]
    BY <1>2, <1>3
  <2> QED
    BY <1>2, <1>3, <2>1
<1>6. ASSUME Len(r) = m + 1 PROVE Tail(r) = Suffix <=> \A i \in DOMAIN Suffix : Lower(ls[i + 1]) = Suffix[i]
  <2>1. r # <<>>
    BY <1>2, <1>3
  <2>2. Tail(r) \in Seq(Text) /\ Len(Tail(r)) = m /\ \A i \in 1 .. m : Tail(r)[i] = r[i + 1]
    <3>1. Tail(r) \in Seq(Text) /\ Len(Tail(r)) = Len(r) - 1 /\ \A i \in 1 .. Len(Tail(r)) : Tail(r)[i] = r[i + 1]
      BY <1>2, <2>1, HeadTailProperties
    <3>2. Len(r) - 1 = m
      BY <1>4, <1>6
    <3> QED
      BY <3>1, <3>2
  <2> HIDE DEF m
  <2>3. \A i \in 1 .. m : i + 1 \in 1 .. Len(ls)
    BY <1>2, <1>4, <1>6
  <2>4. \A i \in 1 .. m : Tail(r)[i] = Lower(ls[i + 1])
    BY <1>2, <2>2, <2>3
  <2>5. (\A i \in 1 .. m : Tail(r)[i] = Suffix[i]) => Tail(r) = Suffix
    <3>1. Len(Suffix) = m
      BY DEF m
    <3> QED
      BY <1>4, <2>2, <3>1, SeqEqual
  <2> QED
    BY <1>4, <2>4, <2>5
<1> QED
  BY <1>1, <1>2, <1>5, <1>6 DEF ScenarioFor, ScenarioOf

(* The root selects none. *)
LEMMA RootNamesNone == ScenarioFor(Joined(<<>>)) = <<>>
<1> DEFINE u == Lower(<<Dot>>)
           n == Cardinality(Dots(<<>>)) + 1
           Is(c) == c = [k \in 0 .. n |-> IF k = 0 THEN 0 ELSE NextCut(<<>>, c[k - 1])]
           cut == CHOOSE c : Is(c)
<1>1. Joined(<<>>) = <<Dot>>
  BY DEF Joined
<1>2. u = <<Dot>>
  BY DEF Lower, Dot
<1>3. RightStripped(u) = <<>>
  <2>1. {0} \cup {i \in DOMAIN u : u[i] # Dot} = {0}
    BY <1>2
  <2>2. Max({0}) = 0
    BY GreatestOf
  <2>3. RightStripped(u) = SubSeq(u, 1, 0)
    BY <2>1, <2>2 DEF RightStripped
  <2> QED
    BY <2>3, SubSeqEmpty
<1>4. Dots(<<>>) = {}
  BY DEF Dots
<1>5. n = 1
  <2>1. Cardinality(Dots(<<>>)) = 0
    BY <1>4, FS_EmptySet
  <2> QED
    BY <2>1
<1>6. Split(<<>>) = [k \in 1 .. n |-> SubSeq(<<>>, cut[k - 1] + 1, cut[k] - 1)]
  BY DEF Split, Dots, NextCut
<1> HIDE DEF n
<1>7. NextCut(<<>>, 0) = 1
  <2>1. {j \in Dots(<<>>) \cup {Len(<<>>) + 1} : j > 0} = {1}
    BY <1>4
  <2>2. Min({1}) = 1
    BY LeastOf
  <2> QED
    BY <2>1, <2>2 DEF NextCut
<1>8. Is(cut)
  <2> DEFINE g == [k \in 0 .. n |-> IF k = 0 THEN 0 ELSE 1]
  <2>1. Is(g)
    BY <1>5, <1>7
  <2> HIDE DEF Is, g
  <2> QED
    BY <2>1
<1>9. cut[0] = 0 /\ cut[1] = 1
  <2>1. \A k \in 0 .. n : cut[k] = IF k = 0 THEN 0 ELSE NextCut(<<>>, cut[k - 1])
    <3> HIDE DEF cut
    <3> QED
      BY <1>8, Zenon
  <2> HIDE DEF cut
  <2>2. cut[0] = 0 /\ cut[1] = NextCut(<<>>, cut[1 - 1]) /\ 1 - 1 = 0
    BY <1>5, <2>1
  <2> QED
    BY <1>7, <2>2
<1> HIDE DEF cut
<1>10. Head(Split(<<>>)) = <<>>
  <2>1. Split(<<>>)[1] = SubSeq(<<>>, cut[1 - 1] + 1, cut[1] - 1)
    BY <1>5, <1>6
  <2>2. cut[1 - 1] + 1 = 1 /\ cut[1] - 1 = 0
    BY <1>9
  <2>3. SubSeq(<<>>, 1, 0) = <<>>
    BY SubSeqEmpty
  <2> QED
    BY <2>1, <2>2, <2>3
<1> QED
  BY <1>1, <1>3, <1>10 DEF ScenarioFor

(* No label is empty, and the scenario is the name's. *)
NameInv ==
  /\ \A i \in 1 .. Len(labels) : Len(labels[i]) >= 1
  /\ state = "named" /\ header = "one" => scenario = ScenarioFor(Joined(labels))

LEMMA InitNameInv == Init => NameInv
BY DEF Init, NameInv

LEMMA NextNameInv == IInv /\ NameInv /\ [Next]_vars => NameInv'
<1> SUFFICES ASSUME IInv, NameInv, [Next]_vars PROVE NameInv'
  OBVIOUS
<1>1. CASE TakeLabel
  <2>1. /\ state = "decode" /\ state' = "decode" /\ IsLabel(cursor)
        /\ labels' = Append(labels, Span(cursor + 1, Octet(cursor)))
    BY <1>1 DEF TakeLabel, Turn
  <2>2. labels \in Seq(Text)
    BY DEF IInv, TypeInv
  <2>3. Span(cursor + 1, Octet(cursor)) \in Text /\ Len(Span(cursor + 1, Octet(cursor))) >= 1
    <3>1. message \in Seq(Octets) /\ cursor \in Nat
      BY <2>1, Turning
    <3>2. Octet(cursor) \in 1 .. 63
      BY <2>1, <3>1, Begins
    <3>3. Span(cursor + 1, Octet(cursor)) \in Text /\ Len(Span(cursor + 1, Octet(cursor))) = Octet(cursor)
      BY <2>1, <3>1, SpanType
    <3>4. Octet(cursor) >= 1
      BY <3>2
    <3> QED
      BY <3>3, <3>4, Zenon
  <2>4. /\ Len(labels') = Len(labels) + 1 /\ labels'[Len(labels) + 1] = Span(cursor + 1, Octet(cursor))
        /\ \A i \in 1 .. Len(labels) : labels'[i] = labels[i]
    BY <2>1, <2>2, <2>3, AppendProperties
  <2>5. \A i \in 1 .. Len(labels') : Len(labels'[i]) >= 1
    <3>1. Len(labels) \in Nat
      BY <2>2
    <3>2. \A i \in 1 .. Len(labels') : i \in 1 .. Len(labels) \/ i = Len(labels) + 1
      BY <2>4, <3>1
    <3> QED
      BY <2>3, <2>4, <3>2 DEF NameInv
  <2> QED
    BY <2>1, <2>5 DEF NameInv
<1>2. CASE Finish
  <2>1. labels' = labels /\ scenario' = ScenarioFor(Joined(labels))
    BY <1>2 DEF Finish
  <2> QED
    BY <2>1 DEF NameInv
<1>3. CASE Jump
  BY <1>3 DEF Jump, Follow, Turn, NameInv, query
<1>4. CASE Nameless \/ Unreadable \/ Begin \/ GiveUp
  BY <1>4 DEF Nameless, Unreadable, Begin, GiveUp, Fail, NameInv, query
<1>5. CASE UNCHANGED vars
  BY <1>5 DEF vars, query, NameInv
<1> QED
  BY <1>1, <1>2, <1>3, <1>4, <1>5 DEF Next

(***************************************************************************)
(* A fault is chosen for the scenario's own name and no other, in any case *)
(* of letters and however the name is compressed (scenario_for): joined    *)
(* with dots, stripped, lowered and split again, labels without dots are   *)
(* what they were.                                                         *)
(***************************************************************************)
THEOREM ChoosesByName == Spec => []FaultByName
<1>1. IInv /\ NameInv => FaultByName
  <2> SUFFICES ASSUME IInv, NameInv, state = "named", header = "one",
                      \A i \in DOMAIN labels : Dot \notin ToSet(labels[i])
               PROVE  scenario = ScenarioOf(labels)
    BY DEF FaultByName, ScenarioOf
  <2>1. labels \in Seq(Text) /\ DOMAIN labels = 1 .. Len(labels) /\ scenario = ScenarioFor(Joined(labels))
    BY DEF IInv, TypeInv, NameInv
  <2>2. CASE labels = <<>>
    <3>1. Len(labels) # Len(Suffix) + 1
      <4>1. Len(Suffix) \in Nat /\ Len(labels) = 0
        BY <2>2, NameAssumption
      <4> QED
        BY <4>1
    <3> QED
      BY <2>1, <2>2, <3>1, RootNamesNone DEF ScenarioOf
  <2>3. CASE labels # <<>>
    <3>1. Dotless(labels)
      <4> SUFFICES ASSUME NEW k \in 1 .. Len(labels)
                   PROVE Len(labels[k]) >= 1 /\ \A j \in 1 .. Len(labels[k]) : labels[k][j] # Dot
        BY DEF Dotless
      <4>1. DOMAIN labels[k] = 1 .. Len(labels[k])
        BY <2>1 DEF Text
      <4> QED
        BY <2>1, <4>1 DEF NameInv, ToSet
    <3> QED
      BY <2>1, <2>3, <3>1, NamedByLabels
  <2> QED
    BY <2>2, <2>3
<1> QED
  BY <1>1, LoopInvariance, InitNameInv, NextNameInv, PTL DEF Spec

=============================================================================
