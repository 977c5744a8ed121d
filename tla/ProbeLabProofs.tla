-------------------------- MODULE ProbeLabProofs ----------------------------
(***************************************************************************)
(* Theorems about ProbeLab, for answers of any length and any delays: the  *)
(* probe is sent exactly the octets of its scenario, and it judges a row   *)
(* of a table that can be met as the table says.                           *)
(***************************************************************************)
EXTENDS ProbeLab, SequenceFacts

(***************************************************************************)
(* The pieces p, none of them empty, are what follows the first c octets   *)
(* of s: piece i ends with octet at[i].                                    *)
(***************************************************************************)
CutAt(p, s, c, at) ==
  /\ at \in [Nat -> Nat] /\ at[0] = c /\ at[Len(p)] = Len(s)
  /\ \A i \in 1 .. Len(p) :
       at[i - 1] < at[i] /\ at[i] <= Len(s) /\ p[i] = SubSeq(s, at[i - 1] + 1, at[i])

CutFrom(p, s, c) == p \in Seq(Seq(Nat)) /\ \E at : CutAt(p, s, c, at)

-----------------------------------------------------------------------------
(* Nothing is left to cut exactly when all of s has been. *)
LEMMA CutAll ==
  ASSUME NEW p, NEW s, s \in Seq(Nat), NEW c \in Nat, CutFrom(p, s, c)
  PROVE  c <= Len(s) /\ (p = <<>> <=> c = Len(s))
<1>1. PICK at : CutAt(p, s, c, at)
  BY Zenon DEF CutFrom
<1>2. p \in Seq(Seq(Nat)) /\ Len(p) \in Nat /\ Len(s) \in Nat
  BY DEF CutFrom
<1>3. CASE p = <<>>
  <2>1. Len(p) = 0
    BY <1>3
  <2> QED
    BY <1>1, <1>2, <1>3, <2>1 DEF CutAt
<1>4. CASE p # <<>>
  <2>1. Len(p) \in Nat \ {0}
    BY <1>2, <1>4, EmptySeq
  <2>2. 1 \in 1 .. Len(p) /\ 1 - 1 = 0
    BY <2>1
  <2>3. at[0] < at[1] /\ at[1] <= Len(s) /\ at[0] = c
    BY <1>1, <2>2, Zenon DEF CutAt
  <2>4. at[1] \in Nat
    BY <1>1, Zenon DEF CutAt
  <2> QED
    BY <1>2, <1>4, <2>3, <2>4
<1> QED
  BY <1>3, <1>4

(* The first piece and the others. *)
LEMMA CutNext ==
  ASSUME NEW p, NEW s, s \in Seq(Nat), NEW c \in Nat, CutFrom(p, s, c), p # <<>>
  PROVE  \E d \in c + 1 .. Len(s) :
           /\ Head(p) = SubSeq(s, c + 1, d) /\ Head(p) \in Seq(Nat) /\ Len(Head(p)) = d - c
           /\ CutFrom(Tail(p), s, d) /\ Len(Tail(p)) = Len(p) - 1
<1>1. PICK at : CutAt(p, s, c, at)
  BY Zenon DEF CutFrom
<1>2. p \in Seq(Seq(Nat)) /\ Len(p) \in Nat \ {0} /\ Len(s) \in Nat
  BY EmptySeq DEF CutFrom
<1>3. /\ Tail(p) \in Seq(Seq(Nat)) /\ Len(Tail(p)) = Len(p) - 1
      /\ \A i \in 1 .. Len(Tail(p)) : Tail(p)[i] = p[i + 1]
  BY <1>2, HeadTailProperties
<1>4. Head(p) = p[1] /\ Head(p) \in Seq(Nat)
  BY <1>2, HeadTailProperties
<1> DEFINE t == Tail(p)
<1>5. t \in Seq(Seq(Nat)) /\ \A i \in 1 .. Len(t) : t[i] = p[i + 1]
  BY <1>3
<1>6. Len(t) = Len(p) - 1 /\ Len(t) \in Nat
  BY <1>2, <1>3
<1> HIDE DEF t
<1>7. /\ at \in [Nat -> Nat] /\ at[0] = c /\ at[Len(p)] = Len(s)
      /\ \A i \in 1 .. Len(p) :
           at[i - 1] < at[i] /\ at[i] <= Len(s) /\ p[i] = SubSeq(s, at[i - 1] + 1, at[i])
  BY <1>1, Zenon DEF CutAt
<1>8. 1 \in 1 .. Len(p) /\ 1 - 1 = 0
  BY <1>2
<1>9. at[0] < at[1] /\ at[1] <= Len(s) /\ p[1] = SubSeq(s, at[0] + 1, at[1])
  BY <1>7, <1>8, Zenon
<1>10. at[1] \in c + 1 .. Len(s) /\ at[1] \in Nat
  BY <1>2, <1>7, <1>9
<1> DEFINE bt == [i \in Nat |-> at[i + 1]]
<1>11. CutAt(t, s, at[1], bt)
  <2>1. bt \in [Nat -> Nat] /\ \A i \in Nat : bt[i] = at[i + 1]
    BY <1>7, SMTT(60)
  <2> HIDE DEF bt
  <2>2. bt[0] = at[1] /\ bt[Len(t)] = Len(s)
    <3>1. Len(t) + 1 = Len(p) /\ 0 + 1 = 1
      BY <1>6, <1>2
    <3> QED
      BY <1>6, <1>7, <2>1, <3>1
  <2>3. ASSUME NEW i \in 1 .. Len(t)
        PROVE  bt[i - 1] < bt[i] /\ bt[i] <= Len(s) /\ t[i] = SubSeq(s, bt[i - 1] + 1, bt[i])
    <3>1. i + 1 \in 1 .. Len(p) /\ (i + 1) - 1 = i /\ i \in Nat /\ i - 1 \in Nat /\ (i - 1) + 1 = i
      BY <1>6
    <3>2. bt[i] = at[i + 1] /\ bt[i - 1] = at[i]
      BY <2>1, <3>1, Zenon
    <3> QED
      BY <1>5, <1>7, <3>1, <3>2, Zenon
  <2> QED
    BY <2>1, <2>2, <2>3, Zenon DEF CutAt
<1>12. CutFrom(t, s, at[1])
  BY <1>5, <1>11, Zenon DEF CutFrom
<1>13. Len(Head(p)) = at[1] - c
  <2>1. \A i \in c + 1 .. at[1] : s[i] \in Nat
    BY <1>2, <1>10, SMTT(30)
  <2>2. Len(SubSeq(s, c + 1, at[1])) = IF c + 1 <= at[1] THEN at[1] - (c + 1) + 1 ELSE 0
    <3>1. c + 1 \in Int /\ at[1] \in Int
      BY <1>10
    <3> QED
      BY <2>1, <3>1, SubSeqProperties
  <2>3. Head(p) = SubSeq(s, c + 1, at[1])
    BY <1>4, <1>7, <1>9, Zenon
  <2>4. c + 1 <= at[1] /\ at[1] - (c + 1) + 1 = at[1] - c
    BY <1>10
  <2> QED
    BY <2>2, <2>3, <2>4, Zenon
<1> QED
  BY <1>4, <1>6, <1>7, <1>9, <1>10, <1>12, <1>13, <1>3, Zenon DEF t

(* What is cut off joins what was cut off before. *)
LEMMA Reached ==
  ASSUME NEW s, s \in Seq(Nat), NEW c \in Nat, NEW d \in c + 1 .. Len(s)
  PROVE  SubSeq(s, 1, c) \o SubSeq(s, c + 1, d) = SubSeq(s, 1, d)
<1>1. 1 \in 1 .. Len(s) + 1 /\ c \in 1 - 1 .. Len(s) /\ d \in c .. Len(s)
  OBVIOUS
<1> QED
  BY <1>1, ConcatAdjacentSubSeq

(* One piece. *)
LEMMA CutWhole ==
  ASSUME NEW s, s \in Seq(Nat), s # <<>>
  PROVE  CutFrom(<<s>>, s, 0)
<1>1. Len(s) \in Nat \ {0} /\ SubSeq(s, 1, Len(s)) = s
  BY EmptySeq, SubSeqFull
<1> DEFINE at == [i \in Nat |-> IF i = 0 THEN 0 ELSE Len(s)]
<1>2. at \in [Nat -> Nat] /\ at[0] = 0 /\ at[1] = Len(s)
  BY <1>1
<1> HIDE DEF at
<1>3. Len(<<s>>) = 1 /\ <<s>>[1] = s /\ <<s>> \in Seq(Seq(Nat))
  OBVIOUS
<1>4. ASSUME NEW i \in 1 .. Len(<<s>>)
      PROVE  at[i - 1] < at[i] /\ at[i] <= Len(s) /\ <<s>>[i] = SubSeq(s, at[i - 1] + 1, at[i])
  <2>1. i = 1 /\ i - 1 = 0 /\ 0 + 1 = 1
    BY <1>3
  <2>2. 0 < Len(s) /\ Len(s) <= Len(s)
    BY <1>1
  <2> QED
    BY <1>1, <1>2, <1>3, <2>1, <2>2, Zenon
<1>5. CutAt(<<s>>, s, 0, at)
  BY <1>2, <1>3, <1>4, Zenon DEF CutAt
<1> QED
  BY <1>3, <1>5, Zenon DEF CutFrom

(* A range of positions, and the same range behind k others. *)
LEMMA Shifted ==
  ASSUME NEW k \in Nat, NEW l \in Nat, NEW x \in Nat, NEW y \in Nat, x < y, y <= l
  PROVE  /\ x + 1 \in 1 .. l /\ y \in 1 .. l
         /\ k + x < k + y /\ k + y <= k + l /\ k + (x + 1) = (k + x) + 1
OBVIOUS

(* The pieces of a and those of b are pieces of the two together. *)
LEMMA CutJoin ==
  ASSUME NEW p, NEW a, a \in Seq(Nat), CutFrom(p, a, 0),
         NEW q, NEW b, b \in Seq(Nat), CutFrom(q, b, 0)
  PROVE  CutFrom(p \o q, a \o b, 0)
<1>1. PICK at : CutAt(p, a, 0, at)
  BY Zenon DEF CutFrom
<1>2. PICK bt : CutAt(q, b, 0, bt)
  BY Zenon DEF CutFrom
<1>3. p \in Seq(Seq(Nat)) /\ q \in Seq(Seq(Nat))
  BY Zenon DEF CutFrom
<1>4. Len(p) \in Nat /\ Len(q) \in Nat /\ Len(a) \in Nat /\ Len(b) \in Nat
  BY <1>3
<1> DEFINE r == p \o q  s == a \o b
<1>5. /\ r \in Seq(Seq(Nat)) /\ Len(r) = Len(p) + Len(q)
      /\ \A i \in 1 .. Len(p) : r[i] = p[i]
      /\ \A i \in 1 .. Len(q) : r[Len(p) + i] = q[i]
  BY <1>3, ConcatElements
<1>6. s \in Seq(Nat) /\ Len(s) = Len(a) + Len(b)
  BY ConcatElements
<1>7. ASSUME NEW i \in 1 .. Len(a), NEW j \in 1 .. Len(a) PROVE SubSeq(s, i, j) = SubSeq(a, i, j)
  BY SubSeqOfConcat1
<1>8. ASSUME NEW i \in 1 .. Len(b), NEW j \in 1 .. Len(b)
      PROVE  SubSeq(s, Len(a) + i, Len(a) + j) = SubSeq(b, i, j)
  <2>1. /\ Len(a) + i \in Len(a) + 1 .. Len(a) + Len(b) /\ Len(a) + j \in Len(a) + 1 .. Len(a) + Len(b)
        /\ (Len(a) + i) - Len(a) = i /\ (Len(a) + j) - Len(a) = j
    BY <1>4
  <2>2. SubSeq(s, Len(a) + i, Len(a) + j) = SubSeq(b, (Len(a) + i) - Len(a), (Len(a) + j) - Len(a))
    BY <2>1, SubSeqOfConcat2
  <2> QED
    BY <2>1, <2>2, Zenon
<1> HIDE DEF r, s
<1>9. /\ at \in [Nat -> Nat] /\ at[0] = 0 /\ at[Len(p)] = Len(a)
      /\ \A i \in 1 .. Len(p) :
           at[i - 1] < at[i] /\ at[i] <= Len(a) /\ p[i] = SubSeq(a, at[i - 1] + 1, at[i])
  BY <1>1, Zenon DEF CutAt
<1>10. /\ bt \in [Nat -> Nat] /\ bt[0] = 0 /\ bt[Len(q)] = Len(b)
       /\ \A i \in 1 .. Len(q) :
            bt[i - 1] < bt[i] /\ bt[i] <= Len(b) /\ q[i] = SubSeq(b, bt[i - 1] + 1, bt[i])
  BY <1>2, Zenon DEF CutAt
<1> DEFINE ct == [i \in Nat |-> IF i <= Len(p) THEN at[i] ELSE Len(a) + bt[i - Len(p)]]
<1>11. /\ ct \in [Nat -> Nat]
       /\ \A i \in 0 .. Len(p) : ct[i] = at[i]
       /\ \A i \in Nat : ct[Len(p) + i] = Len(a) + bt[i]
  <2>1. ASSUME NEW i \in Nat PROVE (IF i <= Len(p) THEN at[i] ELSE Len(a) + bt[i - Len(p)]) \in Nat
    <3>1. CASE i <= Len(p)
      BY <1>9, <3>1
    <3>2. CASE ~(i <= Len(p))
      <4>1. i - Len(p) \in Nat
        BY <1>4, <3>2
      <4>2. bt[i - Len(p)] \in Nat
        BY <1>10, <4>1
      <4> QED
        BY <1>4, <3>2, <4>2
    <3> QED
      BY <3>1, <3>2
  <2>2. ct \in [Nat -> Nat] /\ \A i \in Nat : ct[i] = IF i <= Len(p) THEN at[i] ELSE Len(a) + bt[i - Len(p)]
    BY <2>1
  <2> HIDE DEF ct
  <2>3. ASSUME NEW i \in 0 .. Len(p) PROVE ct[i] = at[i]
    <3>1. i \in Nat /\ i <= Len(p)
      BY <1>4
    <3> QED
      BY <2>2, <3>1, Zenon
  <2>4. ASSUME NEW i \in Nat PROVE ct[Len(p) + i] = Len(a) + bt[i]
    <3>1. Len(p) + i \in Nat /\ (Len(p) + i) - Len(p) = i /\ (Len(p) + i <= Len(p) => i = 0)
      BY <1>4
    <3>2. CASE i = 0
      <4>1. Len(p) + i = Len(p) /\ Len(p) \in Nat /\ Len(p) <= Len(p) /\ Len(a) + 0 = Len(a)
        BY <1>4, <3>2
      <4> QED
        BY <1>9, <1>10, <2>2, <3>2, <4>1, Zenon
    <3>3. CASE i # 0
      BY <2>2, <3>1, <3>3, Zenon
    <3> QED
      BY <3>2, <3>3
  <2> QED
    BY <2>2, <2>3, <2>4, Zenon
<1> HIDE DEF ct
<1>12. ct[0] = 0 /\ ct[Len(r)] = Len(s)
  <2>1. 0 \in 0 .. Len(p)
    BY <1>4
  <2>2. ct[Len(r)] = Len(a) + bt[Len(q)]
    BY <1>4, <1>5, <1>11, Zenon
  <2> QED
    BY <1>6, <1>9, <1>10, <1>11, <2>1, <2>2, Zenon
<1>13. ASSUME NEW i \in 1 .. Len(r)
       PROVE  ct[i - 1] < ct[i] /\ ct[i] <= Len(s) /\ r[i] = SubSeq(s, ct[i - 1] + 1, ct[i])
  <2>1. CASE i \in 1 .. Len(p)
    <3>1. i \in 0 .. Len(p) /\ i - 1 \in 0 .. Len(p) /\ i \in Nat /\ i - 1 \in Nat
      BY <1>4, <2>1
    <3>2. ct[i] = at[i] /\ ct[i - 1] = at[i - 1] /\ at[i] \in Nat /\ at[i - 1] \in Nat
      BY <1>9, <1>11, <3>1, Zenon
    <3>3. at[i - 1] < at[i] /\ at[i] <= Len(a)
      BY <1>9, <2>1, Zenon
    <3>4. r[i] = SubSeq(a, at[i - 1] + 1, at[i])
      BY <1>5, <1>9, <2>1, Zenon
    <3>5. at[i - 1] + 1 \in 1 .. Len(a) /\ at[i] \in 1 .. Len(a) /\ at[i] <= Len(a) + Len(b)
      BY <1>4, <3>2, <3>3, SMTT(60)
    <3> QED
      BY <1>6, <1>7, <3>2, <3>3, <3>4, <3>5, Zenon
  <2>2. CASE i - Len(p) \in 1 .. Len(q)
    <3>1. PICK k \in 1 .. Len(q) : i = Len(p) + k
      <4>1. i = Len(p) + (i - Len(p))
        BY <1>4
      <4> QED
        BY <2>2, <4>1, Zenon
    <3>2. k \in Nat /\ k - 1 \in Nat /\ i - 1 = Len(p) + (k - 1)
      BY <1>4, <3>1
    <3>3. ct[i] = Len(a) + bt[k] /\ ct[i - 1] = Len(a) + bt[k - 1] /\ bt[k] \in Nat /\ bt[k - 1] \in Nat
      BY <1>10, <1>11, <3>1, <3>2, Zenon
    <3>4. bt[k - 1] < bt[k] /\ bt[k] <= Len(b)
      BY <1>10, <3>1, Zenon
    <3>5. r[i] = SubSeq(b, bt[k - 1] + 1, bt[k])
      BY <1>5, <1>10, <3>1, Zenon
    <3>3a. bt[k] \in Nat /\ bt[k - 1] \in Nat
      BY <3>3, Zenon
    <3>6. /\ bt[k - 1] + 1 \in 1 .. Len(b) /\ bt[k] \in 1 .. Len(b)
          /\ Len(a) + bt[k - 1] < Len(a) + bt[k] /\ Len(a) + bt[k] <= Len(a) + Len(b)
          /\ Len(a) + (bt[k - 1] + 1) = (Len(a) + bt[k - 1]) + 1
      <4>1. \A x \in Nat, y \in Nat : x < y /\ y <= Len(b) =>
              /\ x + 1 \in 1 .. Len(b) /\ y \in 1 .. Len(b)
              /\ Len(a) + x < Len(a) + y /\ Len(a) + y <= Len(a) + Len(b)
              /\ Len(a) + (x + 1) = (Len(a) + x) + 1
        BY <1>4, Shifted
      <4> QED
        BY <3>3a, <3>4, <4>1, Zenon
    <3>7. SubSeq(s, Len(a) + (bt[k - 1] + 1), Len(a) + bt[k]) = SubSeq(b, bt[k - 1] + 1, bt[k])
      BY <1>8, <3>6, Zenon
    <3> QED
      BY <1>6, <3>3, <3>5, <3>6, <3>7, Zenon
  <2>3. i \in 1 .. Len(p) \/ i - Len(p) \in 1 .. Len(q)
    <3>1. Len(r) = Len(p) + Len(q)
      BY <1>5, Zenon
    <3> QED
      BY <1>4, <3>1
  <2> QED
    BY <2>1, <2>2, <2>3, Zenon
<1>14. CutAt(r, s, 0, ct)
  BY <1>11, <1>12, <1>13, Zenon DEF CutAt
<1> QED
  BY <1>5, <1>14, Zenon DEF CutFrom, r, s

(* How many slices of n octets there are of L, and where they begin. *)
LEMMA Blocks ==
  ASSUME NEW L \in Nat \ {0}, NEW n \in Nat \ {0}, NEW m, m = (L + n - 1) \div n
  PROVE  m \in Nat \ {0} /\ n * m >= L /\ \A i \in 1 .. m : n * (i - 1) < L /\ n * (i - 1) \in Nat
<1> DEFINE x == L + n - 1
<1>1. x \in Nat /\ x \div n \in Nat /\ x % n \in 0 .. n - 1
  OBVIOUS
<1>2. x % n = x - n * (x \div n)
  BY <1>1, SMTT(30)
<1> DEFINE rest == x % n
<1>3. rest \in 0 .. n - 1 /\ rest = x - n * m /\ m \in Nat
  BY <1>1, <1>2
<1> HIDE DEF rest
<1>4. n * m \in Nat /\ n * m = L + n - 1 - rest
  BY <1>3
<1>5. n * m >= L
  BY <1>3, <1>4
<1>6. m # 0
  BY <1>3, <1>5
<1>7. n * (m - 1) = n * m - n
  BY <1>3
<1>8. n * (m - 1) < L
  BY <1>3, <1>4, <1>7
<1>9. ASSUME NEW i \in 1 .. m PROVE n * (i - 1) < L /\ n * (i - 1) \in Nat
  <2>1. i - 1 \in Nat /\ m - i \in Nat
    BY <1>3
  <2>2. n * (i - 1) \in Nat /\ n * (m - i) \in Nat /\ n * (m - 1) = n * (i - 1) + n * (m - i)
    BY <1>3, <2>1
  <2> QED
    BY <1>8, <2>2
<1> QED
  BY <1>3, <1>5, <1>6, <1>9

(* The slices of s, the last one shorter, are pieces of s. *)
LEMMA CutSlices ==
  ASSUME NEW s, s \in Seq(Nat), s # <<>>, NEW n \in Nat \ {0}
  PROVE  CutFrom(Slices(s, n), s, 0) /\ Len(Slices(s, n)) = (Len(s) + n - 1) \div n
<1> DEFINE L == Len(s)
           m == (L + n - 1) \div n
           p == Slices(s, n)
<1>1. L \in Nat \ {0}
  BY EmptySeq
<1>2. p = [k \in 1 .. m |-> SubSeq(s, n * (k - 1) + 1, IF n * k < L THEN n * k ELSE L)]
  BY Zenon DEF Slices
<1>3. m \in Nat \ {0} /\ n * m >= L /\ \A i \in 1 .. m : n * (i - 1) < L /\ n * (i - 1) \in Nat
  <2> HIDE DEF L
  <2> QED
    BY <1>1, Blocks, Zenon
<1> HIDE DEF m, p, L
<1> DEFINE at == [i \in Nat |-> IF n * i < L THEN n * i ELSE L]
<1>4. at \in [Nat -> Nat] /\ \A i \in Nat : at[i] = IF n * i < L THEN n * i ELSE L
  <2>1. \A i \in Nat : n * i \in Nat
    OBVIOUS
  <2> QED
    BY <1>1, <2>1
<1> HIDE DEF at
<1>5. at[0] = 0 /\ at[m] = L
  <2>1. n * 0 = 0 /\ 0 < L /\ 0 \in Nat
    BY <1>1
  <2>2. n * m \in Nat /\ m \in Nat
    BY <1>3
  <2>3. ~(n * m < L)
    BY <1>1, <1>3, <2>2
  <2> QED
    BY <1>4, <2>1, <2>2, <2>3, Zenon
<1>6. ASSUME NEW i \in 1 .. m
      PROVE  /\ at[i - 1] < at[i] /\ at[i] <= L /\ at[i] \in Nat /\ at[i - 1] \in Nat
             /\ p[i] = SubSeq(s, at[i - 1] + 1, at[i])
  <2>1. i \in Nat /\ i - 1 \in Nat
    BY <1>3
  <2>2. n * (i - 1) < L /\ n * (i - 1) \in Nat
    BY <1>3, Zenon
  <2>3. n * i = n * (i - 1) + n /\ n * i \in Nat
    BY <2>1
  <2>4. at[i - 1] = n * (i - 1)
    BY <1>4, <2>1, <2>2, Zenon
  <2>5. at[i] = IF n * i < L THEN n * i ELSE L
    BY <1>4, <2>1, Zenon
  <2>6. p[i] = SubSeq(s, n * (i - 1) + 1, IF n * i < L THEN n * i ELSE L)
    BY <1>2, Zenon
  <2>7. p[i] = SubSeq(s, at[i - 1] + 1, at[i])
    BY <2>4, <2>5, <2>6, Zenon
  <2>8. at[i] <= L /\ at[i] \in Nat /\ n * (i - 1) < at[i]
    <3>1. CASE n * i < L
      <4>1. at[i] = n * i
        BY <2>5, <3>1, Zenon
      <4>2. n * i <= L /\ n * (i - 1) < n * i
        BY <1>1, <2>2, <2>3, <3>1
      <4> QED
        BY <2>3, <4>1, <4>2, Zenon
    <3>2. CASE ~(n * i < L)
      <4>1. at[i] = L
        BY <2>5, <3>2, Zenon
      <4>2. L <= L /\ L \in Nat
        BY <1>1
      <4> QED
        BY <2>2, <4>1, <4>2, Zenon
    <3> QED
      BY <3>1, <3>2
  <2> QED
    BY <2>2, <2>4, <2>7, <2>8, Zenon
<1>7. p \in Seq(Seq(Nat)) /\ Len(p) = m
  <2>1. ASSUME NEW i \in 1 .. m PROVE SubSeq(s, n * (i - 1) + 1, IF n * i < L THEN n * i ELSE L) \in Seq(Nat)
    <3>1. p[i] = SubSeq(s, at[i - 1] + 1, at[i]) /\ at[i] <= L /\ at[i] \in Nat /\ at[i - 1] \in Nat
      BY <1>6, Zenon
    <3>2. at[i - 1] + 1 \in Int /\ at[i] \in Int
      BY <3>1
    <3>3. \A j \in at[i - 1] + 1 .. at[i] : s[j] \in Nat
      <4>1. \A j \in at[i - 1] + 1 .. at[i] : j \in 1 .. Len(s)
        BY <3>1, <1>1 DEF L
      <4>2. \A j \in 1 .. Len(s) : s[j] \in Nat
        OBVIOUS
      <4> QED
        BY <4>1, <4>2, Zenon
    <3>4. SubSeq(s, at[i - 1] + 1, at[i]) \in Seq(Nat)
      BY <3>2, <3>3, SubSeqProperties
    <3> QED
      BY <1>2, <3>1, <3>4, Zenon
  <2>2. p \in [1 .. m -> Seq(Nat)]
    BY <1>2, <2>1, Zenon
  <2>3. m \in Nat
    BY <1>3, Zenon
  <2> QED
    BY <2>2, <2>3
<1>8. CutAt(p, s, 0, at)
  BY <1>4, <1>5, <1>6, <1>7, Zenon DEF CutAt, L
<1> QED
  BY <1>7, <1>8, Zenon DEF CutFrom, p, m, L

-----------------------------------------------------------------------------
(* Sequences written out are pieces put together. *)
LEMMA Pair == ASSUME NEW S, NEW a \in S, NEW b \in S PROVE <<a>> \o <<b>> = <<a, b>>
<1> DEFINE x == <<a>>  y == <<b>>  z == <<a, b>>
<1>1. /\ x \in Seq(S) /\ Len(x) = 1 /\ x[1] = a /\ y \in Seq(S) /\ Len(y) = 1 /\ y[1] = b
      /\ z \in Seq(S) /\ Len(z) = 2 /\ z[1] = a /\ z[2] = b
  OBVIOUS
<1> HIDE DEF x, y, z
<1>2. /\ x \o y \in Seq(S) /\ Len(x \o y) = Len(x) + Len(y)
      /\ \A i \in 1 .. Len(x) : (x \o y)[i] = x[i]
      /\ \A i \in 1 .. Len(y) : (x \o y)[Len(x) + i] = y[i]
  <2>1. x \in Seq(S) /\ y \in Seq(S)
    BY <1>1, Zenon
  <2> QED
    BY <2>1, ConcatElements
<1>3. Len(x \o y) = 2 /\ (x \o y)[1] = a /\ (x \o y)[2] = b
  BY <1>1, <1>2
<1>4. \A i \in 1 .. 2 : i = 1 \/ i = 2
  OBVIOUS
<1>5. \A i \in 1 .. Len(x \o y) : (x \o y)[i] = z[i]
  BY <1>1, <1>3, <1>4, Zenon
<1> QED
  BY <1>1, <1>2, <1>3, <1>5, SeqEqual, Zenon DEF x, y, z

(* The same for three. *)
LEMMA Triple ==
  ASSUME NEW S, NEW a \in S, NEW b \in S, NEW c \in S
  PROVE  <<a, b>> \o <<c>> = <<a, b, c>>
<1> DEFINE x == <<a, b>>  y == <<c>>  z == <<a, b, c>>
<1>1. /\ x \in Seq(S) /\ Len(x) = 2 /\ x[1] = a /\ x[2] = b /\ y \in Seq(S) /\ Len(y) = 1 /\ y[1] = c
      /\ z \in Seq(S) /\ Len(z) = 3 /\ z[1] = a /\ z[2] = b /\ z[3] = c
  OBVIOUS
<1> HIDE DEF x, y, z
<1>2. /\ x \o y \in Seq(S) /\ Len(x \o y) = Len(x) + Len(y)
      /\ \A i \in 1 .. Len(x) : (x \o y)[i] = x[i]
      /\ \A i \in 1 .. Len(y) : (x \o y)[Len(x) + i] = y[i]
  <2>1. x \in Seq(S) /\ y \in Seq(S)
    BY <1>1, Zenon
  <2> QED
    BY <2>1, ConcatElements
<1>3. Len(x \o y) = 3 /\ (x \o y)[1] = a /\ (x \o y)[2] = b /\ (x \o y)[3] = c
  BY <1>1, <1>2
<1>4. \A i \in 1 .. 3 : i = 1 \/ i = 2 \/ i = 3
  OBVIOUS
<1>5. \A i \in 1 .. Len(x \o y) : (x \o y)[i] = z[i]
  BY <1>1, <1>3, <1>4, Zenon
<1> QED
  BY <1>1, <1>2, <1>3, <1>5, SeqEqual, Zenon DEF x, y, z

(* A message and its prefix. *)
LEMMA BytesFacts ==
  ASSUME NEW n \in Nat
  PROVE  /\ Bytes(n) \in Seq(Nat) /\ Len(Bytes(n)) = n /\ \A i \in 1 .. n : Bytes(n)[i] = i % 251
         /\ Prefix(n) \in Seq(Nat) /\ Len(Prefix(n)) = 2
         /\ Prefix(n) \o Bytes(n) \in Seq(Nat) /\ Len(Prefix(n) \o Bytes(n)) = n + 2
<1>1. \A i \in 1 .. n : i % 251 \in Nat
  OBVIOUS
<1>2. Bytes(n) \in Seq(Nat) /\ Len(Bytes(n)) = n /\ \A i \in 1 .. n : Bytes(n)[i] = i % 251
  BY <1>1 DEF Bytes
<1>3. n \div 256 \in Nat /\ n % 256 \in Nat
  OBVIOUS
<1>4. Prefix(n) \in Seq(Nat) /\ Len(Prefix(n)) = 2
  BY <1>3 DEF Prefix
<1>5. /\ Prefix(n) \o Bytes(n) \in Seq(Nat)
      /\ Len(Prefix(n) \o Bytes(n)) = Len(Prefix(n)) + Len(Bytes(n))
  BY <1>2, <1>4, ConcatElements, ZenonT(60)
<1>6. Len(Prefix(n) \o Bytes(n)) = n + 2
  BY <1>2, <1>4, <1>5
<1> QED
  BY <1>2, <1>4, <1>5, <1>6

(* The first h octets of a message, alone and behind its prefix. *)
LEMMA FrontBytes ==
  ASSUME NEW n \in Nat, NEW h \in 1 .. n
  PROVE  /\ SubSeq(Bytes(n), 1, h) = Bytes(h)
         /\ SubSeq(Prefix(n) \o Bytes(n), 1, 2 + h) = Prefix(n) \o Bytes(h)
         /\ SubSeq(Prefix(n) \o Bytes(n), 1, 2) = Prefix(n)
<1> DEFINE a == Prefix(n)  b == Bytes(n)  s == a \o b
<1>1. h \in Nat /\ h \in 0 .. n
  OBVIOUS
<1>2. /\ a \in Seq(Nat) /\ Len(a) = 2 /\ b \in Seq(Nat) /\ Len(b) = n /\ s \in Seq(Nat) /\ Len(s) = n + 2
      /\ \A i \in 1 .. n : b[i] = i % 251
  BY BytesFacts, ZenonT(60)
<1>3. SubSeq(b, 1, h) = Bytes(h)
  <2>1. /\ SubSeq(b, 1, h) \in Seq(Nat) /\ Len(SubSeq(b, 1, h)) = h
        /\ \A i \in 1 .. h : SubSeq(b, 1, h)[i] = b[i]
    BY <1>1, <1>2, Cut
  <2>2. Bytes(h) \in Seq(Nat) /\ Len(Bytes(h)) = h /\ \A i \in 1 .. h : Bytes(h)[i] = i % 251
    BY <1>1, BytesFacts
  <2>3. \A i \in 1 .. h : i \in 1 .. n
    OBVIOUS
  <2>4. \A i \in 1 .. h : SubSeq(b, 1, h)[i] = Bytes(h)[i]
    BY <1>2, <2>1, <2>2, <2>3, ZenonT(60)
  <2> QED
    BY <2>1, <2>2, <2>4, SeqEqual, Zenon
<1>4. SubSeq(s, 1, 2) = a
  <2>1. 1 \in 1 .. Len(a) /\ 2 \in 1 .. Len(a)
    BY <1>2
  <2>2. SubSeq(s, 1, 2) = SubSeq(a, 1, 2)
    BY <1>2, <2>1, SubSeqOfConcat1
  <2>3. SubSeq(a, 1, Len(a)) = a
    BY <1>2, SubSeqFull
  <2> QED
    BY <1>2, <2>2, <2>3, Zenon
<1>5. SubSeq(s, 3, 2 + h) = SubSeq(b, 1, h)
  <2>1. /\ 3 \in Len(a) + 1 .. Len(a) + Len(b) /\ 2 + h \in Len(a) + 1 .. Len(a) + Len(b)
        /\ 3 - Len(a) = 1 /\ (2 + h) - Len(a) = h
    BY <1>2
  <2>2. SubSeq(s, 3, 2 + h) = SubSeq(b, 3 - Len(a), (2 + h) - Len(a))
    BY <1>2, <2>1, SubSeqOfConcat2
  <2> QED
    BY <2>1, <2>2, Zenon
<1>6. SubSeq(s, 1, 2) \o SubSeq(s, 3, 2 + h) = SubSeq(s, 1, 2 + h)
  <2>1. /\ 1 \in 1 .. Len(s) + 1 /\ 2 \in 1 - 1 .. Len(s) /\ 2 + h \in 2 .. Len(s) /\ 2 + 1 = 3
    BY <1>2
  <2>2. SubSeq(s, 1, 2) \o SubSeq(s, 2 + 1, 2 + h) = SubSeq(s, 1, 2 + h)
    BY <1>2, <2>1, ConcatAdjacentSubSeq
  <2> QED
    BY <2>1, <2>2, Zenon
<1> QED
  BY <1>3, <1>4, <1>5, <1>6, Zenon

(* Two pieces and three. *)
LEMMA CutPair ==
  ASSUME NEW a, a \in Seq(Nat), a # <<>>, NEW b, b \in Seq(Nat), b # <<>>
  PROVE  CutFrom(<<a, b>>, a \o b, 0)
<1>1. CutFrom(<<a>>, a, 0) /\ CutFrom(<<b>>, b, 0)
  BY CutWhole
<1>2. CutFrom(<<a>> \o <<b>>, a \o b, 0)
  BY <1>1, CutJoin, Zenon
<1>3. <<a>> \o <<b>> = <<a, b>>
  BY Pair
<1> QED
  BY <1>2, <1>3, Zenon

(* Three pieces. *)
LEMMA CutTriple ==
  ASSUME NEW a, a \in Seq(Nat), a # <<>>, NEW b, b \in Seq(Nat), b # <<>>,
         NEW c, c \in Seq(Nat), c # <<>>
  PROVE  CutFrom(<<a, b, c>>, (a \o b) \o c, 0)
<1>1. CutFrom(<<a, b>>, a \o b, 0) /\ CutFrom(<<c>>, c, 0) /\ a \o b \in Seq(Nat)
  BY CutPair, CutWhole, ConcatProperties
<1>2. CutFrom(<<a, b>> \o <<c>>, (a \o b) \o c, 0)
  BY <1>1, CutJoin, Zenon
<1>3. <<a, b>> \o <<c>> = <<a, b, c>>
  BY Triple
<1> QED
  BY <1>2, <1>3, Zenon

(* A sequence that is not empty is its first h elements and the others. *)
LEMMA Halves ==
  ASSUME NEW s, s \in Seq(Nat), NEW h \in Nat \ {0}, h < Len(s)
  PROVE  /\ SubSeq(s, 1, h) \in Seq(Nat) /\ SubSeq(s, 1, h) # <<>>
         /\ From(s, h + 1) \in Seq(Nat) /\ From(s, h + 1) # <<>>
         /\ SubSeq(s, 1, h) \o From(s, h + 1) = s
<1>1. h \in 0 .. Len(s)
  OBVIOUS
<1>2. /\ SubSeq(s, 1, h) \in Seq(Nat) /\ From(s, h + 1) \in Seq(Nat)
      /\ Len(SubSeq(s, 1, h)) = h /\ Len(From(s, h + 1)) = Len(s) - h
      /\ SubSeq(s, 1, h) \o From(s, h + 1) = s
  BY <1>1, FrontAndRest DEF From
<1>3. h # 0 /\ Len(s) - h # 0
  OBVIOUS
<1>4. Len(<<>>) = 0
  OBVIOUS
<1> QED
  BY <1>2, <1>3, <1>4, Zenon

(***************************************************************************)
(* The reply, as send_frame cuts it.                                       *)
(***************************************************************************)
Replying == Scenario \ {"close-before-response", "stall"}

(* The longer length a length-mismatch declares. *)
Longer(n) == IF n + 16 > 65535 THEN 65535 ELSE n + 16

(* The arms of OnTheWire, one by one. *)
LEMMA Wire ==
  ASSUME NEW n, NEW frame, frame = Prefix(n) \o Bytes(n)
  PROVE
  /\ OnTheWire("normal", n) = frame
  /\ OnTheWire("force-tcp", n) = frame
  /\ OnTheWire("split-prefix", n) = frame
  /\ OnTheWire("split-body", n) = frame
  /\ OnTheWire("bytewise", n) = frame
  /\ OnTheWire("delayed", n) = frame
  /\ OnTheWire("close-before-response", n) = <<>>
  /\ OnTheWire("stall", n) = <<>>
  /\ OnTheWire("close-after-prefix", n) = First(frame, 2)
  /\ OnTheWire("close-mid-body", n) = First(frame, 2 + n \div 2)
  /\ OnTheWire("length-mismatch", n) = Prefix(Longer(n)) \o Bytes(n \div 2)
  /\ OnTheWire("duplicate-response", n) = frame \o frame
  /\ OnTheWire("trailing-bytes", n) = frame \o Trailing
<1>1. OnTheWire("normal", n) = frame
  BY SMT DEF OnTheWire
<1>2. OnTheWire("force-tcp", n) = frame
  BY SMT DEF OnTheWire
<1>3. OnTheWire("split-prefix", n) = frame
  BY SMT DEF OnTheWire
<1>4. OnTheWire("split-body", n) = frame
  BY SMT DEF OnTheWire
<1>5. OnTheWire("bytewise", n) = frame
  BY SMT DEF OnTheWire
<1>6. OnTheWire("delayed", n) = frame
  BY SMT DEF OnTheWire
<1>7. OnTheWire("close-before-response", n) = <<>>
  BY SMT DEF OnTheWire
<1>8. OnTheWire("stall", n) = <<>>
  BY SMT DEF OnTheWire
<1>9. OnTheWire("close-after-prefix", n) = First(Prefix(n) \o Bytes(n), 2)
  BY SMT DEF OnTheWire
<1>10. OnTheWire("close-mid-body", n) = First(Prefix(n) \o Bytes(n), 2 + n \div 2)
  BY SMT DEF OnTheWire
<1>11. OnTheWire("length-mismatch", n) = Prefix(Longer(n)) \o Bytes(n \div 2)
  BY SMT DEF OnTheWire, Longer
<1>12. OnTheWire("duplicate-response", n) = frame \o frame
  BY SMT DEF OnTheWire
<1>13. OnTheWire("trailing-bytes", n) = frame \o Trailing
  BY SMT DEF OnTheWire
<1> QED
  BY <1>1, <1>2, <1>3, <1>4, <1>5, <1>6, <1>7, <1>8, <1>9, <1>10, <1>11, <1>12, <1>13, Zenon

(* send_frame: whatever the scenario, its parts are pieces of what is to   *)
(* be put on the wire, all of it and nothing else.                         *)
LEMMA PartsMakeReply ==
  ASSUME NEW scenario \in Replying, NEW n \in Nat, n >= 12
  PROVE  /\ OnTheWire(scenario, n) \in Seq(Nat) /\ OnTheWire(scenario, n) # <<>>
         /\ CutFrom(FrameParts(scenario, Bytes(n)), OnTheWire(scenario, n), 0)
<1> DEFINE payload == Bytes(n)
           prefix == Prefix(n)
           frame == prefix \o payload
           h == n \div 2
           half == First(payload, h)
           wire == OnTheWire(scenario, n)
           written == FrameParts(scenario, payload)
           Good(p, w) == w \in Seq(Nat) /\ w # <<>> /\ CutFrom(p, w, 0)
<1>1. /\ payload \in Seq(Nat) /\ Len(payload) = n /\ prefix \in Seq(Nat) /\ Len(prefix) = 2
      /\ frame \in Seq(Nat) /\ Len(frame) = n + 2
  BY BytesFacts
<1>2. payload # <<>> /\ prefix # <<>> /\ frame # <<>>
  BY <1>1
<1>3. h \in 1 .. n /\ h \in Nat \ {0} /\ h < n
  OBVIOUS
<1>4. half = Bytes(h) /\ First(frame, 2 + h) = prefix \o Bytes(h) /\ First(frame, 2) = prefix
  BY <1>3, FrontBytes DEF First
<1>5. half \in Seq(Nat) /\ half # <<>>
  <2>1. h < Len(payload)
    BY <1>1, <1>3
  <2> QED
    BY <1>1, <1>3, <2>1, Halves DEF First
<1>6. CutFrom(<<frame>>, frame, 0) /\ CutFrom(<<prefix>>, prefix, 0)
  BY <1>1, <1>2, CutWhole
<1>7. ASSUME NEW k \in Nat \ {0} PROVE CutFrom(<<prefix>> \o Slices(payload, k), frame, 0)
  <2>1. CutFrom(Slices(payload, k), payload, 0)
    BY <1>1, <1>2, CutSlices
  <2> QED
    BY <1>1, <1>6, <2>1, CutJoin
<1>8. Longer(n) \in Nat
  BY DEF Longer
<1>9. ASSUME NEW a, a \in Seq(Nat), a # <<>>, NEW b, b \in Seq(Nat), b # <<>>
      PROVE  Good(<<a, b>>, a \o b)
  <2>1. a \o b \in Seq(Nat) /\ a \o b # <<>>
    BY <1>9, ConcatProperties
  <2> QED
    BY <1>9, <2>1, CutPair, Zenon
<1>10. Prefix(Len(payload)) = prefix /\ First(payload, Len(payload) \div 2) = half
  BY <1>1, Zenon
<1>11. Longer(Len(payload)) = Longer(n)
  BY <1>1, Zenon
<1> HIDE DEF payload, prefix, frame, h, half
<1>12. /\ FrameParts("normal", payload) = <<frame>>
       /\ FrameParts("force-tcp", payload) = <<frame>>
       /\ FrameParts("split-prefix", payload) = <<First(prefix, 1), From(prefix, 2), payload>>
       /\ FrameParts("split-body", payload) = <<prefix>> \o Slices(payload, 64)
       /\ FrameParts("bytewise", payload) = Slices(frame, 1)
       /\ FrameParts("delayed", payload) = <<prefix>> \o Slices(payload, 256)
       /\ FrameParts("close-after-prefix", payload) = <<prefix>>
       /\ FrameParts("close-mid-body", payload) = <<prefix, half>>
       /\ FrameParts("length-mismatch", payload) = <<Prefix(Longer(n)), half>>
       /\ FrameParts("duplicate-response", payload) = <<frame, frame>>
       /\ FrameParts("trailing-bytes", payload) = <<frame, Trailing>>
  <2>1. n = Len(payload)
    BY <1>1, Zenon
  <2>2. FrameParts("normal", payload) = <<Prefix(n) \o payload>>
    BY <2>1, SMT DEF FrameParts
  <2>3. FrameParts("force-tcp", payload) = <<Prefix(n) \o payload>>
    BY <2>1, SMT DEF FrameParts
  <2>4. FrameParts("split-prefix", payload) = <<First(Prefix(n), 1), From(Prefix(n), 2), payload>>
    BY <2>1, SMT DEF FrameParts
  <2>5. FrameParts("split-body", payload) = <<Prefix(n)>> \o Slices(payload, 64)
    BY <2>1, SMT DEF FrameParts
  <2>6. FrameParts("bytewise", payload) = Slices(Prefix(n) \o payload, 1)
    BY <2>1, SMT DEF FrameParts
  <2>7. FrameParts("delayed", payload) = <<Prefix(n)>> \o Slices(payload, 256)
    BY <2>1, SMT DEF FrameParts
  <2>8. FrameParts("close-after-prefix", payload) = <<Prefix(n)>>
    BY <2>1, SMT DEF FrameParts
  <2>9. FrameParts("close-mid-body", payload) = <<Prefix(n), First(payload, n \div 2)>>
    BY <2>1, SMT DEF FrameParts
  <2>10. FrameParts("length-mismatch", payload) = <<Prefix(Longer(n)), First(payload, n \div 2)>>
    BY <2>1, SMT DEF FrameParts, Longer
  <2>11. FrameParts("duplicate-response", payload) = <<Prefix(n) \o payload, Prefix(n) \o payload>>
    BY <2>1, SMT DEF FrameParts
  <2>12. FrameParts("trailing-bytes", payload) = <<Prefix(n) \o payload, Trailing>>
    BY <2>1, SMT DEF FrameParts
  <2> QED
    BY <2>2, <2>3, <2>4, <2>5, <2>6, <2>7, <2>8, <2>9, <2>10, <2>11, <2>12,
       Zenon DEF frame, prefix, half, h
<1>13. \A s \in {"normal", "force-tcp"} : FrameParts(s, payload) = <<frame>> /\ OnTheWire(s, n) = frame
  <2>1. FrameParts("normal", payload) = <<frame>> /\ FrameParts("force-tcp", payload) = <<frame>>
    BY <1>12, Zenon
  <2>2. OnTheWire("normal", n) = frame /\ OnTheWire("force-tcp", n) = frame
    BY Wire, Zenon DEF frame, prefix, payload
  <2> QED
    BY <2>1, <2>2, Zenon
<1>14. CASE scenario \in {"normal", "force-tcp"}
  BY <1>1, <1>2, <1>6, <1>13, <1>14, Zenon DEF payload
<1>15. CASE scenario = "split-prefix"
  <2>1. wire = frame /\ written = <<First(prefix, 1), From(prefix, 2), payload>>
    <3>1. FrameParts("split-prefix", payload) = <<First(prefix, 1), From(prefix, 2), payload>>
      BY <1>12, Zenon
    <3>2. OnTheWire("split-prefix", n) = frame
      BY Wire, Zenon DEF frame, prefix, payload
    <3> QED
      BY <1>15, <3>1, <3>2, Zenon
  <2>2. /\ First(prefix, 1) \in Seq(Nat) /\ First(prefix, 1) # <<>>
        /\ From(prefix, 2) \in Seq(Nat) /\ From(prefix, 2) # <<>>
        /\ First(prefix, 1) \o From(prefix, 2) = prefix
    <3>1. 1 \in Nat \ {0} /\ 1 < Len(prefix) /\ 1 + 1 = 2
      BY <1>1
    <3> QED
      BY <1>1, <3>1, Halves DEF First
  <2>3. CutFrom(<<First(prefix, 1), From(prefix, 2), payload>>,
                (First(prefix, 1) \o From(prefix, 2)) \o payload, 0)
    BY <1>1, <1>2, <2>2, CutTriple, Zenon
  <2> QED
    BY <1>1, <1>2, <2>1, <2>2, <2>3, Zenon DEF frame, payload
<1>16. CASE scenario = "split-body"
  <2>1. wire = frame /\ written = <<prefix>> \o Slices(payload, 64)
    <3>1. FrameParts("split-body", payload) = <<prefix>> \o Slices(payload, 64)
      BY <1>12, Zenon
    <3>2. OnTheWire("split-body", n) = frame
      BY Wire, Zenon DEF frame, prefix, payload
    <3> QED
      BY <1>16, <3>1, <3>2, Zenon
  <2>2. CutFrom(<<prefix>> \o Slices(payload, 64), frame, 0)
    <3>1. 64 \in Nat \ {0}
      OBVIOUS
    <3> QED
      BY <1>7, <3>1, Zenon
  <2> QED
    BY <1>1, <1>2, <2>1, <2>2, Zenon DEF payload
<1>17. CASE scenario = "bytewise"
  <2>1. wire = frame /\ written = Slices(frame, 1)
    <3>1. FrameParts("bytewise", payload) = Slices(frame, 1)
      BY <1>12, Zenon
    <3>2. OnTheWire("bytewise", n) = frame
      BY Wire, Zenon DEF frame, prefix, payload
    <3> QED
      BY <1>17, <3>1, <3>2, Zenon
  <2>2. CutFrom(Slices(frame, 1), frame, 0)
    <3>1. 1 \in Nat \ {0}
      OBVIOUS
    <3> QED
      BY <1>1, <1>2, <3>1, CutSlices, Zenon
  <2> QED
    BY <1>1, <1>2, <2>1, <2>2, Zenon DEF payload
<1>18. CASE scenario = "delayed"
  <2>1. wire = frame /\ written = <<prefix>> \o Slices(payload, 256)
    <3>1. FrameParts("delayed", payload) = <<prefix>> \o Slices(payload, 256)
      BY <1>12, Zenon
    <3>2. OnTheWire("delayed", n) = frame
      BY Wire, Zenon DEF frame, prefix, payload
    <3> QED
      BY <1>18, <3>1, <3>2, Zenon
  <2>2. CutFrom(<<prefix>> \o Slices(payload, 256), frame, 0)
    <3>1. 256 \in Nat \ {0}
      OBVIOUS
    <3> QED
      BY <1>7, <3>1, Zenon
  <2> QED
    BY <1>1, <1>2, <2>1, <2>2, Zenon DEF payload
<1>19. CASE scenario = "close-after-prefix"
  <2>1. FrameParts("close-after-prefix", payload) = <<prefix>>
    BY <1>12, Zenon
  <2>2. OnTheWire("close-after-prefix", n) = First(frame, 2)
    BY Wire, Zenon DEF frame, prefix, payload
  <2> QED
    BY <1>1, <1>2, <1>4, <1>6, <1>19, <2>1, <2>2, Zenon DEF payload
<1>20. CASE scenario = "close-mid-body"
  <2>1. FrameParts("close-mid-body", payload) = <<prefix, half>>
    BY <1>12, Zenon
  <2>2. OnTheWire("close-mid-body", n) = First(frame, 2 + h)
    BY Wire, Zenon DEF frame, prefix, payload, h
  <2>3. Good(<<prefix, half>>, prefix \o half)
    BY <1>1, <1>2, <1>5, <1>9, Zenon
  <2> QED
    BY <1>4, <1>20, <2>1, <2>2, <2>3, Zenon DEF payload
<1>21. CASE scenario = "length-mismatch"
  <2>1. FrameParts("length-mismatch", payload) = <<Prefix(Longer(n)), half>>
    BY <1>12, Zenon
  <2>2. OnTheWire("length-mismatch", n) = Prefix(Longer(n)) \o Bytes(h)
    BY Wire, Zenon DEF h
  <2>3. Prefix(Longer(n)) \in Seq(Nat) /\ Prefix(Longer(n)) # <<>>
    BY <1>8, BytesFacts
  <2>4. Good(<<Prefix(Longer(n)), half>>, Prefix(Longer(n)) \o half)
    BY <1>5, <1>9, <2>3, Zenon
  <2> QED
    BY <1>4, <1>21, <2>1, <2>2, <2>4, Zenon DEF payload
<1>22. CASE scenario = "duplicate-response"
  <2>1. FrameParts("duplicate-response", payload) = <<frame, frame>>
    BY <1>12, Zenon
  <2>2. OnTheWire("duplicate-response", n) = frame \o frame
    BY Wire, Zenon DEF frame, prefix, payload
  <2>3. Good(<<frame, frame>>, frame \o frame)
    BY <1>1, <1>2, <1>9, Zenon
  <2> QED
    BY <1>22, <2>1, <2>2, <2>3, Zenon DEF payload
<1>23. CASE scenario = "trailing-bytes"
  <2>1. FrameParts("trailing-bytes", payload) = <<frame, Trailing>>
    BY <1>12, Zenon
  <2>2. OnTheWire("trailing-bytes", n) = frame \o Trailing
    BY Wire, Zenon DEF frame, prefix, payload
  <2>3. Trailing \in Seq(Nat) /\ Trailing # <<>>
    BY DEF Trailing
  <2>4. Good(<<frame, Trailing>>, frame \o Trailing)
    BY <1>1, <1>2, <1>9, <2>3, Zenon
  <2> QED
    BY <1>23, <2>1, <2>2, <2>4, Zenon DEF payload
<1> HIDE DEF wire, written
<1>24. \/ scenario \in {"normal", "force-tcp"} \/ scenario = "split-prefix" \/ scenario = "split-body"
       \/ scenario = "bytewise" \/ scenario = "delayed" \/ scenario = "close-after-prefix"
       \/ scenario = "close-mid-body" \/ scenario = "length-mismatch"
       \/ scenario = "duplicate-response" \/ scenario = "trailing-bytes"
  BY Zenon DEF Replying, Scenario
<1> QED
  BY <1>14, <1>15, <1>16, <1>17, <1>18, <1>19, <1>20, <1>21, <1>22, <1>23, <1>24, Zenon

(***************************************************************************)
(* The query, as the probe cuts it.                                        *)
(***************************************************************************)
LEMMA CutThree ==
  ASSUME NEW s, s \in Seq(Nat), NEW i \in Nat, NEW j \in Nat, 0 < i, i < j, j < Len(s)
  PROVE  CutFrom(<<First(s, i), SubSeq(s, i + 1, j), From(s, j + 1)>>, s, 0)
<1>1. /\ i \in Nat \ {0} /\ j \in Nat \ {0} /\ i < Len(s) /\ j \in i + 1 .. Len(s)
  OBVIOUS
<1>2. /\ First(s, i) \in Seq(Nat) /\ First(s, i) # <<>>
      /\ From(s, j + 1) \in Seq(Nat) /\ From(s, j + 1) # <<>>
      /\ SubSeq(s, 1, j) \o From(s, j + 1) = s
  BY <1>1, Halves DEF First
<1>3. SubSeq(s, 1, i) \o SubSeq(s, i + 1, j) = SubSeq(s, 1, j)
  BY <1>1, Reached
<1>4. SubSeq(s, i + 1, j) \in Seq(Nat) /\ SubSeq(s, i + 1, j) # <<>>
  <2>1. \A k \in i + 1 .. j : s[k] \in Nat
    BY <1>1
  <2>2. /\ SubSeq(s, i + 1, j) \in Seq(Nat)
        /\ Len(SubSeq(s, i + 1, j)) = IF i + 1 <= j THEN j - (i + 1) + 1 ELSE 0
    <3>1. i + 1 \in Int /\ j \in Int
      OBVIOUS
    <3> QED
      BY <2>1, <3>1, SubSeqProperties
  <2>3. i + 1 <= j /\ j - (i + 1) + 1 # 0
    BY <1>1
  <2>4. Len(<<>>) = 0
    OBVIOUS
  <2> QED
    BY <2>2, <2>3, <2>4, Zenon
<1>5. CutFrom(<<First(s, i), SubSeq(s, i + 1, j), From(s, j + 1)>>,
              (First(s, i) \o SubSeq(s, i + 1, j)) \o From(s, j + 1), 0)
  BY <1>2, <1>4, CutTriple, Zenon
<1> QED
  BY <1>2, <1>3, <1>5, Zenon DEF First

(* The query's frame, whose prefix declares the length of the query. *)
LEMMA QueryFacts ==
  /\ RequestFrame \in Seq(Nat) /\ RequestFrame # <<>>
  /\ Len(RequestFrame) = QuerySize + 2 /\ QuerySize \in Nat /\ QuerySize >= 12
  /\ 256 * RequestFrame[1] + RequestFrame[2] = QuerySize
<1>1. QuerySize \in Nat /\ QuerySize >= 12
  BY SizeAssumption
<1> DEFINE p == Prefix(QuerySize)  b == Bytes(QuerySize)
<1>2. /\ p \in Seq(Nat) /\ Len(p) = 2 /\ b \in Seq(Nat)
      /\ p \o b \in Seq(Nat) /\ Len(p \o b) = QuerySize + 2
  BY <1>1, BytesFacts
<1>3. p[1] = QuerySize \div 256 /\ p[2] = QuerySize % 256
  BY DEF Prefix
<1>4. 256 * (QuerySize \div 256) + (QuerySize % 256) = QuerySize
  BY <1>1, SMTT(30)
<1> HIDE DEF p, b
<1>5. \A i \in 1 .. Len(p) : (p \o b)[i] = p[i]
  BY <1>2, ConcatElements, ZenonT(60)
<1>6. 1 \in 1 .. Len(p) /\ 2 \in 1 .. Len(p)
  BY <1>2
<1>7. (p \o b)[1] = p[1] /\ (p \o b)[2] = p[2]
  BY <1>5, <1>6, Zenon
<1>8. p \o b # <<>>
  BY <1>1, <1>2
<1>9. RequestFrame = p \o b
  BY Zenon DEF RequestFrame, p, b
<1> QED
  BY <1>1, <1>2, <1>3, <1>4, <1>7, <1>8, <1>9, ZenonT(60)

(* request_parts: the parts are pieces of the query's frame, all of it. *)
LEMMA PartsMakeQuery ==
  ASSUME NEW pattern \in Pattern
  PROVE  CutFrom(RequestParts(RequestFrame, pattern), RequestFrame, 0)
<1> DEFINE s == RequestFrame
           body == Len(s) - 2
           mid == 2 + (IF body \div 2 > 1 THEN body \div 2 ELSE 1)
<1>1. /\ s \in Seq(Nat) /\ s # <<>> /\ Len(s) = QuerySize + 2 /\ QuerySize \in Nat /\ QuerySize >= 12
  BY QueryFacts
<1>2. mid \in Nat /\ 2 < mid /\ mid < Len(s)
  <2>1. Len(s) - 2 = QuerySize /\ QuerySize \div 2 > 1 /\ 2 + QuerySize \div 2 < QuerySize + 2
    BY <1>1
  <2>2. mid = 2 + QuerySize \div 2
    BY <2>1
  <2> QED
    BY <1>1, <2>1, <2>2
<1>3. RequestParts(s, "whole") = <<s>>
  BY SMT DEF RequestParts
<1>4. RequestParts(s, "split-prefix") = <<First(s, 1), SubSeq(s, 2, 2), From(s, 3)>>
  BY SMT DEF RequestParts
<1>5. RequestParts(s, "split-body") = <<First(s, 2), SubSeq(s, 3, mid), From(s, mid + 1)>>
  BY SMT DEF RequestParts
<1>6. RequestParts(s, "bytewise") = Slices(s, 1)
  BY SMT DEF RequestParts
<1> HIDE DEF s, mid
<1>7. CutFrom(<<s>>, s, 0)
  BY <1>1, CutWhole, Zenon
<1>8. CutFrom(Slices(s, 1), s, 0)
  <2>1. 1 \in Nat \ {0}
    OBVIOUS
  <2> QED
    BY <1>1, <2>1, CutSlices, Zenon
<1>9. CutFrom(<<First(s, 1), SubSeq(s, 2, 2), From(s, 3)>>, s, 0)
  <2>1. 1 \in Nat /\ 2 \in Nat /\ 0 < 1 /\ 1 < 2 /\ 2 < Len(s) /\ 1 + 1 = 2 /\ 2 + 1 = 3
    BY <1>1
  <2> QED
    BY <1>1, <2>1, CutThree
<1>10. CutFrom(<<First(s, 2), SubSeq(s, 3, mid), From(s, mid + 1)>>, s, 0)
  <2>1. 2 \in Nat /\ 0 < 2 /\ 2 + 1 = 3
    OBVIOUS
  <2> QED
    BY <1>1, <1>2, <2>1, CutThree
<1>11. pattern = "whole" \/ pattern = "split-prefix" \/ pattern = "split-body" \/ pattern = "bytewise"
  BY Zenon DEF Pattern
<1> QED
  BY <1>3, <1>4, <1>5, <1>6, <1>7, <1>8, <1>9, <1>10, <1>11, Zenon DEF s

(***************************************************************************)
(* The invariant.                                                          *)
(***************************************************************************)
OnItsWay == received \o toProbe
Reply == OnTheWire(row.scenario, size)
QueryRead == toServer = <<>> /\ requestParts = <<>>

BytesInv ==
  /\ row \in Row /\ size \in PayloadSize
  /\ toServer \in Seq(Nat) /\ toProbe \in Seq(Nat) /\ request \in Seq(Nat) /\ received \in Seq(Nat)

(* The probe sends the pieces of its query, and sends while it has some. *)
SendInv ==
  /\ \E c \in Nat : CutFrom(requestParts, RequestFrame, c)
  /\ ppc \in {"send", "sendPause"} => requestParts # <<>>

(* What has left the probe, the handler has read or is still to read; not  *)
(* all of it yet.                                                          *)
Reading ==
  /\ spc = "read" /\ OnItsWay = <<>> /\ Len(request) < Len(RequestFrame)
  /\ \E c \in Nat : /\ CutFrom(requestParts, RequestFrame, c)
                    /\ request \o toServer = SubSeq(RequestFrame, 1, c)

(* The handler has timed out before it had read the query. *)
GivenUp == spc = "closed" /\ OnItsWay = <<>> /\ ~QueryRead

Waiting ==
  /\ QueryRead /\ OnItsWay = <<>>
  /\ \/ spc = "stall" /\ row.scenario = "stall"
     \/ spc = "forward" /\ row.scenario \in Replying

(* c octets of the reply are written, its parts are the others. *)
Writing ==
  /\ spc \in {"write", "pause"} /\ QueryRead /\ row.scenario \in Replying /\ parts # <<>>
  /\ \E c \in Nat : CutFrom(parts, Reply, c) /\ OnItsWay = SubSeq(Reply, 1, c)

Finished == spc \in {"read", "closed"} /\ QueryRead /\ OnItsWay = Reply

HandlerInv == Reading \/ GivenUp \/ Waiting \/ Writing \/ Finished

IInv == BytesInv /\ SendInv /\ HandlerInv

-----------------------------------------------------------------------------
(* What a row of the table and a length are, by the assumptions. *)
LEMMA RowFacts ==
  ASSUME NEW r \in Row
  PROVE  r.scenario \in Scenario /\ r.pattern \in Pattern
<1>1. r \in [scenario : Scenario, expect : Expectation, pattern : Pattern,
             timeout : Nat, io : Nat, chunk : Nat]
  BY RowAssumption, Zenon
<1> QED
  BY <1>1

(* An answer has a header. *)
LEMMA SizeFacts == ASSUME NEW n \in PayloadSize PROVE n \in Nat /\ n >= 12
BY SizeAssumption

(* The reply of a scenario that has one, and its parts. *)
LEMMA ReplyFacts ==
  ASSUME BytesInv, row.scenario \in Replying
  PROVE  /\ Reply \in Seq(Nat) /\ Reply # <<>>
         /\ CutFrom(FrameParts(row.scenario, Bytes(size)), Reply, 0)
<1>1. size \in Nat /\ size >= 12
  BY SizeFacts, Zenon DEF BytesInv
<1> QED
  BY <1>1, PartsMakeReply, Zenon DEF Reply

(* Nothing of a sequence, and all of it. *)
LEMMA NoneOrAll ==
  ASSUME NEW s, s \in Seq(Nat)
  PROVE  SubSeq(s, 1, 0) = <<>> /\ SubSeq(s, 1, Len(s)) = s
<1>1. Len(s) \in Nat /\ 0 \in 0 .. Len(s)
  OBVIOUS
<1>2. SubSeq(s, 1, 0) \in Seq(Nat) /\ Len(SubSeq(s, 1, 0)) = 0
  BY <1>1, Cut
<1>3. SubSeq(s, 1, 0) = <<>>
  BY <1>2
<1> QED
  BY <1>3, SubSeqFull

(* The handler starts reading, the probe with all its pieces. *)
LEMMA Starts == Init => IInv
<1> SUFFICES ASSUME Init PROVE IInv
  OBVIOUS
<1>1. BytesInv
  <2>1. <<>> \in Seq(Nat)
    OBVIOUS
  <2> QED
    BY <2>1, Zenon DEF Init, BytesInv
<1>2. CutFrom(requestParts, RequestFrame, 0)
  <2>1. row.pattern \in Pattern
    BY <1>1, RowFacts, Zenon DEF BytesInv
  <2> QED
    BY <2>1, PartsMakeQuery, Zenon DEF Init
<1>3. RequestFrame \in Seq(Nat) /\ RequestFrame # <<>> /\ Len(RequestFrame) \in Nat \ {0} /\ 0 \in Nat
  <2>1. RequestFrame \in Seq(Nat) /\ RequestFrame # <<>>
    BY QueryFacts
  <2> QED
    BY <2>1, EmptySeq
<1>4. requestParts # <<>>
  <2>1. 0 # Len(RequestFrame)
    BY <1>3
  <2> QED
    BY <1>2, <1>3, <2>1, CutAll, Zenon
<1>5. SendInv
  BY <1>2, <1>3, <1>4, Zenon DEF SendInv
<1>6. Reading
  <2>1. <<>> \o <<>> = <<>> /\ Len(<<>>) = 0 /\ 0 < Len(RequestFrame)
    BY <1>3
  <2>2. SubSeq(RequestFrame, 1, 0) = <<>>
    BY <1>3, NoneOrAll, Zenon
  <2>3. spc = "read" /\ received = <<>> /\ toProbe = <<>> /\ request = <<>> /\ toServer = <<>>
    BY Zenon DEF Init
  <2> QED
    BY <1>2, <1>3, <2>1, <2>2, <2>3, Zenon DEF Reading, OnItsWay
<1> QED
  BY <1>1, <1>5, <1>6, Zenon DEF IInv, HandlerInv

(* What the handler's phase depends on. *)
phaseVars == <<row, size, toServer, toProbe, spc, request, parts, requestParts, received>>

(* The phase stays as long as what it speaks of does. *)
LEMMA PhaseKept ==
  ASSUME HandlerInv, UNCHANGED phaseVars
  PROVE  HandlerInv'
<1>1. /\ row' = row /\ size' = size /\ toServer' = toServer /\ toProbe' = toProbe /\ spc' = spc
      /\ request' = request /\ parts' = parts /\ requestParts' = requestParts /\ received' = received
  BY Zenon DEF phaseVars
<1>2. OnItsWay' = OnItsWay /\ Reply' = Reply /\ (QueryRead' <=> QueryRead)
  BY <1>1, Zenon DEF OnItsWay, Reply, QueryRead
<1>3. /\ Reading => Reading'
      /\ GivenUp => GivenUp'
      /\ Waiting => Waiting'
      /\ Writing => Writing'
      /\ Finished => Finished'
  BY <1>1, <1>2, Zenon DEF Reading, GivenUp, Waiting, Writing, Finished
<1> QED
  BY <1>3, Zenon DEF HandlerInv

(* A step that only lets time pass, ends a pause, or judges. *)
LEMMA Idle ==
  ASSUME IInv, UNCHANGED phaseVars, ppc' \in {"send", "sendPause"} => ppc \in {"send", "sendPause"}
  PROVE  IInv'
<1>1. /\ row' = row /\ size' = size /\ toServer' = toServer /\ toProbe' = toProbe
      /\ request' = request /\ requestParts' = requestParts /\ received' = received
  BY Zenon DEF phaseVars
<1>2. BytesInv'
  BY <1>1, Zenon DEF IInv, BytesInv
<1>3. SendInv'
  BY <1>1, Zenon DEF IInv, SendInv
<1>4. HandlerInv'
  BY PhaseKept, Zenon DEF IInv
<1> QED
  BY <1>2, <1>3, <1>4, Zenon DEF IInv

-----------------------------------------------------------------------------
(* recv_exact asks for what is missing, which is what the query has still. *)
LEMMA MissingIsTheRest ==
  ASSUME BytesInv, Len(request) < Len(RequestFrame),
         NEW c \in Nat, c <= Len(RequestFrame), request \o toServer = SubSeq(RequestFrame, 1, c)
  PROVE  /\ c = Len(request) + Len(toServer)
         /\ Missing = IF Len(request) < 2 THEN 2 - Len(request) ELSE Len(RequestFrame) - Len(request)
<1> DEFINE q == RequestFrame
<1>1. /\ q \in Seq(Nat) /\ Len(q) = QuerySize + 2 /\ QuerySize \in Nat /\ QuerySize >= 12
      /\ 256 * q[1] + q[2] = QuerySize
  BY QueryFacts
<1> HIDE DEF q
<1>2. request \in Seq(Nat) /\ toServer \in Seq(Nat)
  BY Zenon DEF BytesInv
<1>3. c \in 0 .. Len(q)
  BY <1>1 DEF q
<1>4. Len(SubSeq(q, 1, c)) = c /\ \A i \in 1 .. c : SubSeq(q, 1, c)[i] = q[i]
  BY <1>1, <1>3, Cut
<1>5. /\ Len(request \o toServer) = Len(request) + Len(toServer)
      /\ \A i \in 1 .. Len(request) : (request \o toServer)[i] = request[i]
  BY <1>2, ConcatElements
<1>6. request \o toServer = SubSeq(q, 1, c)
  BY Zenon DEF q
<1>7. c = Len(request) + Len(toServer)
  BY <1>4, <1>5, <1>6, Zenon
<1>8. Len(request) \in Nat /\ Len(toServer) \in Nat
  BY <1>2
<1>9. CASE Len(request) < 2
  BY <1>7, <1>9, Zenon DEF Missing
<1>10. CASE ~(Len(request) < 2)
  <2>1. 1 \in 1 .. Len(request) /\ 2 \in 1 .. Len(request) /\ 1 \in 1 .. c /\ 2 \in 1 .. c
    BY <1>7, <1>8, <1>10
  <2>2. request[1] = q[1] /\ request[2] = q[2]
    <3>1. (request \o toServer)[1] = request[1] /\ (request \o toServer)[2] = request[2]
      BY <1>5, <2>1, Zenon
    <3>2. SubSeq(q, 1, c)[1] = q[1] /\ SubSeq(q, 1, c)[2] = q[2]
      BY <1>4, <2>1, Zenon
    <3> QED
      BY <1>6, <3>1, <3>2
  <2>3. Declared(request) = QuerySize
    BY <1>1, <2>2, Zenon DEF Declared
  <2>4. Missing = 2 + QuerySize - Len(request)
    BY <1>10, <2>3, Zenon DEF Missing
  <2>5. 2 + QuerySize - Len(request) = Len(q) - Len(request)
    BY <1>1, <1>8
  <2> QED
    BY <1>7, <1>10, <2>4, <2>5, Zenon DEF q
<1> QED
  BY <1>9, <1>10

(* While the handler reads, the query is not all read. *)
LEMMA StillToRead ==
  ASSUME BytesInv, Reading
  PROVE  ~QueryRead
<1>1. PICK c \in Nat : /\ CutFrom(requestParts, RequestFrame, c)
                       /\ request \o toServer = SubSeq(RequestFrame, 1, c)
  BY Zenon DEF Reading
<1>2. RequestFrame \in Seq(Nat)
  BY QueryFacts
<1>3. c <= Len(RequestFrame) /\ (requestParts = <<>> <=> c = Len(RequestFrame))
  BY <1>1, <1>2, CutAll
<1>4. c = Len(request) + Len(toServer) /\ Len(request) < Len(RequestFrame)
  BY <1>1, <1>3, MissingIsTheRest, Zenon DEF Reading
<1>5. ASSUME toServer = <<>>, requestParts = <<>> PROVE FALSE
  <2>1. request \in Seq(Nat)
    BY Zenon DEF BytesInv
  <2>2. Len(toServer) = 0 /\ Len(request) \in Nat /\ Len(RequestFrame) \in Nat
    BY <1>2, <1>5, <2>1
  <2> QED
    BY <1>3, <1>4, <1>5, <2>2
<1> QED
  BY <1>5, Zenon DEF QueryRead

(* The numbers of a recv. *)
LEMMA TakeNumbers ==
  ASSUME NEW r \in Nat, NEW t \in Nat, NEW l \in Nat, NEW c \in Nat, NEW n,
         r < l, c <= l, c = r + t, t > 0, l > 2,
         NEW missing, missing = IF r < 2 THEN 2 - r ELSE l - r,
         n = IF missing < t THEN missing ELSE t
  PROVE  /\ n \in 0 .. t
         /\ r >= 2 /\ n = missing => t - n = 0 /\ c = l
         /\ ~(r >= 2 /\ n = missing) => r + n < l
OBVIOUS

(* recv_exact takes what came of the prefix or the body; a whole query is dispatched. *)
LEMMA ReadKeeps ==
  ASSUME IInv, ServerRead
  PROVE  /\ IInv'
         /\ \/ ~QueryRead' /\ stimer' = now + row.io /\ UNCHANGED <<spc, parts, toProbe, closed>>
            \/ QueryRead' /\ Dispatch
         /\ \E n \in 0 .. Len(toServer) :
               request' = request \o First(toServer, n) /\ toServer' = From(toServer, n + 1)
<1>1. /\ BytesInv /\ SendInv /\ HandlerInv
  BY Zenon DEF IInv
<1>2. spc = "read" /\ toServer # <<>>
  BY Zenon DEF ServerRead
<1>3. Reading
  <2>1. "read" # "closed" /\ "read" # "stall" /\ "read" # "forward" /\ "read" \notin {"write", "pause"}
    BY Zenon
  <2> QED
    BY <1>1, <1>2, <2>1, Zenon DEF HandlerInv, GivenUp, Waiting, Writing, Finished, QueryRead
<1>4. PICK c \in Nat : /\ CutFrom(requestParts, RequestFrame, c)
                       /\ request \o toServer = SubSeq(RequestFrame, 1, c)
  BY <1>3, Zenon DEF Reading
<1>5. OnItsWay = <<>> /\ Len(request) < Len(RequestFrame)
  BY <1>3, Zenon DEF Reading
<1>6. RequestFrame \in Seq(Nat) /\ Len(RequestFrame) \in Nat /\ Len(RequestFrame) > 2
  <2>1. RequestFrame \in Seq(Nat) /\ Len(RequestFrame) = QuerySize + 2 /\ QuerySize \in Nat /\ QuerySize >= 12
    BY QueryFacts
  <2> QED
    BY <2>1
<1>7. c <= Len(RequestFrame) /\ (requestParts = <<>> <=> c = Len(RequestFrame))
  BY <1>4, <1>6, CutAll
<1>8. /\ c = Len(request) + Len(toServer)
      /\ Missing = IF Len(request) < 2 THEN 2 - Len(request) ELSE Len(RequestFrame) - Len(request)
  BY <1>1, <1>4, <1>5, <1>7, MissingIsTheRest
<1>9. request \in Seq(Nat) /\ toServer \in Seq(Nat)
  BY <1>1, Zenon DEF BytesInv
<1>10. Len(request) \in Nat /\ Len(toServer) \in Nat /\ Len(toServer) > 0
  BY <1>2, <1>9, EmptySeq
<1> DEFINE n == IF Missing < Len(toServer) THEN Missing ELSE Len(toServer)
<1>11. /\ n \in 0 .. Len(toServer)
       /\ Len(request) >= 2 /\ n = Missing => Len(toServer) - n = 0 /\ c = Len(RequestFrame)
       /\ ~(Len(request) >= 2 /\ n = Missing) => Len(request) + n < Len(RequestFrame)
  <2> DEFINE r == Len(request)  t == Len(toServer)  l == Len(RequestFrame)  m == Missing  k == n
  <2>1. /\ r \in Nat /\ t \in Nat /\ l \in Nat /\ r < l /\ c <= l /\ c = r + t /\ t > 0 /\ l > 2
        /\ m = IF r < 2 THEN 2 - r ELSE l - r
        /\ k = IF m < t THEN m ELSE t
    BY <1>5, <1>6, <1>7, <1>8, <1>10, Zenon
  <2> HIDE DEF r, t, l, m, k
  <2>2. /\ k \in 0 .. t
        /\ r >= 2 /\ k = m => t - k = 0 /\ c = l
        /\ ~(r >= 2 /\ k = m) => r + k < l
    BY <2>1, TakeNumbers
  <2> QED
    BY <2>2, Zenon DEF r, t, l, m, k
<1>12. /\ request' = request \o First(toServer, n) /\ toServer' = From(toServer, n + 1)
       /\ IF Len(request) >= 2 /\ n = Missing
          THEN Dispatch
          ELSE stimer' = now + row.io /\ UNCHANGED <<spc, parts, toProbe, closed>>
       /\ row' = row /\ size' = size /\ received' = received /\ requestParts' = requestParts /\ ppc' = ppc
  BY Zenon DEF ServerRead, probeVars
<1> HIDE DEF n
<1>13. /\ First(toServer, n) \in Seq(Nat) /\ From(toServer, n + 1) \in Seq(Nat)
       /\ Len(First(toServer, n)) = n /\ Len(From(toServer, n + 1)) = Len(toServer) - n
       /\ First(toServer, n) \o From(toServer, n + 1) = toServer
  BY <1>9, <1>11, FrontAndRest DEF First, From
<1>14. /\ request' \in Seq(Nat) /\ toServer' \in Seq(Nat)
       /\ Len(request') = Len(request) + n /\ Len(toServer') = Len(toServer) - n
       /\ request' \o toServer' = request \o toServer
  <2>1. /\ request \o First(toServer, n) \in Seq(Nat)
        /\ Len(request \o First(toServer, n)) = Len(request) + Len(First(toServer, n))
    BY <1>9, <1>13, ConcatElements
  <2>2. (request \o First(toServer, n)) \o From(toServer, n + 1)
          = request \o (First(toServer, n) \o From(toServer, n + 1))
    <3>1. request \in Seq(Nat) /\ First(toServer, n) \in Seq(Nat) /\ From(toServer, n + 1) \in Seq(Nat)
      BY <1>9, <1>13, Zenon
    <3> QED
      BY <3>1, ConcatAssociative, SMTT(60)
  <2> QED
    BY <1>12, <1>13, <2>1, <2>2, Zenon
<1>15. SendInv'
  BY <1>1, <1>12, Zenon DEF SendInv
<1>16. \E k \in 0 .. Len(toServer) :
          request' = request \o First(toServer, k) /\ toServer' = From(toServer, k + 1)
  BY <1>11, <1>12, Zenon
<1>17. CASE ~(Len(request) >= 2 /\ n = Missing)
  <2>1. spc' = spc /\ toProbe' = toProbe
    BY <1>12, <1>17, Zenon
  <2>2. Len(request') < Len(RequestFrame)
    BY <1>11, <1>14, <1>17, Zenon
  <2>3. Reading'
    BY <1>2, <1>4, <1>5, <1>12, <1>14, <2>1, <2>2, Zenon DEF Reading, OnItsWay
  <2>4. BytesInv'
    BY <1>1, <1>12, <1>14, <2>1, Zenon DEF BytesInv
  <2>5. stimer' = now + row.io /\ UNCHANGED <<spc, parts, toProbe, closed>>
    BY <1>12, <1>17, Zenon
  <2>6. ~QueryRead'
    <3>1. ASSUME toServer' = <<>>, requestParts' = <<>> PROVE FALSE
      <4>1. Len(toServer') = 0
        BY <3>1
      <4>2. c = Len(RequestFrame)
        BY <1>7, <1>12, <3>1, Zenon
      <4>3. Len(toServer) = n
        BY <1>10, <1>11, <1>14, <4>1
      <4> QED
        BY <1>6, <1>8, <1>10, <1>14, <2>2, <4>2, <4>3
    <3> QED
      BY <3>1, Zenon DEF QueryRead
  <2> QED
    BY <1>15, <1>16, <2>3, <2>4, <2>5, <2>6, Zenon DEF IInv, HandlerInv
<1>18. CASE Len(request) >= 2 /\ n = Missing
  <2>1. Dispatch
    BY <1>12, <1>18, Zenon
  <2>2. toProbe' = toProbe
    BY <2>1, Zenon DEF Dispatch, ServerClose
  <2>3. OnItsWay' = <<>>
    BY <1>5, <1>12, <2>2, Zenon DEF OnItsWay
  <2>4. QueryRead'
    <3>1. Len(toServer') = 0
      BY <1>11, <1>14, <1>18, Zenon
    <3>2. toServer' = <<>>
      BY <1>14, <3>1
    <3> QED
      BY <1>7, <1>11, <1>12, <1>18, <3>2, Zenon DEF QueryRead
  <2>5. BytesInv'
    BY <1>1, <1>12, <1>14, <2>2, Zenon DEF BytesInv
  <2>6. CASE row.scenario = "close-before-response" /\ ServerClose
    <3>1. spc' = "closed"
      BY <2>6, Zenon DEF ServerClose
    <3>2. Reply' = <<>>
      BY <1>12, <2>6, Wire, Zenon DEF Reply
    <3> QED
      BY <1>15, <1>16, <2>1, <2>3, <2>4, <2>5, <3>1, <3>2, Zenon DEF IInv, HandlerInv, Finished
  <2>7. CASE row.scenario = "stall" /\ spc' = "stall"
    BY <1>12, <1>15, <1>16, <2>1, <2>3, <2>4, <2>5, <2>7, Zenon DEF IInv, HandlerInv, Waiting
  <2>8. CASE row.scenario \notin {"close-before-response", "stall"} /\ spc' = "forward"
    <3>1. row.scenario \in Scenario
      BY <1>1, RowFacts, Zenon DEF BytesInv
    <3>2. row'.scenario \in Replying
      BY <1>12, <2>8, <3>1, Zenon DEF Replying
    <3> QED
      BY <1>15, <1>16, <2>1, <2>3, <2>4, <2>5, <2>8, <3>2, Zenon DEF IInv, HandlerInv, Waiting
  <2> QED
    BY <2>1, <2>6, <2>7, <2>8, Zenon DEF Dispatch
<1> QED
  BY <1>17, <1>18, Zenon

(* A sequence is one element long when nothing follows the first. *)
LEMMA LastOne ==
  ASSUME NEW p, p \in Seq(Seq(Nat)) /\ p # <<>>
  PROVE  /\ Tail(p) = <<>> <=> Len(p) = 1
         /\ Len(p) > 1 => Len(p) # 1
<1>1. Tail(p) \in Seq(Seq(Nat)) /\ Len(Tail(p)) = Len(p) - 1
  BY EmptySeq, HeadTailProperties
<1>2. Tail(p) = <<>> <=> Len(Tail(p)) = 0
  BY <1>1, EmptySeq
<1>3. Len(p) \in Nat
  OBVIOUS
<1>4. Len(p) - 1 = 0 <=> Len(p) = 1
  BY <1>3
<1>5. Len(p) > 1 => Len(p) # 1
  <2>1. \A k \in Nat : k > 1 => k # 1
    OBVIOUS
  <2> QED
    BY <1>3, <2>1, Zenon
<1> QED
  BY <1>1, <1>2, <1>4, <1>5, Zenon

(* IO_TIMEOUT_SECONDS ends a wait for the query, or for a second one. *)
LEMMA ReadTimeoutKeeps ==
  ASSUME IInv, ServerReadTimesOut
  PROVE  IInv'
<1>1. BytesInv /\ SendInv /\ HandlerInv
  BY Zenon DEF IInv
<1>2. spc = "read" /\ toServer = <<>> /\ spc' = "closed"
  BY Zenon DEF ServerReadTimesOut, ServerClose
<1>3. /\ row' = row /\ size' = size /\ toServer' = toServer /\ toProbe' = toProbe
      /\ request' = request /\ requestParts' = requestParts /\ received' = received /\ ppc' = ppc
  BY Zenon DEF ServerReadTimesOut, ServerClose, probeVars
<1>4. OnItsWay' = OnItsWay /\ Reply' = Reply /\ (QueryRead' <=> QueryRead)
  BY <1>3, Zenon DEF OnItsWay, Reply, QueryRead
<1>5. BytesInv' /\ SendInv'
  BY <1>1, <1>3, Zenon DEF BytesInv, SendInv
<1>6. CASE Reading
  <2>1. ~QueryRead
    BY <1>1, <1>6, StillToRead
  <2> QED
    BY <1>2, <1>4, <1>5, <1>6, <2>1, Zenon DEF IInv, HandlerInv, GivenUp, Reading
<1>7. CASE Finished
  BY <1>2, <1>4, <1>5, <1>7, Zenon DEF IInv, HandlerInv, Finished
<1>8. Reading \/ Finished
  <2>1. "read" # "closed" /\ "read" # "stall" /\ "read" # "forward" /\ "read" \notin {"write", "pause"}
    BY Zenon
  <2> QED
    BY <1>1, <1>2, <2>1, Zenon DEF HandlerInv, GivenUp, Waiting, Writing
<1> QED
  BY <1>6, <1>7, <1>8, Zenon

(* STALL_SECONDS end: nothing was to be put on the wire. *)
LEMMA StallKeeps ==
  ASSUME IInv, StallEnds
  PROVE  IInv'
<1>1. BytesInv /\ SendInv /\ HandlerInv
  BY Zenon DEF IInv
<1>2. spc = "stall" /\ spc' = "closed"
  BY Zenon DEF StallEnds, ServerClose
<1>3. /\ row' = row /\ size' = size /\ toServer' = toServer /\ toProbe' = toProbe
      /\ request' = request /\ requestParts' = requestParts /\ received' = received /\ ppc' = ppc
  BY Zenon DEF StallEnds, ServerClose, probeVars
<1>4. OnItsWay' = OnItsWay /\ (QueryRead' <=> QueryRead)
  BY <1>3, Zenon DEF OnItsWay, QueryRead
<1>5. BytesInv' /\ SendInv'
  BY <1>1, <1>3, Zenon DEF BytesInv, SendInv
<1>6. Waiting /\ row.scenario = "stall"
  <2>1. /\ "stall" # "closed" /\ "stall" # "read" /\ "stall" # "forward"
        /\ "stall" \notin {"write", "pause"} /\ "stall" \notin {"read", "closed"}
    BY Zenon
  <2> QED
    BY <1>1, <1>2, <2>1, Zenon DEF HandlerInv, Reading, GivenUp, Waiting, Writing, Finished
<1>7. Reply' = <<>>
  BY <1>3, <1>6, Wire, Zenon DEF Reply
<1> QED
  BY <1>2, <1>4, <1>5, <1>6, <1>7, Zenon DEF IInv, HandlerInv, Waiting, Finished

(* BIND has answered: all the parts are still to be written. *)
LEMMA AnsweredKeeps ==
  ASSUME IInv, Answered
  PROVE  IInv'
<1>1. BytesInv /\ SendInv /\ HandlerInv
  BY Zenon DEF IInv
<1>2. spc = "forward" /\ spc' = "write" /\ parts' = FrameParts(row.scenario, Bytes(size))
  BY Zenon DEF Answered
<1>3. /\ row' = row /\ size' = size /\ toServer' = toServer /\ toProbe' = toProbe
      /\ request' = request /\ requestParts' = requestParts /\ received' = received /\ ppc' = ppc
  BY Zenon DEF Answered, probeVars
<1>4. OnItsWay' = OnItsWay /\ Reply' = Reply /\ (QueryRead' <=> QueryRead)
  BY <1>3, Zenon DEF OnItsWay, Reply, QueryRead
<1>5. BytesInv' /\ SendInv'
  BY <1>1, <1>3, Zenon DEF BytesInv, SendInv
<1>6. Waiting /\ row.scenario \in Replying
  <2>1. /\ "forward" # "closed" /\ "forward" # "read" /\ "stall" # "forward"
        /\ "forward" \notin {"write", "pause"} /\ "forward" \notin {"read", "closed"}
    BY Zenon
  <2> QED
    BY <1>1, <1>2, <2>1, Zenon DEF HandlerInv, Reading, GivenUp, Waiting, Writing, Finished
<1>7. /\ Reply \in Seq(Nat) /\ Reply # <<>> /\ CutFrom(parts', Reply, 0)
  BY <1>1, <1>2, <1>6, ReplyFacts, Zenon
<1>8. 0 \in Nat /\ 0 # Len(Reply)
  BY <1>7, EmptySeq
<1>9. parts' # <<>>
  BY <1>7, <1>8, CutAll, Zenon
<1>10. SubSeq(Reply, 1, 0) = <<>>
  BY <1>7, NoneOrAll, Zenon
<1>11. OnItsWay' = SubSeq(Reply', 1, 0) /\ CutFrom(parts', Reply', 0)
  BY <1>4, <1>6, <1>7, <1>10, Zenon DEF Waiting
<1>12. Writing'
  BY <1>2, <1>3, <1>4, <1>6, <1>8, <1>9, <1>11, Zenon DEF Writing, Waiting
<1> QED
  BY <1>5, <1>12, Zenon DEF IInv, HandlerInv

(* _write_parts: a part extends what is on its way by the next octets. *)
LEMMA WriteKeeps ==
  ASSUME IInv, ServerWrite
  PROVE  /\ IInv' /\ QueryRead /\ toProbe' # <<>>
         /\ parts \in Seq(Seq(Nat)) /\ parts # <<>> /\ Len(parts') = Len(parts) - 1
<1>1. BytesInv /\ SendInv /\ HandlerInv
  BY Zenon DEF IInv
<1>2. toProbe \in Seq(Nat) /\ received \in Seq(Nat)
  BY <1>1, Zenon DEF BytesInv
<1>3. ASSUME NEW h, h \in Seq(Nat)
       PROVE  (received \o toProbe) \o h = received \o (toProbe \o h)
  BY <1>2, <1>3, ConcatAssociative, SMTT(60)
<1>4. spc = "write" /\ toProbe' = toProbe \o Head(parts) /\ parts' = Tail(parts)
  BY Zenon DEF ServerWrite
<1>5. /\ row' = row /\ size' = size /\ toServer' = toServer
      /\ requestParts' = requestParts /\ received' = received /\ ppc' = ppc
  BY Zenon DEF ServerWrite, probeVars
<1>6. Reply' = Reply /\ (QueryRead' <=> QueryRead)
  BY <1>5, Zenon DEF Reply, QueryRead
<1>7. SendInv'
  BY <1>1, <1>5, Zenon DEF SendInv
<1>8. Writing
  <2>1. /\ "write" # "closed" /\ "write" # "read" /\ "write" # "stall" /\ "write" # "forward"
        /\ "write" \notin {"read", "closed"}
    BY Zenon
  <2> QED
    BY <1>1, <1>4, <2>1, Zenon DEF HandlerInv, Reading, GivenUp, Waiting, Finished
<1>9. PICK c \in Nat : CutFrom(parts, Reply, c) /\ OnItsWay = SubSeq(Reply, 1, c)
  BY <1>8, Zenon DEF Writing
<1>10. Reply \in Seq(Nat) /\ parts # <<>>
  BY <1>1, <1>8, ReplyFacts, Zenon DEF Writing
<1>11. PICK d \in c + 1 .. Len(Reply) :
        /\ Head(parts) = SubSeq(Reply, c + 1, d) /\ Head(parts) \in Seq(Nat)
        /\ Len(Head(parts)) = d - c
        /\ CutFrom(Tail(parts), Reply, d) /\ Len(Tail(parts)) = Len(parts) - 1
  BY <1>9, <1>10, CutNext
<1>12. d \in Nat
  BY <1>11
<1>13. OnItsWay' = SubSeq(Reply, 1, d)
  <2>1. SubSeq(Reply, 1, c) \o SubSeq(Reply, c + 1, d) = SubSeq(Reply, 1, d)
    BY <1>10, <1>11, Reached
  <2>2. (received \o toProbe) \o Head(parts) = received \o (toProbe \o Head(parts))
    BY <1>11, <1>3, Zenon
  <2> QED
    BY <1>4, <1>5, <1>9, <1>11, <2>1, <2>2, Zenon DEF OnItsWay
<1>14. toProbe' \in Seq(Nat)
  <2>1. Head(parts) \in Seq(Nat)
    BY <1>11, Zenon
  <2>2. toProbe \o Head(parts) \in Seq(Nat)
    BY <1>2, <2>1, ConcatElements
  <2> QED
    BY <1>4, <2>2, Zenon
<1>15. Tail(parts) = <<>> <=> d = Len(Reply)
  BY <1>10, <1>11, <1>12, CutAll, Zenon
<1>16. /\ Tail(parts) = <<>> <=> Len(parts) = 1
       /\ Len(parts) > 1 => Len(parts) # 1
  <2>1. parts \in Seq(Seq(Nat)) /\ parts # <<>>
    BY <1>9, <1>10, Zenon DEF CutFrom
  <2> QED
    BY <2>1, LastOne
<1>17. request' \in Seq(Nat)
  <2>1. request' = request \/ request' = <<>>
    BY Zenon DEF ServerWrite
  <2>2. request \in Seq(Nat) /\ <<>> \in Seq(Nat)
    BY <1>1 DEF BytesInv
  <2> QED
    BY <2>1, <2>2, Zenon
<1>18. BytesInv'
  BY <1>1, <1>5, <1>14, <1>17, Zenon DEF BytesInv
<1>21. QueryRead /\ parts \in Seq(Seq(Nat)) /\ parts # <<>> /\ Len(parts') = Len(parts) - 1
  BY <1>4, <1>8, <1>9, <1>11, Zenon DEF Writing, CutFrom
<1>22. toProbe' # <<>>
  <2>1. Head(parts) \in Seq(Nat) /\ Len(Head(parts)) > 0
    BY <1>11
  <2>2. Len(toProbe \o Head(parts)) = Len(toProbe) + Len(Head(parts))
    BY <1>2, <2>1, ConcatElements
  <2>3. Len(toProbe \o Head(parts)) # 0
    BY <1>2, <2>1, <2>2
  <2> QED
    BY <1>4, <2>3
<1>19. CASE Len(parts) > 1
  <2>1. spc' \in {"write", "pause"}
    <3>1. spc' = IF row.chunk > 0 THEN "pause" ELSE "write"
      BY <1>16, <1>19, Zenon DEF ServerWrite
    <3> QED
      BY <3>1, Zenon
  <2>2. parts' # <<>>
    BY <1>4, <1>16, <1>19, Zenon
  <2>3. CutFrom(parts', Reply', d) /\ OnItsWay' = SubSeq(Reply', 1, d)
    BY <1>4, <1>6, <1>11, <1>13, Zenon
  <2>4. Writing'
    BY <1>5, <1>6, <1>8, <1>12, <2>1, <2>2, <2>3, Zenon DEF Writing
  <2> QED
    BY <1>7, <1>18, <1>21, <1>22, <2>4, Zenon DEF IInv, HandlerInv
<1>20. CASE ~(Len(parts) > 1)
  <2>1. Len(parts) = 1 /\ spc' \in {"read", "closed"}
    BY <1>20, Zenon DEF ServerWrite
  <2>2. OnItsWay' = Reply'
    <3>1. SubSeq(Reply, 1, Len(Reply)) = Reply
      BY <1>10, NoneOrAll, Zenon
    <3> QED
      BY <1>6, <1>13, <1>15, <1>16, <2>1, <3>1, Zenon
  <2>3. Finished'
    BY <1>6, <1>8, <2>1, <2>2, Zenon DEF Finished, Writing
  <2> QED
    BY <1>7, <1>18, <1>21, <1>22, <2>3, Zenon DEF IInv, HandlerInv
<1> QED
  BY <1>19, <1>20, Zenon

(* The probe sends a piece: what the handler has read and is still to read *)
(* grows by the next octets of the query.                                  *)
LEMMA SendKeeps ==
  ASSUME IInv, ProbeSend
  PROVE  IInv' /\ toServer' # <<>> /\ (requestParts' = <<>> <=> Len(requestParts) = 1)
<1>1. BytesInv /\ SendInv /\ HandlerInv
  BY Zenon DEF IInv
<1>2. /\ toServer \in Seq(Nat) /\ request \in Seq(Nat)
  BY <1>1, Zenon DEF BytesInv
<1>3. ASSUME NEW h, h \in Seq(Nat)
      PROVE  (request \o toServer) \o h = request \o (toServer \o h)
  BY <1>2, <1>3, ConcatAssociative, SMTT(60)
<1>4. ASSUME NEW h, h \in Seq(Nat)
      PROVE  /\ (request \o toServer) \o h = request \o (toServer \o h)
             /\ toServer \o h \in Seq(Nat)
             /\ h # <<>> => toServer \o h # <<>>
  <2>1. (request \o toServer) \o h = request \o (toServer \o h)
    BY <1>3, <1>4, Zenon
  <2>2. toServer \o h \in Seq(Nat) /\ Len(toServer \o h) = Len(toServer) + Len(h)
    BY <1>2, <1>4, ConcatElements
  <2>3. h # <<>> => toServer \o h # <<>>
    BY <1>2, <1>4, <2>2
  <2> QED
    BY <2>1, <2>2, <2>3, Zenon
<1>5. ppc = "send" /\ toServer' = toServer \o Head(requestParts) /\ requestParts' = Tail(requestParts)
  BY Zenon DEF ProbeSend
<1>6. /\ row' = row /\ size' = size /\ toProbe' = toProbe /\ spc' = spc /\ request' = request
      /\ parts' = parts /\ received' = received
  BY Zenon DEF ProbeSend, serverVars
<1>7. requestParts # <<>>
  BY <1>1, <1>5, Zenon DEF SendInv
<1>8. RequestFrame \in Seq(Nat)
  BY QueryFacts
<1>9. ASSUME NEW c \in Nat, CutFrom(requestParts, RequestFrame, c)
      PROVE  \E d \in Nat :
               /\ CutFrom(Tail(requestParts), RequestFrame, d)
               /\ SubSeq(RequestFrame, 1, c) \o Head(requestParts) = SubSeq(RequestFrame, 1, d)
               /\ Head(requestParts) \in Seq(Nat) /\ Head(requestParts) # <<>>
  <2>1. PICK d \in c + 1 .. Len(RequestFrame) :
          /\ Head(requestParts) = SubSeq(RequestFrame, c + 1, d) /\ Head(requestParts) \in Seq(Nat)
          /\ Len(Head(requestParts)) = d - c /\ CutFrom(Tail(requestParts), RequestFrame, d)
    BY <1>7, <1>8, <1>9, CutNext
  <2>2. d \in Nat /\ d - c # 0
    BY <1>8, <2>1
  <2>3. SubSeq(RequestFrame, 1, c) \o SubSeq(RequestFrame, c + 1, d) = SubSeq(RequestFrame, 1, d)
    BY <1>8, <2>1, Reached
  <2>4. Len(<<>>) = 0
    OBVIOUS
  <2> QED
    BY <2>1, <2>2, <2>3, <2>4, Zenon
<1>10. PICK e \in Nat : CutFrom(requestParts, RequestFrame, e)
  BY <1>1, Zenon DEF SendInv
<1>11. Head(requestParts) \in Seq(Nat) /\ Head(requestParts) # <<>>
  BY <1>9, <1>10, Zenon
<1>12. toServer' \in Seq(Nat) /\ toServer' # <<>>
  BY <1>4, <1>5, <1>11, Zenon
<1>13. BytesInv'
  BY <1>1, <1>6, <1>12, Zenon DEF BytesInv
<1>14. SendInv'
  <2>1. \E d \in Nat : CutFrom(requestParts', RequestFrame, d)
    BY <1>5, <1>9, <1>10, Zenon
  <2>2. ppc' \in {"send", "sendPause"} => requestParts' # <<>>
    <3>1. requestParts \in Seq(Seq(Nat)) /\ requestParts # <<>>
      BY <1>7, <1>10, Zenon DEF CutFrom
    <3>2. /\ Tail(requestParts) = <<>> <=> Len(requestParts) = 1
          /\ Len(requestParts) > 1 => Len(requestParts) # 1
      BY <3>1, LastOne
    <3>3. Len(requestParts) > 1 \/ ppc' = "recv"
      BY Zenon DEF ProbeSend
    <3>4. "recv" \notin {"send", "sendPause"}
      BY Zenon
    <3> QED
      BY <1>5, <3>2, <3>3, <3>4, Zenon
  <2> QED
    BY <2>1, <2>2, Zenon DEF SendInv
<1>15. OnItsWay' = OnItsWay
  BY <1>6, Zenon DEF OnItsWay
<1>19. requestParts' = <<>> <=> Len(requestParts) = 1
  <2>1. requestParts \in Seq(Seq(Nat)) /\ requestParts # <<>>
    BY <1>7, <1>10, Zenon DEF CutFrom
  <2> QED
    BY <1>5, <2>1, LastOne, Zenon
<1>16. CASE Reading
  <2>1. PICK c \in Nat : /\ CutFrom(requestParts, RequestFrame, c)
                         /\ request \o toServer = SubSeq(RequestFrame, 1, c)
    BY <1>16, Zenon DEF Reading
  <2>2. PICK d \in Nat :
          /\ CutFrom(Tail(requestParts), RequestFrame, d)
          /\ SubSeq(RequestFrame, 1, c) \o Head(requestParts) = SubSeq(RequestFrame, 1, d)
    BY <1>9, <2>1, Zenon
  <2>3. (request \o toServer) \o Head(requestParts) = request \o (toServer \o Head(requestParts))
    BY <1>4, <1>11, Zenon
  <2>4. request' \o toServer' = SubSeq(RequestFrame, 1, d)
    BY <1>5, <1>6, <2>1, <2>2, <2>3, Zenon
  <2>5. Reading'
    BY <1>5, <1>6, <1>15, <1>16, <2>2, <2>4, Zenon DEF Reading
  <2> QED
    BY <1>12, <1>13, <1>14, <1>19, <2>5, Zenon DEF IInv, HandlerInv
<1>17. CASE GivenUp
  <2>1. GivenUp'
    BY <1>6, <1>12, <1>15, <1>17, Zenon DEF GivenUp, QueryRead
  <2> QED
    BY <1>12, <1>13, <1>14, <1>19, <2>1, Zenon DEF IInv, HandlerInv
<1>18. Reading \/ GivenUp
  BY <1>1, <1>7, Zenon DEF HandlerInv, Waiting, Writing, Finished, QueryRead
<1> QED
  BY <1>16, <1>17, <1>18, Zenon

(* The probe reads: what is on its way is neither more nor less. *)
LEMMA RecvKeeps ==
  ASSUME IInv, ProbeRecv
  PROVE  IInv'
<1>1. BytesInv /\ SendInv /\ HandlerInv
  BY Zenon DEF IInv
<1>2. toProbe \in Seq(Nat) /\ received \in Seq(Nat)
  BY <1>1, Zenon DEF BytesInv
<1> DEFINE n == IF Len(toProbe) > 4096 THEN 4096 ELSE Len(toProbe)
<1>3. n \in 0 .. Len(toProbe)
  BY <1>2
<1>4. received' = received \o First(toProbe, n) /\ toProbe' = From(toProbe, n + 1)
  BY SMT DEF ProbeRecv
<1>5. /\ row' = row /\ size' = size /\ toServer' = toServer /\ spc' = spc /\ request' = request
      /\ parts' = parts /\ requestParts' = requestParts /\ ppc' = ppc
  BY SMTT(60) DEF ProbeRecv, serverVars
<1> HIDE DEF n
<1>6. /\ First(toProbe, n) \in Seq(Nat) /\ From(toProbe, n + 1) \in Seq(Nat)
      /\ First(toProbe, n) \o From(toProbe, n + 1) = toProbe
  BY <1>2, <1>3, FrontAndRest DEF First, From
<1>7. received \o First(toProbe, n) \in Seq(Nat)
  BY <1>2, <1>6, ConcatElements
<1>8. (received \o First(toProbe, n)) \o From(toProbe, n + 1)
        = received \o (First(toProbe, n) \o From(toProbe, n + 1))
  <2>1. received \in Seq(Nat) /\ First(toProbe, n) \in Seq(Nat) /\ From(toProbe, n + 1) \in Seq(Nat)
    BY <1>2, <1>6, Zenon
  <2> QED
    BY <2>1, ConcatAssociative, SMTT(60)
<1>9. OnItsWay' = OnItsWay
  BY <1>4, <1>6, <1>8, Zenon DEF OnItsWay
<1>10. Reply' = Reply /\ (QueryRead' <=> QueryRead)
  BY <1>5, Zenon DEF Reply, QueryRead
<1>11. /\ Reading => Reading'
       /\ GivenUp => GivenUp'
       /\ Waiting => Waiting'
       /\ Writing => Writing'
       /\ Finished => Finished'
  BY <1>5, <1>9, <1>10, Zenon DEF Reading, GivenUp, Waiting, Writing, Finished
<1>12. BytesInv'
  BY <1>1, <1>4, <1>5, <1>6, <1>7, Zenon DEF BytesInv
<1>13. SendInv'
  BY <1>1, <1>5, Zenon DEF SendInv
<1> QED
  BY <1>1, <1>11, <1>12, <1>13, Zenon DEF IInv, HandlerInv

(* One case for each action; most of them leave the phase alone. *)
LEMMA NextKeeps == IInv /\ [Next]_vars => IInv'
<1> SUFFICES ASSUME IInv, [Next]_vars PROVE IInv'
  OBVIOUS
<1>1. CASE ServerRead
  BY <1>1, ReadKeeps
<1>2. CASE ServerReadTimesOut
  BY <1>2, ReadTimeoutKeeps
<1>3. CASE StallEnds
  BY <1>3, StallKeeps
<1>4. CASE Answered
  BY <1>4, AnsweredKeeps
<1>5. CASE ServerWrite
  BY <1>5, WriteKeeps
<1>6. CASE PauseEnds
  <2>1. /\ spc = "pause" /\ spc' = "write" /\ row' = row /\ size' = size /\ toServer' = toServer
        /\ toProbe' = toProbe /\ request' = request /\ parts' = parts
        /\ ppc' = ppc /\ requestParts' = requestParts /\ received' = received
    BY <1>6, Zenon DEF PauseEnds, probeVars
  <2>2. BytesInv' /\ SendInv'
    BY <2>1, Zenon DEF IInv, BytesInv, SendInv
  <2>3. Writing
    <3>1. /\ "pause" # "read" /\ "pause" # "closed" /\ "pause" # "stall" /\ "pause" # "forward"
          /\ "pause" \notin {"read", "closed"}
      BY Zenon
    <3> QED
      BY <2>1, <3>1, Zenon DEF IInv, HandlerInv, Reading, GivenUp, Waiting, Finished
  <2>4. OnItsWay' = OnItsWay /\ Reply' = Reply /\ (QueryRead' <=> QueryRead)
    BY <2>1, Zenon DEF OnItsWay, Reply, QueryRead
  <2>5. Writing'
    BY <2>1, <2>3, <2>4, Zenon DEF Writing
  <2> QED
    BY <2>2, <2>5, Zenon DEF IInv, HandlerInv
<1>7. CASE ProbeSend
  BY <1>7, SendKeeps
<1>8. CASE SendPauseEnds
  <2>1. UNCHANGED phaseVars /\ ppc = "sendPause"
    BY <1>8, Zenon DEF SendPauseEnds, serverVars, phaseVars
  <2> QED
    BY <2>1, Idle, Zenon
<1>9. CASE ProbeRecv
  BY <1>9, RecvKeeps
<1>10. CASE ProbeEof \/ ProbeTimesOut
  <2>1. UNCHANGED phaseVars /\ ppc' = "done"
    BY <1>10, Zenon DEF ProbeEof, ProbeTimesOut, Judge, serverVars, phaseVars
  <2>2. "done" \notin {"send", "sendPause"}
    BY Zenon
  <2> QED
    BY <2>1, <2>2, Idle, Zenon
<1>11. CASE Elapse
  <2>1. UNCHANGED phaseVars /\ ppc' = ppc
    BY <1>11, Zenon DEF Elapse, serverVars, probeVars, phaseVars
  <2> QED
    BY <2>1, Idle, Zenon
<1>12. CASE UNCHANGED vars
  <2>1. UNCHANGED phaseVars /\ ppc' = ppc
    BY <1>12, Zenon DEF vars, serverVars, probeVars, phaseVars
  <2> QED
    BY <2>1, Idle, Zenon
<1> QED
  BY <1>1, <1>2, <1>3, <1>4, <1>5, <1>6, <1>7, <1>8, <1>9, <1>10, <1>11, <1>12, Zenon
     DEF Next, ServerStep, ProbeStep

(* The property, phase by phase. *)
LEMMA Intact == IInv => ReplyIntact
<1> SUFFICES ASSUME IInv PROVE ReplyIntact
  OBVIOUS
<1> DEFINE Whole == IsPrefix(OnItsWay, Reply)
           Done == spc \in {"read", "closed"} /\ toServer = <<>> /\ requestParts = <<>> => OnItsWay = Reply
<1>1. BytesInv /\ SendInv /\ HandlerInv
  BY Zenon DEF IInv
<1>2. Reply \in Seq(Nat)
  <2>1. row.scenario \in Scenario
    BY <1>1, RowFacts, Zenon DEF BytesInv
  <2>2. CASE row.scenario \in Replying
    BY <1>1, <2>2, ReplyFacts, Zenon
  <2>3. CASE row.scenario \notin Replying
    <3>1. row.scenario = "close-before-response" \/ row.scenario = "stall"
      BY <2>1, <2>3, Zenon DEF Replying
    <3>2. Reply = <<>>
      BY <3>1, Wire, Zenon DEF Reply
    <3>3. <<>> \in Seq(Nat)
      OBVIOUS
    <3> QED
      BY <3>2, <3>3, Zenon
  <2> QED
    BY <2>2, <2>3, Zenon
<1>3. ASSUME NEW c \in Nat, c <= Len(Reply), OnItsWay = SubSeq(Reply, 1, c) PROVE Whole
  <2>1. c \in 0 .. Len(Reply)
    BY <1>2, <1>3
  <2>2. SubSeq(Reply, 1, c) \in Seq(Nat) /\ Len(SubSeq(Reply, 1, c)) = c
    BY <1>2, <2>1, Cut
  <2>3. SubSeq(SubSeq(Reply, 1, c), 1, c) = SubSeq(Reply, 1, c)
    BY <2>2, NoneOrAll, Zenon
  <2>4. Len(OnItsWay) = c /\ SubSeq(OnItsWay, 1, c) = SubSeq(Reply, 1, c)
    BY <1>3, <2>2, <2>3, Zenon
  <2> QED
    BY <1>3, <2>4, Zenon DEF IsPrefix
<1>4. OnItsWay = <<>> => Whole
  <2>1. 0 \in Nat /\ 0 <= Len(Reply)
    BY <1>2
  <2>2. SubSeq(Reply, 1, 0) = <<>>
    BY <1>2, NoneOrAll, Zenon
  <2> QED
    BY <1>3, <2>1, <2>2, Zenon
<1>5. ASSUME Reading PROVE Whole /\ Done
  <2>1. ~QueryRead
    BY <1>1, <1>5, StillToRead
  <2> QED
    BY <1>4, <1>5, <2>1, Zenon DEF Reading, QueryRead
<1>6. ASSUME GivenUp PROVE Whole /\ Done
  BY <1>4, <1>6, Zenon DEF GivenUp, QueryRead
<1>7. ASSUME Waiting PROVE Whole /\ Done
  <2>1. "stall" \notin {"read", "closed"} /\ "forward" \notin {"read", "closed"}
    BY Zenon
  <2> QED
    BY <1>4, <1>7, <2>1, Zenon DEF Waiting
<1>8. ASSUME Writing PROVE Whole /\ Done
  <2>1. PICK c \in Nat : CutFrom(parts, Reply, c) /\ OnItsWay = SubSeq(Reply, 1, c)
    BY <1>8, Zenon DEF Writing
  <2>2. c <= Len(Reply)
    BY <1>2, <2>1, CutAll, Zenon
  <2>3. spc \notin {"read", "closed"}
    <3>1. "write" \notin {"read", "closed"} /\ "pause" \notin {"read", "closed"}
      BY Zenon
    <3> QED
      BY <1>8, <3>1, Zenon DEF Writing
  <2> QED
    BY <1>3, <2>1, <2>2, <2>3, Zenon
<1>9. ASSUME Finished PROVE Whole /\ Done
  <2>1. Len(Reply) \in Nat /\ Len(Reply) <= Len(Reply)
    BY <1>2
  <2>2. SubSeq(Reply, 1, Len(Reply)) = Reply
    BY <1>2, NoneOrAll, Zenon
  <2> QED
    BY <1>3, <1>9, <2>1, <2>2, Zenon DEF Finished
<1>10. Whole /\ Done
  BY <1>1, <1>5, <1>6, <1>7, <1>8, <1>9, Zenon DEF HandlerInv
<1> QED
  BY <1>10, Zenon DEF ReplyIntact, OnItsWay, Reply

(* The invariant, of every run of a row. *)
THEOREM Invariant == Spec => []IInv
BY Starts, NextKeeps, PTL DEF Spec

(* However the probe cuts its query, whatever BIND's answer is, however    *)
(* long it and every pause take and however the kernel joins the pieces,   *)
(* what the probe reads are the octets of its row's scenario, each once    *)
(* and in order, and all of them once the handler is done with the query.  *)
THEOREM OctetsArrive == Spec => []ReplyIntact
BY Invariant, Intact, PTL

(***************************************************************************)
(* The judgement.  What parse_frames makes of a sequence of octets, offset *)
(* by offset: it is defined by recursion, so first that what it defines is *)
(* a function that follows its definition, then what it is of the replies. *)
(***************************************************************************)
Seen == [frames : Seq(Nat), trailing : Seq(Nat), incomplete : BOOLEAN]
LengthAt(data, o) == 256 * data[o + 1] + data[o + 2]

ParseAt(data, p, o) ==
  IF o + 2 > Len(data)
  THEN [frames |-> <<>>, trailing |-> From(data, o + 1), incomplete |-> FALSE]
  ELSE LET n == Declared(SubSeq(data, o + 1, o + 2))
       IN IF n = 0 \/ o + 2 + n > Len(data)
          THEN [frames |-> <<>>, trailing |-> From(data, o + 1), incomplete |-> TRUE]
          ELSE [p[o + 2 + n] EXCEPT !.frames = <<n>> \o @]

(* The length a prefix at offset o declares. *)
LEMMA LengthRead ==
  ASSUME NEW data, data \in Seq(Nat), NEW o \in Nat, o + 2 <= Len(data)
  PROVE  Declared(SubSeq(data, o + 1, o + 2)) = LengthAt(data, o) /\ LengthAt(data, o) \in Nat
<1>1. o + 1 \in Int /\ o + 2 \in Int /\ \A i \in o + 1 .. o + 2 : data[i] \in Nat
  OBVIOUS
<1>2. \A i \in 1 .. (o + 2) - (o + 1) + 1 : SubSeq(data, o + 1, o + 2)[i] = data[o + 1 + i - 1]
  BY <1>1, SubSeqProperties
<1>3. /\ 1 \in 1 .. (o + 2) - (o + 1) + 1 /\ 2 \in 1 .. (o + 2) - (o + 1) + 1
      /\ o + 1 + 1 - 1 = o + 1 /\ o + 1 + 2 - 1 = o + 2
  OBVIOUS
<1>4. SubSeq(data, o + 1, o + 2)[1] = data[o + 1] /\ SubSeq(data, o + 1, o + 2)[2] = data[o + 2]
  BY <1>2, <1>3
<1>5. data[o + 1] \in Nat /\ data[o + 2] \in Nat
  BY <1>1
<1> QED
  BY <1>4, <1>5 DEF Declared, LengthAt

(* What is left from an offset on. *)
LEMMA RestType ==
  ASSUME NEW data, data \in Seq(Nat), NEW o \in 0 .. Len(data)
  PROVE  From(data, o + 1) \in Seq(Nat) /\ Len(From(data, o + 1)) = Len(data) - o
BY Cut DEF From

(* It only looks ahead. *)
LEMMA ParseAhead ==
  ASSUME NEW data, data \in Seq(Nat), NEW o \in 0 .. Len(data), NEW f, NEW g,
         \A x \in o + 1 .. Len(data) : f[x] = g[x]
  PROVE  ParseAt(data, f, o) = ParseAt(data, g, o)
<1> DEFINE n == Declared(SubSeq(data, o + 1, o + 2))
<1>1. CASE o + 2 > Len(data)
  BY <1>1 DEF ParseAt
<1>2. CASE ~(o + 2 > Len(data))
  <2>1. n \in Nat
    <3>1. o \in Nat /\ o + 2 <= Len(data)
      BY <1>2
    <3>2. Declared(SubSeq(data, o + 1, o + 2)) = LengthAt(data, o) /\ LengthAt(data, o) \in Nat
      BY <3>1, LengthRead, Zenon
    <3> QED
      BY <3>2
  <2> HIDE DEF n
  <2>2. CASE n = 0 \/ o + 2 + n > Len(data)
    BY <1>2, <2>2 DEF ParseAt, n
  <2>3. CASE ~(n = 0 \/ o + 2 + n > Len(data))
    <3>1. o + 2 + n \in o + 1 .. Len(data)
      BY <2>1, <2>3
    <3>2. f[o + 2 + n] = g[o + 2 + n]
      BY <3>1
    <3>3. /\ ParseAt(data, f, o) = [f[o + 2 + n] EXCEPT !.frames = <<n>> \o @]
          /\ ParseAt(data, g, o) = [g[o + 2 + n] EXCEPT !.frames = <<n>> \o @]
      BY <1>2, <2>3 DEF ParseAt, n
    <3> QED
      BY <3>2, <3>3
  <2> QED
    BY <2>2, <2>3
<1> QED
  BY <1>1, <1>2

(* What it makes of an offset is of the type of what it makes of the later ones. *)
LEMMA ParseType ==
  ASSUME NEW data, data \in Seq(Nat), NEW o \in 0 .. Len(data), NEW f \in [0 .. Len(data) -> Seen]
  PROVE  ParseAt(data, f, o) \in Seen
<1> DEFINE n == Declared(SubSeq(data, o + 1, o + 2))
<1>1. CASE o + 2 > Len(data)
  BY <1>1, RestType DEF ParseAt, Seen
<1>2. CASE ~(o + 2 > Len(data))
  <2>1. n \in Nat
    <3>1. o \in Nat /\ o + 2 <= Len(data)
      BY <1>2
    <3>2. Declared(SubSeq(data, o + 1, o + 2)) = LengthAt(data, o) /\ LengthAt(data, o) \in Nat
      BY <3>1, LengthRead, Zenon
    <3> QED
      BY <3>2
  <2> HIDE DEF n
  <2>2. CASE n = 0 \/ o + 2 + n > Len(data)
    BY <1>2, <2>2, RestType DEF ParseAt, n, Seen
  <2>3. CASE ~(n = 0 \/ o + 2 + n > Len(data))
    <3> DEFINE q == f[o + 2 + n]
    <3>1. o + 2 + n \in 0 .. Len(data)
      BY <2>1, <2>3
    <3>2. q \in Seen
      BY <3>1
    <3>3. ParseAt(data, f, o) = [q EXCEPT !.frames = <<n>> \o @]
      BY <1>2, <2>3 DEF ParseAt, n
    <3> HIDE DEF q
    <3>4. q.frames \in Seq(Nat) /\ <<n>> \in Seq(Nat)
      BY <2>1, <3>2 DEF Seen
    <3>5. <<n>> \o q.frames \in Seq(Nat)
      BY <3>4, ConcatProperties
    <3> QED
      BY <3>2, <3>3, <3>5 DEF Seen
  <2> QED
    BY <2>2, <2>3
<1> QED
  BY <1>1, <1>2

(* parse_frames is ParseAt at every offset, from the first.                *)
Parses(data, p) == \A o \in 0 .. Len(data) : p[o] = ParseAt(data, p, o)

(* There is such a function: it is filled from the last offset down. *)
LEMMA ParseExists ==
  ASSUME NEW data, data \in Seq(Nat)
  PROVE  \E p \in [0 .. Len(data) -> Seen] : Parses(data, p)
<1> DEFINE L == Len(data)
           S == [0 .. L -> Seen]
           e == [o \in 0 .. L |-> [frames |-> <<>>, trailing |-> <<>>, incomplete |-> FALSE]]
           Fill(f, i) == [f EXCEPT ![i] = ParseAt(data, f, i)]
           h == [k \in 1 .. L + 1 |-> [f \in S |-> Fill(f, L + 1 - k)]]
<1>1. L \in Nat /\ L + 1 \in Nat /\ \A k \in 1 .. L + 1 : L + 1 - k \in 0 .. L
  OBVIOUS
<1>2. e \in S
  BY DEF Seen
<1>3. \A k \in 1 .. L + 1 : \A f \in S : h[k][f] = Fill(f, L + 1 - k)
  OBVIOUS
<1>4. ASSUME NEW f \in S, NEW i \in 0 .. L
      PROVE  Fill(f, i) \in S /\ Fill(f, i)[i] = ParseAt(data, f, i) /\ \A o \in 0 .. L : o # i => Fill(f, i)[o] = f[o]
  <2>1. ParseAt(data, f, i) \in Seen
    BY ParseType
  <2> QED
    BY <2>1
<1> HIDE DEF h, Fill
<1>5. StepsWithin(h, L + 1, S)
  BY <1>1, <1>3, <1>4 DEF StepsWithin
<1>6. PICK g : FollowsSteps(g, e, h, L + 1, S)
  <2> HIDE DEF e, S, L
  <2> QED
    BY <1>1, <1>2, <1>5, Recursion
<1>7. /\ g \in [0 .. L + 1 -> S]
      /\ \A k \in 1 .. L + 1 : g[k] = h[k][g[k - 1]]
  BY <1>6 DEF FollowsSteps
<1> HIDE DEF S, L
<1> DEFINE T == {k \in 0 .. L + 1 : \A o \in 0 .. L : o > L - k => g[k][o] = ParseAt(data, g[k], o)}
<1>8. 0 \in T
  BY <1>1
<1>9. ASSUME NEW k \in 1 .. L + 1, k - 1 \in T PROVE k \in T
  <2> DEFINE i == L + 1 - k  f == g[k - 1]
  <2>1. k \in 0 .. L + 1 /\ k - 1 \in 0 .. L + 1 /\ i \in 0 .. L
    BY <1>1
  <2>2. f \in S /\ g[k] = Fill(f, i)
    BY <1>3, <1>7, <2>1
  <2>3. g[k] \in S /\ g[k][i] = ParseAt(data, f, i) /\ \A o \in 0 .. L : o # i => g[k][o] = f[o]
    BY <1>4, <2>1, <2>2
  <2>4. \A o \in 0 .. L : o > L - (k - 1) => f[o] = ParseAt(data, f, o)
    BY <1>9
  <2> SUFFICES ASSUME NEW o \in 0 .. L, o > L - k PROVE g[k][o] = ParseAt(data, g[k], o)
    BY <2>1
  <2>5. \A x \in o + 1 .. Len(data) : f[x] = g[k][x]
    <3> SUFFICES ASSUME NEW x \in o + 1 .. Len(data) PROVE f[x] = g[k][x]
      OBVIOUS
    <3>1. x \in 0 .. L /\ x # i
      BY <1>1, <2>1 DEF L
    <3> QED
      BY <2>3, <3>1
  <2>6. o \in 0 .. Len(data)
    BY DEF L
  <2>7. ParseAt(data, f, o) = ParseAt(data, g[k], o)
    <3> HIDE DEF f
    <3> QED
      BY <2>5, <2>6, ParseAhead
  <2>8. CASE o = i
    BY <2>3, <2>7, <2>8
  <2>9. CASE o # i
    <3>1. o > L - (k - 1)
      BY <1>1, <2>9
    <3> QED
      BY <2>3, <2>4, <2>7, <2>9, <3>1
  <2> QED
    BY <2>8, <2>9
<1>10. L + 1 \in T
  <2>1. \A k \in 0 .. L + 1 : k \in T
    <3> HIDE DEF T
    <3> QED
      BY <1>1, <1>8, <1>9, InductionTo
  <2>2. L + 1 \in 0 .. L + 1
    BY <1>1
  <2> QED
    BY <2>1, <2>2
<1>11. \A o \in 0 .. L : g[L + 1][o] = ParseAt(data, g[L + 1], o)
  <2>1. \A o \in 0 .. L : o > L - (L + 1)
    BY <1>1
  <2> QED
    BY <1>10, <2>1
<1>12. g[L + 1] \in S
  BY <1>1, <1>7
<1> QED
  BY <1>11, <1>12 DEF Parses, S, L

(* parse_frames returns what it gives at the first offset. *)
LEMMA ParseFramesIs ==
  ASSUME NEW data, data \in Seq(Nat)
  PROVE  \E p : Parses(data, p) /\ ParseFrames(data) = p[0]
<1> DEFINE Is(p) == p = [o \in 0 .. Len(data) |-> ParseAt(data, p, o)]
           parse == CHOOSE p : Is(p)
<1>1. PICK q \in [0 .. Len(data) -> Seen] : Parses(data, q)
  BY ParseExists
<1>2. Is(q)
  <2> DEFINE g == [o \in 0 .. Len(data) |-> ParseAt(data, q, o)]
  <2>1. \A o \in 0 .. Len(data) : q[o] = g[o]
    BY <1>1 DEF Parses
  <2>2. q = g
    <3> HIDE DEF g
    <3>1. DOMAIN g = 0 .. Len(data) /\ g = [o \in 0 .. Len(data) |-> g[o]]
      BY DEF g
    <3> QED
      BY <2>1, <3>1
  <2> QED
    BY <2>2
<1>3. Is(parse)
  <2> HIDE DEF Is
  <2> QED
    BY <1>2
<1>4. ParseFrames(data) = parse[0]
  BY DEF ParseFrames, ParseAt
<1>5. Parses(data, parse)
  <2>1. \A o \in 0 .. Len(data) : parse[o] = ParseAt(data, parse, o)
    <3> HIDE DEF parse
    <3> QED
      BY <1>3, Zenon
  <2> HIDE DEF parse
  <2> QED
    BY <2>1 DEF Parses
<1> HIDE DEF parse
<1> QED
  BY <1>4, <1>5

Record(frames, trailing, incomplete) ==
  [frames |-> frames, trailing |-> trailing, incomplete |-> incomplete]

(* The record with other frames. *)
LEMMA FramesReplaced ==
  ASSUME NEW f, NEW t, NEW b, NEW g
  PROVE  [Record(f, t, b) EXCEPT !.frames = g] = Record(g, t, b)
BY DEF Record

(* Too few octets for a prefix.                                            *)
LEMMA ParseEnd ==
  ASSUME NEW data, NEW p, Parses(data, p), NEW o \in 0 .. Len(data), o + 2 > Len(data)
  PROVE  p[o] = Record(<<>>, From(data, o + 1), FALSE)
<1>1. p[o] = ParseAt(data, p, o)
  BY DEF Parses
<1> QED
  BY <1>1 DEF ParseAt, Record

(* A frame that is not all there. *)
LEMMA ParseShort ==
  ASSUME NEW data, data \in Seq(Nat), NEW p, Parses(data, p), NEW o \in 0 .. Len(data), ~(o + 2 > Len(data)),
         LengthAt(data, o) = 0 \/ o + 2 + LengthAt(data, o) > Len(data)
  PROVE  p[o] = Record(<<>>, From(data, o + 1), TRUE)
<1>1. p[o] = ParseAt(data, p, o)
  BY DEF Parses
<1>2. o \in Nat /\ o + 2 <= Len(data)
  OBVIOUS
<1>3. Declared(SubSeq(data, o + 1, o + 2)) = LengthAt(data, o)
  BY <1>2, LengthRead
<1> QED
  BY <1>1, <1>3 DEF ParseAt, Record

Continues(p, o, n, m) ==
  \A f, t, b : p[m] = Record(f, t, b) => p[o] = Record(<<n>> \o f, t, b)

(* A frame, and whatever is parsed behind it. *)
LEMMA ParseWhole ==
  ASSUME NEW data, data \in Seq(Nat), NEW p, Parses(data, p),
         NEW o \in 0 .. Len(data), NEW n \in Nat, LengthAt(data, o) = n, n # 0,
         NEW m \in 0 .. Len(data), m = o + 2 + n
  PROVE  Continues(p, o, n, m)
<1> SUFFICES ASSUME NEW f, NEW t, NEW b, p[m] = Record(f, t, b)
             PROVE  p[o] = Record(<<n>> \o f, t, b)
  BY DEF Continues
<1>1. p[o] = ParseAt(data, p, o)
  BY DEF Parses
<1>2. o \in Nat /\ o + 2 <= Len(data) /\ ~(o + 2 > Len(data)) /\ ~(o + 2 + n > Len(data)) /\ o + 2 + n = m
  OBVIOUS
<1>3. Declared(SubSeq(data, o + 1, o + 2)) = n
  BY <1>2, LengthRead
<1>4. p[o] = [p[m] EXCEPT !.frames = <<n>> \o @]
  BY <1>1, <1>2, <1>3 DEF ParseAt
<1> DEFINE g == <<n>> \o f
<1>5. p[m].frames = f
  BY DEF Record
<1>6. p[o] = [p[m] EXCEPT !.frames = g]
  BY <1>4, <1>5
<1> HIDE DEF g
<1>7. [Record(f, t, b) EXCEPT !.frames = g] = Record(g, t, b)
  BY FramesReplaced
<1> QED
  BY <1>6, <1>7, Zenon DEF g

(* What evaluate looks at.                                                 *)
Shows(data, frames, left) ==
  Len(ParseFrames(data).frames) = frames /\ Len(ParseFrames(data).trailing) = left

(* What evaluate looks at is part of what was parsed. *)
LEMMA ShowsOf ==
  ASSUME NEW data, data \in Seq(Nat), NEW f, NEW o \in 0 .. Len(data), NEW b,
         ParseFrames(data) = Record(f, From(data, o + 1), b)
  PROVE  Shows(data, Len(f), Len(data) - o) /\ (ParseFrames(data).incomplete <=> b)
<1>1. /\ ParseFrames(data).frames = f /\ ParseFrames(data).trailing = From(data, o + 1)
      /\ ParseFrames(data).incomplete = b
  BY DEF Record
<1>2. Len(From(data, o + 1)) = Len(data) - o
  BY RestType
<1> QED
  BY <1>1, <1>2, Zenon DEF Shows

(* The octets of a frame whose prefix declares n, and others behind it.    *)
Begun(data, o, n) ==
  /\ o + 2 <= Len(data) /\ data[o + 1] = n \div 256 /\ data[o + 2] = n % 256

(* The prefix of a length declares that length. *)
LEMMA LengthOf ==
  ASSUME NEW n \in Nat, NEW data, NEW o \in Nat, Begun(data, o, n)
  PROVE  LengthAt(data, o) = n
<1>1. 256 * (n \div 256) + (n % 256) = n
  BY SMTT(30)
<1> QED
  BY <1>1, Zenon DEF Begun, LengthAt

(* No octet at all. *)
LEMMA ShowsNone == Shows(<<>>, 0, 0)
<1> DEFINE data == <<>>
<1>1. data \in Seq(Nat) /\ Len(data) = 0 /\ 0 \in 0 .. Len(data) /\ 0 + 2 > Len(data) /\ Len(data) - 0 = 0
  OBVIOUS
<1>2. Len(<<>>) = 0
  OBVIOUS
<1> HIDE DEF data
<1>3. PICK p : Parses(data, p) /\ ParseFrames(data) = p[0]
  BY <1>1, ParseFramesIs
<1>4. ParseFrames(data) = Record(<<>>, From(data, 0 + 1), FALSE)
  BY <1>1, <1>3, ParseEnd
<1>5. Shows(data, Len(<<>>), Len(data) - 0)
  BY <1>1, <1>4, ShowsOf
<1> QED
  BY <1>1, <1>2, <1>5, Zenon DEF data

(* A frame that is not all there. *)
LEMMA ShowsShort ==
  ASSUME NEW data, data \in Seq(Nat), NEW n \in Nat, n # 0, Begun(data, 0, n), 2 + n > Len(data)
  PROVE  Shows(data, 0, Len(data)) /\ ParseFrames(data).incomplete
<1>1. /\ 0 \in 0 .. Len(data) /\ 0 \in Nat /\ ~(0 + 2 > Len(data)) /\ 0 + 2 + n > Len(data)
      /\ Len(data) - 0 = Len(data)
  BY DEF Begun
<1>2. Len(<<>>) = 0
  OBVIOUS
<1>3. PICK p : Parses(data, p) /\ ParseFrames(data) = p[0]
  BY ParseFramesIs
<1>4. LengthAt(data, 0) = n
  BY <1>1, LengthOf
<1>5. ParseFrames(data) = Record(<<>>, From(data, 0 + 1), TRUE)
  BY <1>1, <1>3, <1>4, ParseShort
<1>6. Shows(data, Len(<<>>), Len(data) - 0) /\ ParseFrames(data).incomplete
  BY <1>1, <1>5, ShowsOf
<1> QED
  BY <1>1, <1>2, <1>6, Zenon

(* A frame with nothing behind it. *)
LEMMA ShowsOne ==
  ASSUME NEW data, data \in Seq(Nat), NEW n \in Nat, n # 0, Begun(data, 0, n), Len(data) = 2 + n
  PROVE  Shows(data, 1, 0)
<1> DEFINE m == 2 + n
<1>1. /\ 0 \in 0 .. Len(data) /\ 0 \in Nat
      /\ m = 0 + 2 + n /\ m \in 0 .. Len(data) /\ m + 2 > Len(data) /\ Len(data) - m = 0
  BY DEF Begun
<1>2. Len(<<n>> \o <<>>) = 1
  OBVIOUS
<1> HIDE DEF m
<1>3. PICK p : Parses(data, p) /\ ParseFrames(data) = p[0]
  BY ParseFramesIs
<1>4. LengthAt(data, 0) = n
  BY <1>1, LengthOf
<1>5. p[m] = Record(<<>>, From(data, m + 1), FALSE)
  BY <1>1, <1>3, ParseEnd
<1>8. Continues(p, 0, n, m)
  BY <1>1, <1>3, <1>4, ParseWhole
<1>6. ParseFrames(data) = Record(<<n>> \o <<>>, From(data, m + 1), FALSE)
  BY <1>3, <1>5, <1>8, Zenon DEF Continues
<1>7. Shows(data, Len(<<n>> \o <<>>), Len(data) - m)
  BY <1>1, <1>6, ShowsOf, Zenon
<1> QED
  BY <1>1, <1>2, <1>7, Zenon

(* A frame with a shorter one behind it. *)
LEMMA ShowsMore ==
  ASSUME NEW data, data \in Seq(Nat), NEW n \in Nat, n # 0, Begun(data, 0, n),
         NEW k \in Nat, Begun(data, 2 + n, k), k # 0, 2 + n + 2 + k > Len(data)
  PROVE  Shows(data, 1, Len(data) - (2 + n))
<1> DEFINE m == 2 + n
<1>1. m + 2 <= Len(data) /\ Begun(data, m, k) /\ Len(data) \in Nat
  BY DEF Begun
<1>2. /\ 0 \in 0 .. Len(data) /\ 0 \in Nat /\ m = 0 + 2 + n /\ m \in 0 .. Len(data) /\ m \in Nat
      /\ ~(m + 2 > Len(data)) /\ m + 2 + k > Len(data)
  BY <1>1
<1>3. Len(<<n>> \o <<>>) = 1
  OBVIOUS
<1> HIDE DEF m
<1>4. PICK p : Parses(data, p) /\ ParseFrames(data) = p[0]
  BY ParseFramesIs
<1>5. LengthAt(data, 0) = n /\ LengthAt(data, m) = k
  BY <1>1, <1>2, LengthOf
<1>6. p[m] = Record(<<>>, From(data, m + 1), TRUE)
  BY <1>2, <1>4, <1>5, ParseShort
<1>9. Continues(p, 0, n, m)
  BY <1>2, <1>4, <1>5, ParseWhole
<1>7. ParseFrames(data) = Record(<<n>> \o <<>>, From(data, m + 1), TRUE)
  BY <1>4, <1>6, <1>9, Zenon DEF Continues
<1>8. Shows(data, Len(<<n>> \o <<>>), Len(data) - m)
  BY <1>2, <1>7, ShowsOf, Zenon
<1> QED
  BY <1>3, <1>8, Zenon DEF m

(* Two frames. *)
LEMMA ShowsTwo ==
  ASSUME NEW data, data \in Seq(Nat), NEW n \in Nat, n # 0, Begun(data, 0, n),
         Begun(data, 2 + n, n), Len(data) = 2 * (2 + n)
  PROVE  Shows(data, 2, 0)
<1> DEFINE m == 2 + n  w == m + 2 + n
<1>1. /\ 0 \in 0 .. Len(data) /\ 0 \in Nat /\ m = 0 + 2 + n /\ m \in 0 .. Len(data) /\ m \in Nat
      /\ w = m + 2 + n /\ w \in 0 .. Len(data) /\ w + 2 > Len(data) /\ Len(data) - w = 0
  OBVIOUS
<1>2. Len(<<n>> \o (<<n>> \o <<>>)) = 2
  OBVIOUS
<1>3. PICK p : Parses(data, p) /\ ParseFrames(data) = p[0]
  BY ParseFramesIs
<1>4. Begun(data, m, n)
  OBVIOUS
<1> HIDE DEF m, w
<1>5. LengthAt(data, 0) = n /\ LengthAt(data, m) = n
  BY <1>1, <1>4, LengthOf
<1>6. p[w] = Record(<<>>, From(data, w + 1), FALSE)
  BY <1>1, <1>3, ParseEnd
<1>10. Continues(p, m, n, w) /\ Continues(p, 0, n, m)
  BY <1>1, <1>3, <1>5, ParseWhole
<1>7. p[m] = Record(<<n>> \o <<>>, From(data, w + 1), FALSE)
  BY <1>6, <1>10, Zenon DEF Continues
<1>8. ParseFrames(data) = Record(<<n>> \o (<<n>> \o <<>>), From(data, w + 1), FALSE)
  BY <1>3, <1>7, <1>10, Zenon DEF Continues
<1>9. Shows(data, Len(<<n>> \o (<<n>> \o <<>>)), Len(data) - w)
  BY <1>1, <1>8, ShowsOf, Zenon
<1> QED
  BY <1>1, <1>2, <1>9, Zenon

(* Octets put before others are found where they were. *)
LEMMA NatConcat ==
  ASSUME NEW a, a \in Seq(Nat), NEW b, b \in Seq(Nat)
  PROVE  /\ a \o b \in Seq(Nat) /\ Len(a \o b) = Len(a) + Len(b)
         /\ Len(a) \in Nat /\ Len(b) \in Nat
         /\ \A i \in 1 .. Len(a) : (a \o b)[i] = a[i]
         /\ \A i \in 1 .. Len(b) : (a \o b)[Len(a) + i] = b[i]
BY ConcatElements

(* A frame of n octets begins with the prefix that declares n, whatever    *)
(* comes before it or behind it.                                           *)
LEMMA BegunBy ==
  ASSUME NEW n \in Nat, NEW x, x \in Seq(Nat)
  PROVE  /\ Begun(Prefix(n) \o x, 0, n)
         /\ Prefix(n) \o x \in Seq(Nat) /\ Len(Prefix(n) \o x) = 2 + Len(x)
<1> DEFINE a == Prefix(n)  s == a \o x
<1>1. a \in Seq(Nat) /\ Len(a) = 2 /\ a[1] = n \div 256 /\ a[2] = n % 256
  <2>1. n \div 256 \in Nat /\ n % 256 \in Nat
    OBVIOUS
  <2> QED
    BY <2>1 DEF Prefix
<1> HIDE DEF a
<1>2. /\ s \in Seq(Nat) /\ Len(s) = Len(a) + Len(x)
      /\ \A i \in 1 .. Len(a) : s[i] = a[i]
  <2>1. a \in Seq(Nat)
    BY <1>1
  <2> QED
    BY <2>1, NatConcat, Zenon
<1> HIDE DEF s
<1>3. Len(s) = 2 + Len(x) /\ Len(x) \in Nat /\ s[1] = n \div 256 /\ s[2] = n % 256
  BY <1>1, <1>2
<1>4. 0 + 2 <= Len(s) /\ 0 + 1 = 1 /\ 0 + 2 = 2
  BY <1>3
<1>5. Begun(s, 0, n)
  BY <1>3, <1>4, Zenon DEF Begun
<1> QED
  BY <1>2, <1>3, <1>5, Zenon DEF s, a

(* The same of a frame, and of another behind it. *)
LEMMA BegunBehind ==
  ASSUME NEW a, a \in Seq(Nat), NEW b, b \in Seq(Nat), NEW n, NEW k,
         Begun(a, 0, n), Begun(b, 0, k)
  PROVE  /\ a \o b \in Seq(Nat) /\ Len(a \o b) = Len(a) + Len(b)
         /\ Begun(a \o b, 0, n) /\ Begun(a \o b, Len(a), k)
<1> DEFINE s == a \o b
<1>1. /\ s \in Seq(Nat) /\ Len(s) = Len(a) + Len(b) /\ Len(a) \in Nat /\ Len(b) \in Nat
      /\ \A i \in 1 .. Len(a) : s[i] = a[i]
      /\ \A i \in 1 .. Len(b) : s[Len(a) + i] = b[i]
  BY NatConcat
<1>2. /\ Len(a) >= 2 /\ a[1] = n \div 256 /\ a[2] = n % 256
      /\ Len(b) >= 2 /\ b[1] = k \div 256 /\ b[2] = k % 256
  BY <1>1 DEF Begun
<1> HIDE DEF s
<1>3. s[1] = a[1] /\ s[2] = a[2] /\ s[Len(a) + 1] = b[1] /\ s[Len(a) + 2] = b[2]
  <2>1. Len(a) \in Nat /\ Len(a) >= 2 /\ Len(b) \in Nat /\ Len(b) >= 2
    BY <1>1, <1>2, Zenon
  <2>2. /\ 1 \in 1 .. Len(a) /\ 2 \in 1 .. Len(a) /\ 1 \in 1 .. Len(b) /\ 2 \in 1 .. Len(b)
    BY <2>1
  <2> QED
    BY <1>1, <2>2, Zenon
<1>4. 0 + 2 <= Len(s) /\ 0 + 1 = 1 /\ 0 + 2 = 2 /\ Len(a) + 2 <= Len(s)
  BY <1>1, <1>2
<1>5. Begun(s, 0, n) /\ Begun(s, Len(a), k)
  <2>1. Begun(s, 0, n)
    BY <1>2, <1>3, <1>4, Zenon DEF Begun
  <2>2. Begun(s, Len(a), k)
    BY <1>2, <1>3, <1>4, Zenon DEF Begun
  <2> QED
    BY <2>1, <2>2
<1> QED
  BY <1>1, <1>5, Zenon DEF s

(* What evaluate finds on the wire of each scenario: one frame or two,     *)
(* nothing left or what was left out.                                      *)
CutOff(data) == /\ Len(ParseFrames(data).frames) = 0 /\ Len(ParseFrames(data).trailing) > 2
                /\ ParseFrames(data).incomplete

(* A frame that promises more than follows. *)
LEMMA CutOffBy ==
  ASSUME NEW n \in Nat, n # 0, NEW x, x \in Seq(Nat), Len(x) < n, Len(x) > 0
  PROVE  CutOff(Prefix(n) \o x)
<1> DEFINE s == Prefix(n) \o x
<1>1. Begun(s, 0, n) /\ s \in Seq(Nat) /\ Len(s) = 2 + Len(x)
  BY BegunBy
<1> HIDE DEF s
<1>2. 2 + n > Len(s) /\ Len(s) > 2
  BY <1>1
<1>3. Shows(s, 0, Len(s)) /\ ParseFrames(s).incomplete
  BY <1>1, <1>2, ShowsShort
<1> QED
  BY <1>2, <1>3, Zenon DEF s, CutOff, Shows

(* A reply as it is. *)
LEMMA OneFrame ==
  ASSUME NEW n \in Nat, n # 0
  PROVE  Shows(Prefix(n) \o Bytes(n), 1, 0)
<1>1. /\ Begun(Prefix(n) \o Bytes(n), 0, n) /\ Prefix(n) \o Bytes(n) \in Seq(Nat)
      /\ Len(Prefix(n) \o Bytes(n)) = 2 + n
  BY BytesFacts, BegunBy
<1> QED
  BY <1>1, ShowsOne

(* A reply sent twice. *)
LEMMA TwoFrames ==
  ASSUME NEW n \in Nat, n # 0
  PROVE  Shows((Prefix(n) \o Bytes(n)) \o (Prefix(n) \o Bytes(n)), 2, 0)
<1> DEFINE a == Prefix(n) \o Bytes(n)  s == a \o a
<1>1. Begun(a, 0, n) /\ a \in Seq(Nat) /\ Len(a) = 2 + n
  BY BytesFacts, BegunBy
<1> HIDE DEF a
<1>2. s \in Seq(Nat) /\ Len(s) = Len(a) + Len(a) /\ Begun(s, 0, n) /\ Begun(s, Len(a), n)
  BY <1>1, BegunBehind
<1> HIDE DEF s
<1>3. Len(s) = 2 * (2 + n)
  BY <1>1, <1>2
<1>4. Begun(s, 2 + n, n)
  BY <1>1, <1>2, Zenon
<1>5. Shows(s, 2, 0)
  BY <1>2, <1>3, <1>4, ShowsTwo
<1> QED
  BY <1>5, Zenon DEF s, a

(* The text behind a reply looks like the prefix of a frame far longer. *)
LEMMA TextBehind ==
  ASSUME NEW n \in Nat, n # 0
  PROVE  Shows((Prefix(n) \o Bytes(n)) \o Trailing, 1, 15)
<1> DEFINE a == Prefix(n) \o Bytes(n)  b == Trailing  s == a \o b
<1>1. Begun(a, 0, n) /\ a \in Seq(Nat) /\ Len(a) = 2 + n
  BY BytesFacts, BegunBy
<1>2. b \in Seq(Nat) /\ Len(b) = 15 /\ b[1] = 68 /\ b[2] = 78
  BY DEF Trailing
<1> HIDE DEF a, b
<1> DEFINE k == 17486
<1>3. k \div 256 = 68 /\ k % 256 = 78 /\ k \in Nat
  BY SMTT(30)
<1> HIDE DEF k
<1>4. Begun(b, 0, k)
  <2>1. 0 + 2 <= Len(b) /\ 0 + 1 = 1 /\ 0 + 2 = 2
    BY <1>2
  <2> QED
    BY <1>2, <1>3, <2>1, Zenon DEF Begun
<1>5. s \in Seq(Nat) /\ Len(s) = Len(a) + Len(b) /\ Begun(s, 0, n) /\ Begun(s, Len(a), k)
  BY <1>1, <1>2, <1>4, BegunBehind, ZenonT(60)
<1> HIDE DEF s
<1>6. k \in Nat /\ k # 0 /\ 2 + n + 2 + k > Len(s) /\ Len(s) - (2 + n) = 15
  BY <1>1, <1>2, <1>5 DEF k
<1>7. Begun(s, 2 + n, k)
  BY <1>1, <1>5, Zenon
<1>8. Shows(s, 1, Len(s) - (2 + n))
  BY <1>5, <1>6, <1>7, ShowsMore
<1> QED
  BY <1>6, <1>8, Zenon DEF s, a, b

(* The length of a length-mismatch is more than half of the answer's. *)
LEMMA LongerIs ==
  ASSUME NEW n \in Nat, 12 <= n, n <= 65535
  PROVE  Longer(n) \in Nat /\ Longer(n) # 0 /\ n \div 2 < Longer(n)
BY DEF Longer

(* The wire of each scenario. *)
LEMMA WireShows ==
  ASSUME NEW n \in Nat, 12 <= n, Longer(n) \in Nat, Longer(n) # 0, n \div 2 < Longer(n)
  PROVE  /\ \A s \in {"normal", "force-tcp", "split-prefix", "split-body", "bytewise", "delayed"} :
              Shows(OnTheWire(s, n), 1, 0)
         /\ Shows(OnTheWire("close-before-response", n), 0, 0) /\ Shows(OnTheWire("stall", n), 0, 0)
         /\ Shows(OnTheWire("close-after-prefix", n), 0, 2)
         /\ CutOff(OnTheWire("close-mid-body", n)) /\ CutOff(OnTheWire("length-mismatch", n))
         /\ Shows(OnTheWire("duplicate-response", n), 2, 0)
         /\ Shows(OnTheWire("trailing-bytes", n), 1, 15)
<1> DEFINE frame == Prefix(n) \o Bytes(n)  h == n \div 2  m == Longer(n)
<1>1. n # 0 /\ h \in 1 .. n /\ h < n /\ m \in Nat /\ m # 0 /\ h < m /\ h \in Nat /\ h > 0
  OBVIOUS
<1>2. Shows(frame, 1, 0)
  BY <1>1, OneFrame
<1>3. First(frame, 2 + h) = Prefix(n) \o Bytes(h) /\ First(frame, 2) = Prefix(n)
  <2> HIDE DEF h
  <2>1. /\ SubSeq(Prefix(n) \o Bytes(n), 1, 2 + h) = Prefix(n) \o Bytes(h)
        /\ SubSeq(Prefix(n) \o Bytes(n), 1, 2) = Prefix(n)
    BY <1>1, FrontBytes, ZenonT(60)
  <2> QED
    BY <2>1, Zenon DEF First
<1>4. Bytes(h) \in Seq(Nat) /\ Len(Bytes(h)) = h
  <2> HIDE DEF h
  <2> QED
    BY <1>1, BytesFacts
<1>5. CutOff(Prefix(n) \o Bytes(h)) /\ CutOff(Prefix(m) \o Bytes(h))
  <2> HIDE DEF h, m
  <2> QED
    BY <1>1, <1>4, CutOffBy
<1>6. Shows(Prefix(n), 0, 2)
  <2> DEFINE q == Prefix(n)  e == <<>>
  <2>1. q \in Seq(Nat) /\ Len(q) = 2 /\ e \in Seq(Nat)
    <3>1. q \in Seq(Nat) /\ Len(q) = 2
      BY BytesFacts, Zenon
    <3> QED
      BY <3>1
  <2>2. q \o e = q
    BY <2>1, ConcatEmptySeq
  <2>3. Begun(Prefix(n) \o e, 0, n)
    <3> HIDE DEF e
    <3> QED
      BY <2>1, BegunBy, ZenonT(60)
  <2> HIDE DEF e
  <2>4. Begun(q, 0, n)
    BY <2>2, <2>3, Zenon
  <2> HIDE DEF q
  <2>5. 2 + n > Len(q)
    BY <1>1, <2>1
  <2>6. Shows(q, 0, Len(q))
    BY <1>1, <2>1, <2>4, <2>5, ShowsShort
  <2> QED
    BY <2>1, <2>6, Zenon DEF q
<1>7. Shows(frame \o frame, 2, 0) /\ Shows(frame \o Trailing, 1, 15)
  BY <1>1, TwoFrames, TextBehind
<1> DEFINE Whole == {"normal", "force-tcp", "split-prefix", "split-body", "bytewise", "delayed"}
<1>8. \A s \in Whole : OnTheWire(s, n) = frame
  <2>1. OnTheWire("normal", n) = frame /\ OnTheWire("force-tcp", n) = frame
    BY Wire, Zenon
  <2>2. OnTheWire("split-prefix", n) = frame /\ OnTheWire("split-body", n) = frame
    BY Wire, Zenon
  <2>3. OnTheWire("bytewise", n) = frame /\ OnTheWire("delayed", n) = frame
    BY Wire, Zenon
  <2> HIDE DEF frame
  <2> QED
    BY <2>1, <2>2, <2>3, Zenon
<1>9. OnTheWire("close-before-response", n) = <<>> /\ OnTheWire("stall", n) = <<>>
  BY Wire, Zenon
<1>10. /\ OnTheWire("close-after-prefix", n) = First(frame, 2)
       /\ OnTheWire("close-mid-body", n) = First(frame, 2 + h)
  BY Wire, Zenon
<1>11. OnTheWire("length-mismatch", n) = Prefix(m) \o Bytes(h)
  BY Wire, Zenon
<1>12. /\ OnTheWire("duplicate-response", n) = frame \o frame
       /\ OnTheWire("trailing-bytes", n) = frame \o Trailing
  BY Wire, Zenon
<1> HIDE DEF frame, h, m
<1>13. \A s \in Whole : Shows(OnTheWire(s, n), 1, 0)
  BY <1>2, <1>8, Zenon
<1>14. Shows(OnTheWire("close-before-response", n), 0, 0) /\ Shows(OnTheWire("stall", n), 0, 0)
  BY <1>9, ShowsNone, Zenon
<1>15. /\ Shows(OnTheWire("close-after-prefix", n), 0, 2)
       /\ CutOff(OnTheWire("close-mid-body", n)) /\ CutOff(OnTheWire("length-mismatch", n))
  BY <1>3, <1>5, <1>6, <1>10, <1>11, Zenon
<1>16. /\ Shows(OnTheWire("duplicate-response", n), 2, 0)
       /\ Shows(OnTheWire("trailing-bytes", n), 1, 15)
  BY <1>7, <1>12, Zenon
<1> QED
  BY <1>13, <1>14, <1>15, <1>16, Zenon

(* How many parts the four scenarios make that are judged by them. *)
Cutting == {"split-prefix", "split-body", "bytewise", "delayed"}
PiecesOf(scenario, n) == Len(FrameParts(scenario, Bytes(n)))

(* They are as many as evaluate asks for. *)
LEMMA PiecesMade ==
  ASSUME NEW n \in Nat, 12 <= n
  PROVE  /\ PiecesOf("split-prefix", n) >= 2 /\ PiecesOf("split-body", n) >= 2
         /\ PiecesOf("delayed", n) >= 2 /\ PiecesOf("bytewise", n) >= 3
         /\ \A s \in Cutting : PiecesOf(s, n) \in Nat
<1> DEFINE payload == Bytes(n)  prefix == Prefix(n)  frame == prefix \o payload
<1>1. /\ payload \in Seq(Nat) /\ Len(payload) = n /\ prefix \in Seq(Nat)
      /\ frame \in Seq(Nat) /\ Len(frame) = n + 2
  BY BytesFacts
<1>2. payload # <<>> /\ frame # <<>>
  BY <1>1
<1> HIDE DEF payload, prefix, frame
<1>3. ASSUME NEW k \in Nat \ {0}
      PROVE  Len(<<prefix>> \o Slices(payload, k)) \in Nat /\ Len(<<prefix>> \o Slices(payload, k)) >= 2
  <2> DEFINE a == <<prefix>>  b == Slices(payload, k)
  <2>1. CutFrom(b, payload, 0) /\ Len(b) = (Len(payload) + k - 1) \div k
    BY <1>1, <1>2, CutSlices
  <2>2. b \in Seq(Seq(Nat)) /\ a \in Seq(Seq(Nat)) /\ Len(a) = 1
    BY <1>1, <2>1 DEF CutFrom
  <2> HIDE DEF a, b
  <2>3. Len(b) \in Nat \ {0}
    <3> DEFINE w == Len(b)
    <3> HIDE DEF w
    <3>1. Len(payload) \in Nat \ {0} /\ w = (Len(payload) + k - 1) \div k
      BY <1>1, <2>1 DEF w
    <3>2. w \in Nat \ {0}
      BY <3>1, Blocks, Zenon
    <3> QED
      BY <3>2, Zenon DEF w
  <2>4. Len(a \o b) = Len(a) + Len(b)
    BY <2>2, ConcatProperties
  <2>5. Len(a \o b) \in Nat /\ Len(a \o b) >= 2
    BY <2>2, <2>3, <2>4
  <2> QED
    BY <2>5, Zenon DEF a, b
<1>4. Len(Slices(frame, 1)) = n + 2
  <2>1. Len(Slices(frame, 1)) = (Len(frame) + 1 - 1) \div 1
    BY <1>1, <1>2, CutSlices
  <2> QED
    BY <1>1, <2>1
<1>5. /\ FrameParts("split-prefix", payload) = <<First(prefix, 1), From(prefix, 2), payload>>
      /\ FrameParts("split-body", payload) = <<prefix>> \o Slices(payload, 64)
      /\ FrameParts("bytewise", payload) = Slices(frame, 1)
      /\ FrameParts("delayed", payload) = <<prefix>> \o Slices(payload, 256)
  <2>1. n = Len(payload)
    BY <1>1, Zenon
  <2>4. FrameParts("split-prefix", payload) = <<First(Prefix(n), 1), From(Prefix(n), 2), payload>>
    BY <2>1, SMT DEF FrameParts
  <2>5. FrameParts("split-body", payload) = <<Prefix(n)>> \o Slices(payload, 64)
    BY <2>1, SMT DEF FrameParts
  <2>6. FrameParts("bytewise", payload) = Slices(Prefix(n) \o payload, 1)
    BY <2>1, SMT DEF FrameParts
  <2>7. FrameParts("delayed", payload) = <<Prefix(n)>> \o Slices(payload, 256)
    BY <2>1, SMT DEF FrameParts
  <2> QED
    BY <2>4, <2>5, <2>6, <2>7, Zenon DEF frame, prefix
<1>6. PiecesOf("split-prefix", n) = 3
  <2>1. ASSUME NEW a, NEW b, NEW c PROVE Len(<<a, b, c>>) = 3
    OBVIOUS
  <2> QED
    BY <1>5, <2>1, Zenon DEF PiecesOf, payload
<1>7. /\ PiecesOf("split-body", n) >= 2 /\ PiecesOf("delayed", n) >= 2
      /\ PiecesOf("split-body", n) \in Nat /\ PiecesOf("delayed", n) \in Nat
  <2> DEFINE L(k) == Len(<<prefix>> \o Slices(payload, k))
  <2>1. 64 \in Nat \ {0} /\ 256 \in Nat \ {0}
    OBVIOUS
  <2>2. L(64) \in Nat /\ L(64) >= 2 /\ L(256) \in Nat /\ L(256) >= 2
    BY <1>3, <2>1, Zenon
  <2>3. PiecesOf("split-body", n) = L(64) /\ PiecesOf("delayed", n) = L(256)
    BY <1>5, Zenon DEF PiecesOf, payload
  <2> DEFINE x == L(64)  y == L(256)
  <2>4. x \in Nat /\ x >= 2 /\ y \in Nat /\ y >= 2
    BY <2>2
  <2>5. PiecesOf("split-body", n) = x /\ PiecesOf("delayed", n) = y
    BY <2>3
  <2> HIDE DEF x, y
  <2> QED
    BY <2>4, <2>5, Zenon
<1>8. PiecesOf("bytewise", n) = n + 2
  BY <1>4, <1>5, Zenon DEF PiecesOf, payload
<1>9. 3 \in Nat /\ 3 >= 2 /\ n + 2 \in Nat /\ n + 2 >= 3
  OBVIOUS
<1> QED
  BY <1>6, <1>7, <1>8, <1>9, Zenon DEF Cutting

(* evaluate's arms, one by one. *)
LEMMA Arms ==
  ASSUME NEW data, NEW pieces \in Nat, NEW elapsed \in Nat
  PROVE
  /\ Shows(data, 1, 0) => Meets("normal", data, pieces, FALSE, elapsed)
  /\ Shows(data, 1, 0) /\ pieces >= 2 => Meets("split-prefix", data, pieces, FALSE, elapsed)
  /\ Shows(data, 1, 0) /\ pieces >= 2 => Meets("split-body", data, pieces, FALSE, elapsed)
  /\ Shows(data, 1, 0) /\ pieces >= 2 => Meets("delayed", data, pieces, FALSE, elapsed)
  /\ Shows(data, 1, 0) /\ pieces >= 3 => Meets("bytewise", data, pieces, FALSE, elapsed)
  /\ Shows(data, 0, 0) => Meets("eof-before-response", data, pieces, FALSE, elapsed)
  /\ Shows(data, 0, 2) => Meets("eof-after-prefix", data, pieces, FALSE, elapsed)
  /\ CutOff(data) => Meets("eof-mid-body", data, pieces, FALSE, elapsed)
  /\ CutOff(data) => Meets("length-mismatch", data, pieces, FALSE, elapsed)
  /\ Shows(data, 0, 0) /\ elapsed = StallTime => Meets("stall", data, pieces, FALSE, elapsed)
  /\ Shows(data, 2, 0) => Meets("duplicate-response", data, pieces, FALSE, elapsed)
  /\ Shows(data, 1, 15) => Meets("trailing-bytes", data, pieces, FALSE, elapsed)
<1>1. Shows(data, 1, 0) => Meets("normal", data, pieces, FALSE, elapsed)
  BY SMT DEF Meets, Shows
<1>2. Shows(data, 1, 0) /\ pieces >= 2 => Meets("split-prefix", data, pieces, FALSE, elapsed)
  BY SMT DEF Meets, Shows
<1>3. Shows(data, 1, 0) /\ pieces >= 2 => Meets("split-body", data, pieces, FALSE, elapsed)
  BY SMT DEF Meets, Shows
<1>4. Shows(data, 1, 0) /\ pieces >= 2 => Meets("delayed", data, pieces, FALSE, elapsed)
  BY SMT DEF Meets, Shows
<1>5. Shows(data, 1, 0) /\ pieces >= 3 => Meets("bytewise", data, pieces, FALSE, elapsed)
  BY SMT DEF Meets, Shows
<1>6. Shows(data, 0, 0) => Meets("eof-before-response", data, pieces, FALSE, elapsed)
  BY SMT DEF Meets, Shows
<1>7. Shows(data, 0, 2) => Meets("eof-after-prefix", data, pieces, FALSE, elapsed)
  BY SMT DEF Meets, Shows
<1>8. CutOff(data) => Meets("eof-mid-body", data, pieces, FALSE, elapsed)
  BY SMT DEF Meets, CutOff
<1>9. CutOff(data) => Meets("length-mismatch", data, pieces, FALSE, elapsed)
  BY SMT DEF Meets, CutOff
<1>10. Shows(data, 0, 0) /\ elapsed = StallTime => Meets("stall", data, pieces, FALSE, elapsed)
  <2>1. elapsed = StallTime => 10 * elapsed >= 9 * StallTime /\ 2 * elapsed <= 3 * StallTime + 100
    BY SMT
  <2> QED
    BY <2>1, SMT DEF Meets, Shows
<1>11. Shows(data, 2, 0) => Meets("duplicate-response", data, pieces, FALSE, elapsed)
  BY SMT DEF Meets, Shows
<1>12. Shows(data, 1, 15) => Meets("trailing-bytes", data, pieces, FALSE, elapsed)
  BY SMT DEF Meets, Shows
<1> QED
  BY <1>1, <1>2, <1>3, <1>4, <1>5, <1>6, <1>7, <1>8, <1>9, <1>10, <1>11, <1>12, Zenon

(* What the row expects of each scenario. *)
LEMMA Expectations ==
  /\ ExpectationOf("normal") = "normal" /\ ExpectationOf("force-tcp") = "normal"
  /\ ExpectationOf("split-prefix") = "split-prefix" /\ ExpectationOf("split-body") = "split-body"
  /\ ExpectationOf("bytewise") = "bytewise" /\ ExpectationOf("delayed") = "delayed"
  /\ ExpectationOf("close-before-response") = "eof-before-response"
  /\ ExpectationOf("close-after-prefix") = "eof-after-prefix"
  /\ ExpectationOf("close-mid-body") = "eof-mid-body"
  /\ ExpectationOf("length-mismatch") = "length-mismatch" /\ ExpectationOf("stall") = "stall"
  /\ ExpectationOf("duplicate-response") = "duplicate-response"
  /\ ExpectationOf("trailing-bytes") = "trailing-bytes"
BY SMT DEF ExpectationOf

(* All of the reply, in as many pieces as were sent, and no stall but the  *)
(* one that was asked for: the row is met.                                 *)
Fair(s, n, pieces, elapsed) ==
  /\ s \in Cutting => pieces >= PiecesOf(s, n)
  /\ s = "stall" => elapsed = StallTime

(* Every scenario, judged by its own row. *)
LEMMA Judged ==
  ASSUME NEW s \in Scenario, NEW n \in PayloadSize, NEW pieces \in Nat, NEW elapsed \in Nat,
         Fair(s, n, pieces, elapsed)
  PROVE  Meets(ExpectationOf(s), OnTheWire(s, n), pieces, FALSE, elapsed)
<1>1. n \in Nat /\ 12 <= n /\ Longer(n) \in Nat /\ Longer(n) # 0 /\ n \div 2 < Longer(n)
  <2>1. n \in Nat /\ 12 <= n /\ n <= 65535
    BY SizeAssumption DEF SizeAssumption
  <2> QED
    BY <2>1, LongerIs
<1>2. /\ \A x \in {"normal", "force-tcp", "split-prefix", "split-body", "bytewise", "delayed"} :
              Shows(OnTheWire(x, n), 1, 0)
      /\ Shows(OnTheWire("close-before-response", n), 0, 0) /\ Shows(OnTheWire("stall", n), 0, 0)
      /\ Shows(OnTheWire("close-after-prefix", n), 0, 2)
      /\ CutOff(OnTheWire("close-mid-body", n)) /\ CutOff(OnTheWire("length-mismatch", n))
      /\ Shows(OnTheWire("duplicate-response", n), 2, 0)
      /\ Shows(OnTheWire("trailing-bytes", n), 1, 15)
  BY <1>1, WireShows
<1>3. /\ s = "split-prefix" => pieces >= 2
      /\ s = "split-body" => pieces >= 2
      /\ s = "delayed" => pieces >= 2
      /\ s = "bytewise" => pieces >= 3
  <2>1. /\ PiecesOf("split-prefix", n) >= 2 /\ PiecesOf("split-body", n) >= 2
        /\ PiecesOf("delayed", n) >= 2 /\ PiecesOf("bytewise", n) >= 3
        /\ \A x \in Cutting : PiecesOf(x, n) \in Nat
    BY <1>1, PiecesMade
  <2>2. \A x \in Cutting : s = x => pieces >= PiecesOf(x, n)
    BY DEF Fair
  <2>3. /\ "split-prefix" \in Cutting /\ "split-body" \in Cutting
        /\ "delayed" \in Cutting /\ "bytewise" \in Cutting
    BY DEF Cutting
  <2>4. \A a \in Nat : (a >= 2 /\ pieces >= a => pieces >= 2) /\ (a >= 3 /\ pieces >= a => pieces >= 3)
    OBVIOUS
  <2> QED
    BY <2>1, <2>2, <2>3, <2>4, Zenon
<1> DEFINE Good(x) == Meets(ExpectationOf(x), OnTheWire(x, n), pieces, FALSE, elapsed)
<1>4. Good("normal") /\ Good("force-tcp")
  BY <1>2, Arms, Expectations, Zenon
<1>5. s = "split-prefix" => Good("split-prefix")
  BY <1>2, <1>3, Arms, Expectations, Zenon
<1>6. s = "split-body" => Good("split-body")
  BY <1>2, <1>3, Arms, Expectations, Zenon
<1>7. s = "delayed" => Good("delayed")
  BY <1>2, <1>3, Arms, Expectations, Zenon
<1>8. s = "bytewise" => Good("bytewise")
  BY <1>2, <1>3, Arms, Expectations, Zenon
<1>9. Good("close-before-response") /\ Good("close-after-prefix")
  BY <1>2, Arms, Expectations, Zenon
<1>10. Good("close-mid-body") /\ Good("length-mismatch")
  BY <1>2, Arms, Expectations, Zenon
<1>11. Good("duplicate-response") /\ Good("trailing-bytes")
  BY <1>2, Arms, Expectations, Zenon
<1>12. s = "stall" => Good("stall")
  BY <1>2, Arms, Expectations, Zenon DEF Fair
<1>13. \/ s = "normal" \/ s = "force-tcp" \/ s = "split-prefix" \/ s = "split-body" \/ s = "delayed"
       \/ s = "bytewise" \/ s = "close-before-response" \/ s = "close-after-prefix"
       \/ s = "close-mid-body" \/ s = "length-mismatch" \/ s = "duplicate-response"
       \/ s = "trailing-bytes" \/ s = "stall"
  BY Zenon DEF Scenario
<1> HIDE DEF Good
<1>14. Good(s)
  BY <1>4, <1>5, <1>6, <1>7, <1>8, <1>9, <1>10, <1>11, <1>12, <1>13, Zenon
<1> QED
  BY <1>14 DEF Good

(***************************************************************************)
(* Time.                                                                   *)
(***************************************************************************)
Owed == IF toProbe = <<>> THEN reads ELSE reads + 1

Numbers == now \in Nat /\ stimer \in Nat /\ ptimer \in Nat /\ reads \in Nat

(* The query is sent, read, and then replied to. *)
Ordered ==
  /\ spc \in {"read", "stall", "forward", "write", "pause", "closed"}
  /\ ppc \in {"send", "sendPause", "recv", "done"}
  /\ closed <=> spc = "closed"
  /\ spc # "read" => QueryRead
  /\ ppc \in {"recv", "done"} => requestParts = <<>>
  /\ ppc = "done" => spc \in {"read", "closed"} /\ QueryRead

(* The handler does not tire of the probe's pauses. *)
Sending ==
  spc = "read" /\ ~QueryRead =>
    /\ ppc = "send" /\ toServer = <<>> => now < stimer
    /\ ppc = "sendPause" => /\ now <= ptimer /\ ptimer <= now + RequestDelay
                            /\ toServer = <<>> => ptimer < stimer
    /\ ppc = "recv" => ptimer = now + row.timeout
    /\ row.scenario = "stall" => /\ now = 0 /\ ppc # "sendPause"
                                 /\ ppc = "send" => Len(requestParts) = 1

(* Nor the probe of the handler's waits, but for a connection that is kept.*)
Served ==
  /\ spc \in {"forward", "stall"} => now <= stimer /\ stimer < ptimer
  /\ spc = "stall" => stimer = StallTime
  /\ spc = "pause" => /\ now <= stimer /\ stimer <= now + row.chunk
                      /\ toProbe = <<>> => stimer < ptimer
  /\ spc = "write" /\ toProbe = <<>> => now < ptimer
  /\ spc = "read" /\ QueryRead =>
       /\ row.scenario \in {"normal", "force-tcp"} /\ now <= stimer /\ stimer <= now + row.io
       /\ row.io < row.timeout /\ toProbe = <<>> /\ ppc = "recv" => stimer < ptimer
  /\ spc = "closed" /\ row.scenario = "stall" => now = StallTime

(* With pauses, what has been written is read before more is: each part    *)
(* is a piece of its own.                                                  *)
Apart ==
  row.chunk > 0 /\ row.scenario \in Cutting =>
    /\ spc = "write" => toProbe = <<>>
    /\ spc = "pause" /\ toProbe # <<>> => now < stimer
    /\ spc \in {"write", "pause"} => Owed + Len(parts) >= PiecesOf(row.scenario, size)
    /\ spc = "closed" => Owed >= PiecesOf(row.scenario, size)

Excused ==
  \/ row.chunk = 0 /\ row.expect \in {"split-prefix", "split-body", "bytewise", "delayed"}
  \/ row.expect = "normal" /\ row.io >= row.timeout

TimeInv ==
  /\ Numbers /\ Ordered /\ Sending /\ Served /\ Apart
  /\ verdict = "failed" => Excused

(* What a row's delays are to each other. *)
RowTimes(r) ==
  /\ r.io \in Nat /\ r.timeout \in Nat /\ r.chunk \in Nat /\ RequestDelay \in Nat /\ StallTime \in Nat
  /\ RequestDelay < r.io /\ r.chunk < r.timeout
  /\ \A d \in Latency : d \in Nat /\ d < r.timeout
  /\ r.scenario = "stall" => r.pattern = "whole" /\ StallTime < r.timeout
  /\ r.expect = ExpectationOf(r.scenario) /\ r.scenario \in Scenario

(* They are so for a row of a table that can be met. *)
LEMMA RowIsFit ==
  ASSUME TableFits, NEW r \in Row
  PROVE  RowTimes(r)
<1>1. r \in [scenario : Scenario, expect : Expectation, pattern : Pattern,
             timeout : Nat, io : Nat, chunk : Nat]
  BY RowAssumption, Zenon
<1>2. r.io \in Nat /\ r.timeout \in Nat /\ r.chunk \in Nat /\ r.scenario \in Scenario
  BY <1>1
<1>3. RequestDelay \in Nat /\ StallTime \in Nat /\ \A d \in Latency : d \in Nat
  BY DelayAssumption, Zenon
<1>4. RowFits(r)
  BY Zenon DEF TableFits
<1> QED
  BY <1>2, <1>3, <1>4, Zenon DEF RowFits, RowTimes

(* The first of two timers. *)
LEMMA Earliest ==
  ASSUME NEW a \in Nat, NEW b \in Nat
  PROVE  Min({a} \cup {b}) = IF a < b THEN a ELSE b
<1> DEFINE m == IF a < b THEN a ELSE b
           Is(x) == x \in {a} \cup {b} /\ \A y \in {a} \cup {b} : x <= y
<1>1. Is(m)
  OBVIOUS
<1>2. \A x : Is(x) => x = m
  OBVIOUS
<1>3. Min({a} \cup {b}) = CHOOSE x \in {a} \cup {b} : \A y \in {a} \cup {b} : x <= y
  BY Zenon DEF Min
<1>4. Is(CHOOSE x \in {a} \cup {b} : \A y \in {a} \cup {b} : x <= y)
  BY <1>1, Zenon
<1> HIDE DEF m
<1>5. Is(Min({a} \cup {b}))
  BY <1>3, <1>4, Zenon
<1>6. Min({a} \cup {b}) = m
  BY <1>2, <1>5, Zenon
<1> QED
  BY <1>6, Zenon DEF m

-----------------------------------------------------------------------------
(* The handler reads: the rest of the query is awaited anew, or it is all  *)
(* there and the wait for BIND, or the stall, is shorter than the probe's. *)
LEMMA ReadTimes ==
  ASSUME TableFits, IInv, TimeInv, ServerRead
  PROVE  TimeInv'
<1>1. /\ row' = row /\ size' = size /\ now' = now /\ received' = received /\ ppc' = ppc
      /\ ptimer' = ptimer /\ requestParts' = requestParts /\ reads' = reads /\ verdict' = verdict
  BY Zenon DEF ServerRead, probeVars
<1>2. spc = "read" /\ toServer # <<>>
  BY Zenon DEF ServerRead
<1>3. RowTimes(row)
  BY RowIsFit, Zenon DEF IInv, BytesInv
<1>4. ppc \in {"send", "sendPause"} => requestParts # <<>>
  BY Zenon DEF IInv, SendInv
<1>5. Excused' <=> Excused
  BY <1>1, Zenon DEF Excused
<1>6. CASE ~QueryRead' /\ stimer' = now + row.io /\ UNCHANGED <<spc, parts, toProbe, closed>>
  <2>1. /\ ~(toServer' = <<>> /\ requestParts' = <<>>) /\ stimer' = now + row.io
        /\ spc' = "read" /\ parts' = parts /\ toProbe' = toProbe /\ closed' = closed
    BY <1>2, <1>6, Zenon DEF QueryRead
  <2>2. Numbers'
    BY <1>1, <1>3, <2>1 DEF TimeInv, Numbers, RowTimes
  <2>3. Ordered'
    BY <1>1, <1>2, <2>1, Zenon DEF TimeInv, Ordered, QueryRead
  <2>4. Sending'
    BY <1>1, <1>2, <1>3, <2>1, SMT DEF TimeInv, Numbers, Sending, QueryRead, RowTimes
  <2>5. Served'
    BY <2>1, SMT DEF Served, QueryRead
  <2>6. Apart'
    BY <2>1, SMT DEF Apart
  <2> QED
    BY <1>1, <1>5, <2>2, <2>3, <2>4, <2>5, <2>6, Zenon DEF TimeInv
<1>7. CASE QueryRead' /\ Dispatch
  <2>1. toServer' = <<>> /\ requestParts' = <<>> /\ requestParts = <<>> /\ ~QueryRead
    BY <1>1, <1>2, <1>7, Zenon DEF QueryRead
  <2>2. ppc = "recv" /\ ppc' = "recv"
    BY <1>1, <1>4, <2>1, Zenon DEF TimeInv, Ordered
  <2>3. ptimer = now + row.timeout /\ (row.scenario = "stall" => now = 0)
    BY <1>2, <2>1, <2>2, Zenon DEF TimeInv, Sending
  <2>4. now \in Nat /\ stimer \in Nat /\ ptimer \in Nat /\ reads \in Nat /\ (verdict = "failed" => Excused)
    BY Zenon DEF TimeInv, Numbers
  <2>5. ASSUME spc' \in {"stall", "forward", "closed"}, closed' <=> spc' = "closed", stimer' \in Nat,
               spc' \in {"stall", "forward"} => now <= stimer' /\ stimer' < ptimer,
               spc' = "stall" => stimer' = StallTime,
               spc' = "closed" => row.scenario = "close-before-response"
        PROVE  TimeInv'
    <3>1. Numbers'
      BY <1>1, <2>4, <2>5 DEF Numbers
    <3>2. Ordered'
      BY <2>1, <2>2, <2>5, SMT DEF Ordered, QueryRead
    <3>3. Sending'
      BY <2>5, SMT DEF Sending
    <3>4. Served'
      BY <1>1, <2>5, SMT DEF Served
    <3>5. Apart'
      BY <1>1, <2>5, SMT DEF Apart, Cutting
    <3> QED
      BY <1>1, <1>5, <2>4, <3>1, <3>2, <3>3, <3>4, <3>5, Zenon DEF TimeInv
  <2>6. CASE row.scenario = "close-before-response" /\ ServerClose
    <3>1. spc' = "closed" /\ closed' /\ stimer' = stimer
      BY <2>6, Zenon DEF ServerClose
    <3> QED
      BY <2>4, <2>5, <2>6, <3>1, SMT
  <2>7. CASE row.scenario = "stall" /\ spc' = "stall" /\ stimer' = now + StallTime /\ closed' = closed
    <3>1. stimer' = StallTime /\ stimer' \in Nat /\ now <= stimer' /\ stimer' < ptimer
      BY <1>3, <2>3, <2>4, <2>7, SMT DEF RowTimes
    <3>2. ~closed
      BY <1>2, Zenon DEF TimeInv, Ordered
    <3> QED
      BY <2>5, <2>7, <3>1, <3>2, Zenon
  <2>8. CASE spc' = "forward" /\ (\E d \in Latency : stimer' = now + d) /\ closed' = closed
    <3>1. stimer' \in Nat /\ now <= stimer' /\ stimer' < ptimer
      BY <1>3, <2>3, <2>4, <2>8, SMT DEF RowTimes
    <3>2. ~closed
      BY <1>2, Zenon DEF TimeInv, Ordered
    <3> QED
      BY <2>5, <2>8, <3>1, <3>2, Zenon
  <2> QED
    BY <1>7, <2>6, <2>7, <2>8, Zenon DEF Dispatch
<1> QED
  BY <1>6, <1>7, ReadKeeps, Zenon

(* The wait for a query ends: not the first one's, whose pieces are sent   *)
(* in time, but the wait for a second one.                                 *)
LEMMA ReadTimeoutTimes ==
  ASSUME TableFits, IInv, TimeInv, ServerReadTimesOut
  PROVE  TimeInv'
<1>1. /\ row' = row /\ size' = size /\ now' = now /\ received' = received /\ ppc' = ppc
      /\ ptimer' = ptimer /\ requestParts' = requestParts /\ reads' = reads /\ verdict' = verdict
      /\ toServer' = toServer /\ toProbe' = toProbe /\ parts' = parts /\ stimer' = stimer
      /\ spc' = "closed" /\ closed'
  BY Zenon DEF ServerReadTimesOut, ServerClose, probeVars
<1>2. spc = "read" /\ toServer = <<>> /\ now >= stimer
  BY Zenon DEF ServerReadTimesOut
<1>3. requestParts = <<>>
  <2>1. ASSUME requestParts # <<>> PROVE FALSE
    <3>1. ppc = "send" \/ ppc = "sendPause"
      BY <2>1, Zenon DEF TimeInv, Ordered
    <3> QED
      BY <1>2, <2>1, <3>1, SMT DEF TimeInv, Numbers, Sending, QueryRead
  <2> QED
    BY <2>1, Zenon
<1>4. row.scenario \in {"normal", "force-tcp"}
  BY <1>2, <1>3, Zenon DEF TimeInv, Served, QueryRead
<1>5. Numbers'
  BY <1>1, Zenon DEF TimeInv, Numbers
<1>6. Ordered'
  BY <1>1, <1>2, <1>3, SMT DEF TimeInv, Ordered, QueryRead
<1>7. Sending' /\ Served'
  BY <1>1, <1>4, SMT DEF Sending, Served
<1>8. Apart'
  BY <1>1, <1>4, SMT DEF Apart, Cutting
<1> QED
  BY <1>1, <1>5, <1>6, <1>7, <1>8, Zenon DEF TimeInv, Excused

(* The stall ends when it was to. *)
LEMMA StallTimes ==
  ASSUME IInv, TimeInv, StallEnds
  PROVE  TimeInv'
<1>1. /\ row' = row /\ size' = size /\ now' = now /\ received' = received /\ ppc' = ppc
      /\ ptimer' = ptimer /\ requestParts' = requestParts /\ reads' = reads /\ verdict' = verdict
      /\ toServer' = toServer /\ toProbe' = toProbe /\ parts' = parts /\ stimer' = stimer
      /\ spc' = "closed" /\ closed'
  BY Zenon DEF StallEnds, ServerClose, probeVars
<1>2. spc = "stall" /\ now >= stimer
  BY Zenon DEF StallEnds
<1>3. row.scenario = "stall"
  <2>1. /\ "stall" # "closed" /\ "stall" # "read" /\ "stall" # "forward"
        /\ "stall" \notin {"write", "pause"} /\ "stall" \notin {"read", "closed"}
    BY Zenon
  <2> QED
    BY <1>2, <2>1, Zenon DEF IInv, HandlerInv, Reading, GivenUp, Waiting, Writing, Finished
<1>5. Numbers'
  BY <1>1, Zenon DEF TimeInv, Numbers
<1>6. Ordered'
  BY <1>1, <1>2, SMT DEF TimeInv, Ordered, QueryRead
<1>7. Sending' /\ Served'
  BY <1>1, <1>2, <1>3, SMT DEF TimeInv, Numbers, Sending, Served
<1>8. Apart'
  BY <1>1, <1>3, SMT DEF Apart, Cutting
<1> QED
  BY <1>1, <1>5, <1>6, <1>7, <1>8, Zenon DEF TimeInv, Excused

(* A sequence of which nothing is on its way is empty. *)
LEMMA NothingOnItsWay ==
  ASSUME BytesInv, OnItsWay = <<>>
  PROVE  toProbe = <<>> /\ received = <<>>
<1>1. received \in Seq(Nat) /\ toProbe \in Seq(Nat)
  BY Zenon DEF BytesInv
<1>2. Len(received \o toProbe) = Len(received) + Len(toProbe)
  BY <1>1, ConcatElements
<1>3. Len(received \o toProbe) = 0
  BY DEF OnItsWay
<1> QED
  BY <1>1, <1>2, <1>3

(* BIND has answered: nothing of the reply is written. *)
LEMMA AnsweredTimes ==
  ASSUME IInv, TimeInv, Answered
  PROVE  TimeInv'
<1>1. /\ row' = row /\ size' = size /\ now' = now /\ received' = received /\ ppc' = ppc
      /\ ptimer' = ptimer /\ requestParts' = requestParts /\ reads' = reads /\ verdict' = verdict
      /\ toServer' = toServer /\ toProbe' = toProbe /\ stimer' = stimer /\ closed' = closed
      /\ spc' = "write" /\ parts' = FrameParts(row.scenario, Bytes(size))
  BY Zenon DEF Answered, probeVars
<1>2. spc = "forward" /\ now >= stimer
  BY Zenon DEF Answered
<1>3. toProbe = <<>>
  <2>1. /\ "forward" # "closed" /\ "forward" # "read" /\ "stall" # "forward"
        /\ "forward" \notin {"write", "pause"} /\ "forward" \notin {"read", "closed"}
    BY Zenon
  <2>2. Waiting /\ BytesInv
    BY <1>2, <2>1, Zenon DEF IInv, HandlerInv, Reading, GivenUp, Writing, Finished
  <2> QED
    BY <2>2, NothingOnItsWay, Zenon DEF Waiting
<1>4. now < ptimer
  BY <1>2, SMT DEF TimeInv, Numbers, Served
<1>5. Numbers'
  BY <1>1, Zenon DEF TimeInv, Numbers
<1>6. Ordered'
  BY <1>1, <1>2, SMT DEF TimeInv, Ordered, QueryRead
<1>7. Sending' /\ Served'
  BY <1>1, <1>4, SMT DEF Sending, Served
<1>8. Apart'
  <2> SUFFICES ASSUME row.scenario \in Cutting
               PROVE  Owed' + Len(parts') >= PiecesOf(row.scenario, size)
    BY <1>1, <1>3, SMT DEF Apart
  <2>1. size \in Nat /\ 12 <= size
    BY SizeFacts, Zenon DEF IInv, BytesInv
  <2>2. PiecesOf(row.scenario, size) \in Nat
    BY <2>1, PiecesMade
  <2>3. Len(parts') = PiecesOf(row.scenario, size) /\ Owed' = reads /\ reads \in Nat
    BY <1>1, <1>3, Zenon DEF PiecesOf, Owed, TimeInv, Numbers
  <2> QED
    BY <2>2, <2>3
<1> QED
  BY <1>1, <1>5, <1>6, <1>7, <1>8, Zenon DEF TimeInv, Excused

(* A part is written: behind the ones before it have been read, or all of  *)
(* them at once when there are no pauses.                                  *)
LEMMA WriteTimes ==
  ASSUME TableFits, IInv, TimeInv, ServerWrite
  PROVE  TimeInv'
<1>1. /\ row' = row /\ size' = size /\ now' = now /\ received' = received /\ ppc' = ppc
      /\ ptimer' = ptimer /\ requestParts' = requestParts /\ reads' = reads /\ verdict' = verdict
      /\ toServer' = toServer /\ spc = "write"
  BY Zenon DEF ServerWrite, probeVars
<1>2. /\ QueryRead /\ toProbe' # <<>>
      /\ parts \in Seq(Seq(Nat)) /\ parts # <<>> /\ Len(parts') = Len(parts) - 1
  BY WriteKeeps, Zenon
<1>3. RowTimes(row)
  BY RowIsFit, Zenon DEF IInv, BytesInv
<1>4. Len(parts) \in Nat /\ Len(parts) >= 1
  BY <1>2, EmptySeq
<1>5. now \in Nat /\ stimer \in Nat /\ ptimer \in Nat /\ reads \in Nat /\ ~closed
  BY <1>1, Zenon DEF TimeInv, Numbers, Ordered
<1>6. ASSUME row.chunk > 0, row.scenario \in Cutting
      PROVE  Owed' + Len(parts') >= PiecesOf(row.scenario, size)
  <2>1. toProbe = <<>> /\ Owed + Len(parts) >= PiecesOf(row.scenario, size)
    BY <1>1, <1>6, Zenon DEF TimeInv, Apart
  <2>2. Owed = reads /\ Owed' = reads + 1
    BY <1>1, <1>2, <2>1, Zenon DEF Owed
  <2>3. reads + 1 + (Len(parts) - 1) = reads + Len(parts)
    BY <1>4, <1>5
  <2> QED
    BY <1>2, <2>1, <2>2, <2>3, Zenon
<1>7. toServer = <<>> /\ requestParts = <<>>
  BY <1>2, Zenon DEF QueryRead
<1>8. CASE /\ Len(parts) > 1 /\ spc' = (IF row.chunk > 0 THEN "pause" ELSE "write")
           /\ stimer' = now + row.chunk /\ closed' = closed
  <2>1. Numbers'
    BY <1>1, <1>3, <1>5, <1>8, SMT DEF Numbers, RowTimes
  <2>2. Ordered'
    BY <1>1, <1>5, <1>7, <1>8, SMT DEF TimeInv, Ordered, QueryRead
  <2>3. Sending' /\ Served'
    BY <1>1, <1>2, <1>3, <1>5, <1>8, SMT DEF Sending, Served, RowTimes
  <2>4. Apart'
    BY <1>1, <1>3, <1>5, <1>6, <1>8, SMT DEF Apart, RowTimes
  <2> QED
    BY <1>1, <2>1, <2>2, <2>3, <2>4, Zenon DEF TimeInv, Excused
<1>9. CASE /\ Len(parts) = 1 /\ row.scenario \in {"normal", "force-tcp"}
           /\ spc' = "read" /\ stimer' = now + row.io /\ closed' = closed
  <2>1. Numbers'
    BY <1>1, <1>3, <1>5, <1>9, SMT DEF Numbers, RowTimes
  <2>2. Ordered'
    BY <1>1, <1>5, <1>7, <1>9, SMT DEF TimeInv, Ordered, QueryRead
  <2>3. Sending' /\ Served'
    BY <1>1, <1>2, <1>3, <1>5, <1>7, <1>9, SMT DEF Sending, Served, RowTimes, QueryRead
  <2>4. Apart'
    BY <1>1, <1>9, SMT DEF Apart, Cutting
  <2> QED
    BY <1>1, <2>1, <2>2, <2>3, <2>4, Zenon DEF TimeInv, Excused
<1>10. CASE /\ Len(parts) = 1 /\ row.scenario \notin {"normal", "force-tcp"}
            /\ spc' = "closed" /\ closed' /\ stimer' = stimer
  <2>1. Numbers'
    BY <1>1, <1>5, <1>10, Zenon DEF Numbers
  <2>2. Ordered'
    BY <1>1, <1>7, <1>10, SMT DEF TimeInv, Ordered, QueryRead
  <2>3. row.scenario # "stall"
    <3>1. /\ "write" # "read" /\ "write" # "closed" /\ "write" # "stall" /\ "write" # "forward"
          /\ "write" \notin {"read", "closed"}
      BY Zenon
    <3>2. Writing
      BY <1>1, <3>1, Zenon DEF IInv, HandlerInv, Reading, GivenUp, Waiting, Finished
    <3> QED
      BY <3>2, Zenon DEF Writing, Replying
  <2>4. Sending' /\ Served'
    BY <1>1, <1>10, <2>3, SMT DEF Sending, Served
  <2>5. Apart'
    <3>1. ASSUME row.chunk > 0, row.scenario \in Cutting PROVE Owed' >= PiecesOf(row.scenario, size)
      <4>0. Len(parts') = 0
        BY <1>2, <1>10
      <4>1. Len(parts') = 0 /\ Owed' = reads + 1
        BY <1>1, <1>2, <4>0, Zenon DEF Owed
      <4>2. reads + 1 + 0 = reads + 1
        BY <1>5
      <4> QED
        BY <1>6, <3>1, <4>1, <4>2, Zenon
    <3> QED
      BY <1>1, <1>10, <3>1, SMT DEF Apart
  <2> QED
    BY <1>1, <2>1, <2>2, <2>4, <2>5, Zenon DEF TimeInv, Excused
<1>11. \/ /\ Len(parts) > 1 /\ spc' = (IF row.chunk > 0 THEN "pause" ELSE "write")
          /\ stimer' = now + row.chunk /\ closed' = closed
       \/ /\ Len(parts) = 1 /\ row.scenario \in {"normal", "force-tcp"}
          /\ spc' = "read" /\ stimer' = now + row.io /\ closed' = closed
       \/ /\ Len(parts) = 1 /\ row.scenario \notin {"normal", "force-tcp"}
          /\ spc' = "closed" /\ closed' /\ stimer' = stimer
  BY Zenon DEF ServerWrite
<1> QED
  BY <1>8, <1>9, <1>10, <1>11, Zenon

(* A pause ends before the probe's patience, and after what was written    *)
(* before it has been read.                                                *)
LEMMA PauseTimes ==
  ASSUME IInv, TimeInv, PauseEnds
  PROVE  TimeInv'
<1>1. /\ row' = row /\ size' = size /\ now' = now /\ received' = received /\ ppc' = ppc
      /\ ptimer' = ptimer /\ requestParts' = requestParts /\ reads' = reads /\ verdict' = verdict
      /\ toServer' = toServer /\ toProbe' = toProbe /\ stimer' = stimer /\ closed' = closed
      /\ spc' = "write" /\ parts' = parts
  BY Zenon DEF PauseEnds, probeVars
<1>2. spc = "pause" /\ now >= stimer
  BY Zenon DEF PauseEnds
<1>5. Numbers'
  BY <1>1, Zenon DEF TimeInv, Numbers
<1>6. Ordered'
  BY <1>1, <1>2, SMT DEF TimeInv, Ordered, QueryRead
<1>7. Sending' /\ Served'
  BY <1>1, <1>2, SMT DEF TimeInv, Numbers, Sending, Served
<1>8. Apart'
  <2>1. Owed' = Owed
    BY <1>1, Zenon DEF Owed
  <2> QED
    BY <1>1, <1>2, <2>1, SMT DEF TimeInv, Numbers, Apart
<1> QED
  BY <1>1, <1>5, <1>6, <1>7, <1>8, Zenon DEF TimeInv, Excused

(* The probe sends a piece: while the handler reads, which has one to read. *)
LEMMA SendTimes ==
  ASSUME TableFits, IInv, TimeInv, ProbeSend
  PROVE  TimeInv'
<1>1. /\ row' = row /\ size' = size /\ now' = now /\ received' = received
      /\ reads' = reads /\ verdict' = verdict /\ toProbe' = toProbe
      /\ spc' = spc /\ stimer' = stimer /\ parts' = parts /\ closed' = closed /\ ppc = "send"
  BY Zenon DEF ProbeSend, serverVars
<1>2. toServer' # <<>> /\ (requestParts' = <<>> <=> Len(requestParts) = 1)
  BY SendKeeps, Zenon
<1>3. RowTimes(row)
  BY RowIsFit, Zenon DEF IInv, BytesInv
<1>4. requestParts # <<>> /\ spc = "read" /\ ~QueryRead /\ ~closed
  <2>1. requestParts # <<>>
    BY <1>1, Zenon DEF IInv, SendInv
  <2> QED
    BY <2>1, Zenon DEF TimeInv, Ordered, QueryRead
<1>5. now \in Nat /\ stimer \in Nat /\ ptimer \in Nat /\ reads \in Nat
  BY Zenon DEF TimeInv, Numbers
<1>6. row.scenario = "stall" => now = 0 /\ Len(requestParts) = 1
  BY <1>1, <1>4, Zenon DEF TimeInv, Sending
<1>7. Served' /\ Apart'
  BY <1>1, <1>2, <1>4, SMT DEF Served, Apart, QueryRead
<1>8. CASE /\ Len(requestParts) > 1 /\ ptimer' = now + RequestDelay
           /\ ppc' = (IF RequestDelay > 0 THEN "sendPause" ELSE "send")
  <2>0. Len(requestParts) # 1
    <3>1. requestParts \in Seq(Seq(Nat))
      BY Zenon DEF IInv, SendInv, CutFrom
    <3>2. Len(requestParts) \in Nat /\ Len(requestParts) > 1
      BY <1>8, <3>1
    <3>3. \A k \in Nat : k > 1 => k # 1
      OBVIOUS
    <3> QED
      BY <3>2, <3>3, Zenon
  <2>1. Numbers'
    BY <1>1, <1>3, <1>5, <1>8, SMT DEF Numbers, RowTimes
  <2>2. Ordered'
    BY <1>1, <1>4, <1>8, SMT DEF TimeInv, Ordered
  <2>3. Sending'
    BY <1>1, <1>2, <1>3, <1>5, <1>6, <1>8, <2>0, SMT DEF Sending, RowTimes
  <2> QED
    BY <1>1, <1>7, <2>1, <2>2, <2>3, Zenon DEF TimeInv, Excused
<1>9. CASE Len(requestParts) = 1 /\ ppc' = "recv" /\ ptimer' = now + row.timeout
  <2>1. Numbers'
    BY <1>1, <1>3, <1>5, <1>9, SMT DEF Numbers, RowTimes
  <2>2. Ordered'
    BY <1>1, <1>2, <1>4, <1>9, SMT DEF TimeInv, Ordered
  <2>3. Sending'
    BY <1>1, <1>2, <1>3, <1>5, <1>6, <1>9, SMT DEF Sending, RowTimes
  <2> QED
    BY <1>1, <1>7, <2>1, <2>2, <2>3, Zenon DEF TimeInv, Excused
<1>10. \/ /\ Len(requestParts) > 1 /\ ptimer' = now + RequestDelay
          /\ ppc' = (IF RequestDelay > 0 THEN "sendPause" ELSE "send")
       \/ Len(requestParts) = 1 /\ ppc' = "recv" /\ ptimer' = now + row.timeout
  BY Zenon DEF ProbeSend
<1> QED
  BY <1>8, <1>9, <1>10, Zenon

(* The probe's pause is over before the handler's patience. *)
LEMMA SendPauseTimes ==
  ASSUME TableFits, IInv, TimeInv, SendPauseEnds
  PROVE  TimeInv'
<1>1. /\ row' = row /\ size' = size /\ now' = now /\ received' = received
      /\ reads' = reads /\ verdict' = verdict /\ toProbe' = toProbe /\ toServer' = toServer
      /\ spc' = spc /\ stimer' = stimer /\ parts' = parts /\ closed' = closed
      /\ ptimer' = ptimer /\ requestParts' = requestParts
      /\ ppc = "sendPause" /\ ppc' = "send" /\ now >= ptimer
  BY Zenon DEF SendPauseEnds, serverVars
<1>4. requestParts # <<>> /\ spc = "read" /\ ~QueryRead
  <2>1. requestParts # <<>>
    BY <1>1, Zenon DEF IInv, SendInv
  <2> QED
    BY <2>1, Zenon DEF TimeInv, Ordered, QueryRead
<1>5. Numbers'
  BY <1>1, Zenon DEF TimeInv, Numbers
<1>6. Ordered'
  BY <1>1, <1>4, SMT DEF TimeInv, Ordered, QueryRead
<1>7. Sending'
  BY <1>1, <1>4, SMT DEF TimeInv, Numbers, Sending, QueryRead
<1>8. Served' /\ Apart'
  BY <1>1, <1>4, SMT DEF Served, Apart, QueryRead
<1> QED
  BY <1>1, <1>5, <1>6, <1>7, <1>8, Zenon DEF TimeInv, Excused

(* The probe reads: its patience counts anew, and a part has been read. *)
LEMMA RecvTimes ==
  ASSUME TableFits, IInv, TimeInv, ProbeRecv
  PROVE  TimeInv'
<1>1. /\ row' = row /\ size' = size /\ now' = now /\ requestParts' = requestParts
      /\ reads' = reads + 1 /\ verdict' = verdict /\ toServer' = toServer
      /\ spc' = spc /\ stimer' = stimer /\ parts' = parts /\ closed' = closed
      /\ ptimer' = now + row.timeout /\ ppc' = ppc /\ ppc = "recv" /\ toProbe # <<>>
  BY SMTT(60) DEF ProbeRecv, serverVars
<1>2. RowTimes(row)
  BY RowIsFit, Zenon DEF IInv, BytesInv
<1>3. now \in Nat /\ stimer \in Nat /\ ptimer \in Nat /\ reads \in Nat
  BY Zenon DEF TimeInv, Numbers
<1>4. QueryRead /\ spc \notin {"forward", "stall"}
  <2>1. BytesInv /\ HandlerInv
    BY Zenon DEF IInv
  <2>2. ~(OnItsWay = <<>>)
    BY <1>1, <2>1, NothingOnItsWay, Zenon
  <2>3. Writing \/ Finished
    BY <2>1, <2>2, Zenon DEF HandlerInv, Reading, GivenUp, Waiting
  <2>4. spc \in {"write", "pause", "read", "closed"}
    BY <2>3, Zenon DEF Writing, Finished
  <2>5. "forward" \notin {"write", "pause", "read", "closed"} /\ "stall" \notin {"write", "pause", "read", "closed"}
    BY Zenon
  <2> QED
    BY <2>3, <2>4, <2>5, Zenon DEF Writing, Finished
<1>5. Numbers'
  BY <1>1, <1>2, <1>3, SMT DEF Numbers, RowTimes
<1>6. Ordered'
  BY <1>1, SMT DEF TimeInv, Ordered, QueryRead
<1>7. Sending'
  BY <1>1, <1>4, Zenon DEF Sending, QueryRead
<1>8. Served'
  BY <1>1, <1>2, <1>3, <1>4, SMT DEF TimeInv, Served, RowTimes, QueryRead
<1>9. Apart'
  <2>1. ASSUME row.chunk > 0, row.scenario \in Cutting
        PROVE  /\ spc # "write"
               /\ spc = "pause" => now < stimer /\ Owed' + Len(parts) >= PiecesOf(row.scenario, size)
               /\ spc = "closed" => Owed' >= PiecesOf(row.scenario, size)
    <3>1. /\ spc # "write" /\ (spc = "pause" => now < stimer)
          /\ spc = "pause" => Owed + Len(parts) >= PiecesOf(row.scenario, size)
          /\ spc = "closed" => Owed >= PiecesOf(row.scenario, size)
      BY <1>1, <2>1, SMT DEF TimeInv, Apart
    <3>2. Owed = reads + 1 /\ (Owed' = reads + 1 \/ Owed' = (reads + 1) + 1)
      BY <1>1, Zenon DEF Owed
    <3>3. PiecesOf(row.scenario, size) \in Nat
      <4>1. size \in Nat /\ 12 <= size
        BY SizeFacts, Zenon DEF IInv, BytesInv
      <4> QED
        BY <2>1, <4>1, PiecesMade
    <3>4. spc = "pause" => Len(parts) \in Nat
      <4>1. /\ "pause" # "read" /\ "pause" # "closed" /\ "pause" # "stall" /\ "pause" # "forward"
            /\ "pause" \notin {"read", "closed"}
        BY Zenon
      <4>2. spc = "pause" => Writing
        BY <4>1, Zenon DEF IInv, HandlerInv, Reading, GivenUp, Waiting, Finished
      <4>3. spc = "pause" => parts \in Seq(Seq(Nat))
        BY <4>2, Zenon DEF Writing, CutFrom
      <4> QED
        BY <4>3
    <3> QED
      BY <1>3, <3>1, <3>2, <3>3, <3>4
  <2> QED
    BY <1>1, <2>1, SMT DEF Apart
<1> QED
  BY <1>1, <1>5, <1>6, <1>7, <1>8, <1>9, Zenon DEF TimeInv, Excused

(* The probe gives up only on a connection that is kept longer. *)
LEMMA TimesOutTimes ==
  ASSUME TableFits, IInv, TimeInv, ProbeTimesOut
  PROVE  TimeInv'
<1>1. /\ row' = row /\ size' = size /\ now' = now /\ requestParts' = requestParts
      /\ reads' = reads /\ toServer' = toServer /\ toProbe' = toProbe /\ received' = received
      /\ spc' = spc /\ stimer' = stimer /\ parts' = parts /\ closed' = closed
      /\ ptimer' = ptimer /\ ppc' = "done"
      /\ ppc = "recv" /\ toProbe = <<>> /\ ~closed /\ now >= ptimer
  BY Zenon DEF ProbeTimesOut, Judge, serverVars
<1>2. RowTimes(row)
  BY RowIsFit, Zenon DEF IInv, BytesInv
<1>3. now \in Nat /\ stimer \in Nat /\ ptimer \in Nat
  BY Zenon DEF TimeInv, Numbers
<1>4. spc = "read" /\ QueryRead
  BY <1>1, <1>2, <1>3, SMT DEF TimeInv, Ordered, Sending, Served, RowTimes
<1>5. row.scenario \in {"normal", "force-tcp"} /\ row.io >= row.timeout
  BY <1>1, <1>2, <1>3, <1>4, SMT DEF TimeInv, Served, RowTimes
<1>6. row.expect = "normal"
  BY <1>2, <1>5, Expectations, Zenon DEF RowTimes
<1>7. Excused'
  BY <1>1, <1>5, <1>6, Zenon DEF Excused
<1>8. Numbers'
  BY <1>1, Zenon DEF TimeInv, Numbers
<1>9. Ordered' /\ Sending' /\ Served'
  BY <1>1, <1>4, SMT DEF TimeInv, Ordered, Sending, Served, QueryRead
<1>10. Apart'
  BY <1>1, <1>4, SMT DEF Apart
<1> QED
  BY <1>7, <1>8, <1>9, <1>10, Zenon DEF TimeInv

(* At the end of the connection all of the reply is there. *)
LEMMA EofTimes ==
  ASSUME TableFits, IInv, TimeInv, ProbeEof
  PROVE  TimeInv'
<1>1. /\ row' = row /\ size' = size /\ now' = now /\ requestParts' = requestParts
      /\ reads' = reads /\ toServer' = toServer /\ toProbe' = toProbe /\ received' = received
      /\ spc' = spc /\ stimer' = stimer /\ parts' = parts /\ closed' = closed
      /\ ptimer' = ptimer /\ ppc' = "done"
      /\ ppc = "recv" /\ toProbe = <<>> /\ closed
      /\ verdict' = IF Meets(row.expect, received, reads, FALSE, now) THEN "ok" ELSE "failed"
  BY Zenon DEF ProbeEof, Judge, serverVars
<1>2. RowTimes(row)
  BY RowIsFit, Zenon DEF IInv, BytesInv
<1>3. now \in Nat /\ stimer \in Nat /\ ptimer \in Nat /\ reads \in Nat
  BY Zenon DEF TimeInv, Numbers
<1>4. spc = "closed" /\ QueryRead
  BY <1>1, SMT DEF TimeInv, Ordered
<1>5. received = Reply
  <2>1. /\ "closed" # "read" /\ "closed" # "stall" /\ "closed" # "forward"
        /\ "closed" \notin {"write", "pause"}
    BY Zenon
  <2>2. OnItsWay = Reply
    BY <1>4, <2>1, Zenon DEF IInv, HandlerInv, Reading, GivenUp, Waiting, Writing, Finished
  <2>3. received \in Seq(Nat)
    BY Zenon DEF IInv, BytesInv
  <2>4. received \o <<>> = received
    BY <2>3, ConcatEmptySeq
  <2> QED
    BY <1>1, <2>2, <2>4, Zenon DEF OnItsWay
<1>6. ASSUME ~Excused PROVE Meets(row.expect, received, reads, FALSE, now)
  <2>1. row.scenario \in Cutting => row.chunk > 0
    <3>1. \A x \in Cutting : x \in {"split-prefix", "split-body", "bytewise", "delayed"} /\ ExpectationOf(x) = x
      BY Expectations, Zenon DEF Cutting
    <3>2. row.scenario \in Cutting => row.chunk # 0
      BY <1>2, <1>6, <3>1, Zenon DEF Excused, RowTimes
    <3> QED
      BY <1>2, <3>2 DEF RowTimes
  <2>2. row.scenario \in Cutting => reads >= PiecesOf(row.scenario, size)
    BY <1>1, <1>4, <2>1, Zenon DEF TimeInv, Apart, Owed
  <2>3. row.scenario = "stall" => now = StallTime
    BY <1>4, Zenon DEF TimeInv, Served
  <2>4. Fair(row.scenario, size, reads, now)
    BY <2>2, <2>3, Zenon DEF Fair
  <2>5. row.scenario \in Scenario /\ size \in PayloadSize /\ row.expect = ExpectationOf(row.scenario)
    BY <1>2, Zenon DEF RowTimes, IInv, BytesInv
  <2>6. Meets(ExpectationOf(row.scenario), OnTheWire(row.scenario, size), reads, FALSE, now)
    BY <1>3, <2>4, <2>5, Judged
  <2> QED
    BY <1>5, <2>5, <2>6, Zenon DEF Reply
<1>7. verdict' = "failed" => Excused'
  <2>1. "ok" # "failed"
    BY Zenon
  <2>2. Excused' <=> Excused
    BY <1>1, Zenon DEF Excused
  <2> QED
    BY <1>1, <1>6, <2>1, <2>2, Zenon
<1>8. Numbers'
  BY <1>1, Zenon DEF TimeInv, Numbers
<1>9. Ordered' /\ Sending' /\ Served'
  BY <1>1, <1>4, SMT DEF TimeInv, Ordered, Sending, Served, QueryRead
<1>10. Apart'
  BY <1>1, <1>4, SMT DEF TimeInv, Apart, Owed
<1> QED
  BY <1>7, <1>8, <1>9, <1>10, Zenon DEF TimeInv

(* Time passes to the timer that is due first. *)
LEMMA ElapseTimes ==
  ASSUME TableFits, IInv, TimeInv, Elapse
  PROVE  TimeInv'
<1>1. /\ row' = row /\ size' = size /\ requestParts' = requestParts
      /\ reads' = reads /\ toServer' = toServer /\ toProbe' = toProbe /\ received' = received
      /\ spc' = spc /\ stimer' = stimer /\ parts' = parts /\ closed' = closed
      /\ ptimer' = ptimer /\ ppc' = ppc /\ verdict' = verdict
  BY Zenon DEF Elapse, serverVars, probeVars
<1>2. ServerWaits /\ ProbeWaits /\ now' = Min({ptimer} \cup (IF spc = "closed" THEN {} ELSE {stimer}))
  BY Zenon DEF Elapse
<1>3. RowTimes(row)
  BY RowIsFit, Zenon DEF IInv, BytesInv
<1>4. now \in Nat /\ stimer \in Nat /\ ptimer \in Nat /\ reads \in Nat
  BY Zenon DEF TimeInv, Numbers
<1>5. ppc = "sendPause" => requestParts # <<>>
  BY Zenon DEF IInv, SendInv
<1>6. spc # "closed" /\ spc # "write" /\ now < stimer
  BY <1>2, <1>5, SMT DEF TimeInv, Ordered, ServerWaits, ProbeWaits, QueryRead
<1>7. now' = IF ptimer < stimer THEN ptimer ELSE stimer
  <2>1. now' = Min({ptimer} \cup {stimer})
    BY <1>2, <1>6, Zenon
  <2> QED
    BY <1>4, <2>1, Earliest, Zenon
<1>8. now < ptimer
  BY <1>2, Zenon DEF ProbeWaits
<1>9. now' \in Nat /\ now < now' /\ now' <= stimer /\ now' <= ptimer
  BY <1>4, <1>6, <1>7, <1>8, SMT
<1>10. Numbers'
  BY <1>1, <1>4, <1>9, Zenon DEF Numbers
<1>11. Ordered'
  BY <1>1, Zenon DEF TimeInv, Ordered, QueryRead
<1>12. CASE spc = "read" /\ ~QueryRead
  <2>1. toServer = <<>> /\ requestParts # <<>>
    BY <1>2, <1>12, SMT DEF ServerWaits, QueryRead
  <2>2. ppc = "sendPause"
    BY <1>2, <2>1, Zenon DEF TimeInv, Ordered, ProbeWaits
  <2>3. Sending'
    <3>1. ptimer <= now + RequestDelay /\ ptimer < stimer /\ row.scenario # "stall"
      BY <1>12, <2>1, <2>2, Zenon DEF TimeInv, Sending
    <3>2. now' <= ptimer /\ ptimer <= now' + RequestDelay
      <4>1. RequestDelay \in Nat
        BY <1>3, Zenon DEF RowTimes
      <4>2. \A a \in Nat, b \in Nat, c \in Nat, d \in Nat :
               a < b /\ c <= a + d => c <= b + d
        OBVIOUS
      <4> QED
        BY <1>4, <1>9, <3>1, <4>1, <4>2, Zenon
    <3> QED
      BY <1>1, <2>2, <3>1, <3>2, SMT DEF Sending
  <2>4. Served' /\ Apart'
    BY <1>1, <1>12, SMT DEF Served, Apart, QueryRead
  <2> QED
    BY <1>1, <1>10, <1>11, <2>3, <2>4, Zenon DEF TimeInv, Excused
<1>13. CASE ~(spc = "read" /\ ~QueryRead)
  <2>1. QueryRead
    BY <1>13, Zenon DEF TimeInv, Ordered
  <2>2. toProbe = <<>> /\ ppc = "recv"
    BY <1>2, <1>5, <2>1, SMT DEF ProbeWaits, QueryRead
  <2>3. Sending'
    BY <1>1, <2>1, Zenon DEF Sending, QueryRead
  <2>4. Served'
    BY <1>1, <1>3, <1>4, <1>6, <1>7, <1>9, <2>1, <2>2, SMT DEF TimeInv, Served, RowTimes, QueryRead
  <2>5. Apart'
    BY <1>1, <1>6, <2>2, SMT DEF TimeInv, Apart, Owed
  <2> QED
    BY <1>1, <1>10, <1>11, <2>3, <2>4, <2>5, Zenon DEF TimeInv, Excused
<1> QED
  BY <1>12, <1>13, Zenon

(* A row begins with the query to be sent, whole if the row is a stall's. *)
LEMMA TimeStarts == TableFits /\ Init => TimeInv
<1> SUFFICES ASSUME TableFits, Init PROVE TimeInv
  OBVIOUS
<1>1. /\ row \in Row /\ now = 0 /\ toServer = <<>> /\ toProbe = <<>> /\ closed = FALSE
      /\ spc = "read" /\ stimer = row.io /\ ppc = "send" /\ ptimer = 0 /\ reads = 0
      /\ verdict = "pending" /\ requestParts = RequestParts(RequestFrame, row.pattern)
  BY Zenon DEF Init
<1>2. RowTimes(row)
  BY <1>1, RowIsFit, Zenon
<1>3. requestParts # <<>>
  <2>1. IInv
    BY Starts
  <2> QED
    BY <1>1, <2>1, Zenon DEF IInv, SendInv
<1>4. row.scenario = "stall" => Len(requestParts) = 1
  <2>1. RequestParts(RequestFrame, "whole") = <<RequestFrame>>
    BY SMT DEF RequestParts
  <2>2. Len(<<RequestFrame>>) = 1
    OBVIOUS
  <2> QED
    BY <1>1, <1>2, <2>1, <2>2, Zenon DEF RowTimes
<1>5. Numbers
  BY <1>1, <1>2, SMT DEF Numbers, RowTimes
<1>6. Ordered
  BY <1>1, SMT DEF Ordered
<1>7. Sending
  BY <1>1, <1>2, <1>4, SMT DEF Sending, RowTimes
<1>8. Served /\ Apart
  BY <1>1, <1>3, SMT DEF Served, Apart, QueryRead
<1> QED
  BY <1>1, <1>5, <1>6, <1>7, <1>8, Zenon DEF TimeInv

(* Every step keeps the times in order. *)
LEMMA NextInTime ==
  ASSUME TableFits, IInv, TimeInv, [Next]_vars
  PROVE  TimeInv'
<1>1. CASE UNCHANGED vars
  <2>1. /\ row' = row /\ size' = size /\ requestParts' = requestParts /\ now' = now
        /\ reads' = reads /\ toServer' = toServer /\ toProbe' = toProbe /\ received' = received
        /\ spc' = spc /\ stimer' = stimer /\ parts' = parts /\ closed' = closed
        /\ ptimer' = ptimer /\ ppc' = ppc /\ verdict' = verdict
    BY <1>1, Zenon DEF vars, serverVars, probeVars
  <2>2. Numbers' /\ Ordered' /\ Sending' /\ Served'
    BY <2>1, Zenon DEF TimeInv, Numbers, Ordered, Sending, Served, QueryRead
  <2>3. Apart'
    BY <2>1, Zenon DEF TimeInv, Apart, Owed
  <2> QED
    BY <2>1, <2>2, <2>3, Zenon DEF TimeInv, Excused
<1>2. CASE ServerStep
  BY <1>2, ReadTimes, ReadTimeoutTimes, StallTimes, AnsweredTimes, WriteTimes, PauseTimes, Zenon
     DEF ServerStep
<1>3. CASE ProbeStep
  BY <1>3, SendTimes, SendPauseTimes, RecvTimes, EofTimes, TimesOutTimes, Zenon DEF ProbeStep
<1> QED
  BY <1>1, <1>2, <1>3, ElapseTimes, Zenon DEF Next

-----------------------------------------------------------------------------
(* The types: what is sent and read are octets. *)
Octet == 0 .. 255

(* The type of a sequence of octets, under a name without numbers. *)
LEMMA OctetsAre == ByteSeq = Seq(Octet)
BY Zenon DEF ByteSeq, Octet

(* Pieces of octets are octets. *)
LEMMA CutBytes ==
  ASSUME NEW s, s \in Seq(Octet), NEW p, NEW c, CutFrom(p, s, c)
  PROVE  p \in Seq(Seq(Octet))
<1>1. PICK at : CutAt(p, s, c, at)
  BY Zenon DEF CutFrom
<1>2. p \in Seq(Seq(Nat))
  BY Zenon DEF CutFrom
<1>3. ASSUME NEW i \in 1 .. Len(p) PROVE p[i] \in Seq(Octet)
  <2>1. i \in Nat /\ i - 1 \in Nat
    BY <1>2
  <2>2. /\ at[i - 1] \in Nat /\ at[i] \in Nat /\ at[i - 1] < at[i] /\ at[i] <= Len(s)
        /\ p[i] = SubSeq(s, at[i - 1] + 1, at[i])
    BY <1>1, <2>1, Zenon DEF CutAt
  <2> DEFINE a == at[i - 1] + 1  b == at[i]
  <2>3. a \in Int /\ b \in Int /\ (\A j \in a .. b : j \in 1 .. Len(s)) /\ p[i] = SubSeq(s, a, b)
    BY <2>2
  <2> HIDE DEF a, b
  <2>4. \A j \in 1 .. Len(s) : s[j] \in Octet
    OBVIOUS
  <2>5. \A j \in a .. b : s[j] \in Octet
    BY <2>3, <2>4, Zenon
  <2>6. SubSeq(s, a, b) \in Seq(Octet)
    BY <2>3, <2>5, SubSeqProperties
  <2> QED
    BY <2>3, <2>6, Zenon
<1>4. p = [i \in 1 .. Len(p) |-> p[i]] /\ Len(p) \in Nat
  BY <1>2
<1>5. p \in [1 .. Len(p) -> Seq(Octet)]
  BY <1>3, <1>4, Zenon
<1> QED
  BY <1>4, <1>5

(* Some octets of a sequence, and the others. *)
LEMMA Taken ==
  ASSUME NEW s, s \in Seq(Octet), NEW n \in 0 .. Len(s)
  PROVE  First(s, n) \in Seq(Octet) /\ From(s, n + 1) \in Seq(Octet)
BY FrontAndRest DEF First, From

(* Two sequences of octets. *)
LEMMA Joined ==
  ASSUME NEW s, s \in Seq(Octet), NEW t, t \in Seq(Octet)
  PROVE  s \o t \in Seq(Octet)
BY ConcatProperties

(* A length that fits its prefix. *)
Fits(n) == n \in Nat /\ n <= 65535

(* A message and its prefix. *)
LEMMA FrameBytes ==
  ASSUME NEW n, Fits(n)
  PROVE  Bytes(n) \in Seq(Octet) /\ Prefix(n) \in Seq(Octet)
<1>1. n \in Nat /\ n \div 256 \in Octet /\ n % 256 \in Octet /\ \A i \in 1 .. n : i % 251 \in Octet
  BY SMTT(30) DEF Fits, Octet
<1> QED
  BY <1>1 DEF Bytes, Prefix

(* The wire of each scenario is octets. *)
LEMMA WireBytes ==
  ASSUME NEW s \in Scenario, NEW n \in PayloadSize
  PROVE  OnTheWire(s, n) \in Seq(Octet)
<1> DEFINE frame == Prefix(n) \o Bytes(n)  h == n \div 2  m == Longer(n)
<1>1. n \in Nat /\ n >= 12 /\ n <= 65535
  BY SizeAssumption
<1>2. Fits(n) /\ Fits(h) /\ Fits(m)
  BY <1>1, SMTT(30) DEF Fits, Longer
<1>3. 2 \in 0 .. n + 2 /\ 2 + h \in 0 .. n + 2
  BY <1>1
<1>4. frame \in Seq(Octet) /\ Len(frame) = n + 2
  <2>1. frame \in Seq(Octet)
    BY <1>2, FrameBytes, Joined, Zenon
  <2>2. Len(frame) = n + 2
    BY <1>1, BytesFacts
  <2> QED
    BY <2>1, <2>2
<1>5. Prefix(m) \o Bytes(h) \in Seq(Octet)
  <2> HIDE DEF m, h
  <2> QED
    BY <1>2, FrameBytes, Joined, Zenon
<1>6. Trailing \in Seq(Octet) /\ <<>> \in Seq(Octet)
  BY DEF Trailing, Octet
<1>7. First(frame, 2) \in Seq(Octet) /\ First(frame, 2 + h) \in Seq(Octet)
  <2> HIDE DEF frame, h
  <2> QED
    BY <1>3, <1>4, Taken, Zenon
<1>8. frame \o frame \in Seq(Octet) /\ frame \o Trailing \in Seq(Octet)
  BY <1>4, <1>6, Joined, Zenon
<1> DEFINE Good(x) == OnTheWire(x, n) \in Seq(Octet)
<1>9. Good("normal") /\ Good("force-tcp") /\ Good("split-prefix")
  BY <1>4, Wire, Zenon
<1>10. Good("split-body") /\ Good("bytewise") /\ Good("delayed")
  BY <1>4, Wire, Zenon
<1>11. Good("close-before-response") /\ Good("stall")
  BY <1>6, Wire, Zenon
<1>12. Good("close-after-prefix") /\ Good("close-mid-body")
  BY <1>7, Wire, Zenon
<1>13. Good("length-mismatch")
  BY <1>5, Wire, Zenon
<1>14. Good("duplicate-response") /\ Good("trailing-bytes")
  BY <1>8, Wire, Zenon
<1>15. \/ s = "normal" \/ s = "force-tcp" \/ s = "split-prefix" \/ s = "split-body" \/ s = "delayed"
       \/ s = "bytewise" \/ s = "close-before-response" \/ s = "close-after-prefix"
       \/ s = "close-mid-body" \/ s = "length-mismatch" \/ s = "duplicate-response"
       \/ s = "trailing-bytes" \/ s = "stall"
  BY Zenon DEF Scenario
<1> HIDE DEF Good
<1>16. Good(s)
  BY <1>9, <1>10, <1>11, <1>12, <1>13, <1>14, <1>15, Zenon
<1> QED
  BY <1>16 DEF Good

Octets ==
  /\ toServer \in Seq(Octet) /\ toProbe \in Seq(Octet)
  /\ request \in Seq(Octet) /\ received \in Seq(Octet)
  /\ parts \in Seq(Seq(Octet)) /\ requestParts \in Seq(Seq(Octet))
  /\ closed \in BOOLEAN /\ verdict \in {"pending", "ok", "failed"}

(* So is the query. *)
LEMMA OctetsFirst == Init => Octets
<1> SUFFICES ASSUME Init PROVE Octets
  OBVIOUS
<1>1. /\ row \in Row /\ toServer = <<>> /\ toProbe = <<>> /\ closed = FALSE
      /\ request = <<>> /\ parts = <<>> /\ received = <<>> /\ verdict = "pending"
      /\ requestParts = RequestParts(RequestFrame, row.pattern)
  BY Zenon DEF Init
<1>2. RequestFrame \in Seq(Octet)
  <2>1. Fits(QuerySize)
    BY SizeAssumption DEF Fits
  <2> QED
    BY <2>1, FrameBytes, Joined, Zenon DEF RequestFrame
<1>3. requestParts \in Seq(Seq(Octet))
  <2>1. CutFrom(RequestParts(RequestFrame, row.pattern), RequestFrame, 0)
    BY <1>1, RowFacts, PartsMakeQuery, Zenon
  <2> QED
    BY <1>1, <1>2, <2>1, CutBytes, Zenon
<1>4. <<>> \in Seq(Octet) /\ <<>> \in Seq(Seq(Octet)) /\ FALSE \in BOOLEAN
  OBVIOUS
<1> QED
  BY <1>1, <1>3, <1>4, Zenon DEF Octets

(* What is read and written stays octets. *)
LEMMA OctetsNext ==
  ASSUME IInv, Octets, [Next]_vars
  PROVE  Octets'
<1>1. /\ toServer \in Seq(Octet) /\ toProbe \in Seq(Octet)
      /\ request \in Seq(Octet) /\ received \in Seq(Octet)
      /\ parts \in Seq(Seq(Octet)) /\ requestParts \in Seq(Seq(Octet))
      /\ closed \in BOOLEAN /\ verdict \in {"pending", "ok", "failed"}
  BY Zenon DEF Octets
<1>2. <<>> \in Seq(Octet) /\ TRUE \in BOOLEAN
  OBVIOUS
<1>3. CASE ServerRead
  <2>1. /\ requestParts' = requestParts /\ received' = received /\ verdict' = verdict
    BY <1>3, Zenon DEF ServerRead, probeVars
  <2>2. PICK n \in 0 .. Len(toServer) :
          request' = request \o First(toServer, n) /\ toServer' = From(toServer, n + 1)
    BY <1>3, ReadKeeps, Zenon
  <2>3. First(toServer, n) \in Seq(Octet) /\ From(toServer, n + 1) \in Seq(Octet)
    BY <1>1, Taken, Zenon
  <2>4. request' \in Seq(Octet) /\ toServer' \in Seq(Octet)
    BY <1>1, <2>2, <2>3, Joined, Zenon
  <2>5. parts' = parts /\ toProbe' = toProbe /\ (closed' = closed \/ closed' = TRUE)
    BY <1>3, ReadKeeps, Zenon DEF Dispatch, ServerClose
  <2> QED
    BY <1>1, <1>2, <2>1, <2>4, <2>5, Zenon DEF Octets
<1>4. CASE ServerReadTimesOut \/ StallEnds
  <2>1. /\ toServer' = toServer /\ toProbe' = toProbe /\ request' = request /\ received' = received
        /\ parts' = parts /\ requestParts' = requestParts /\ closed' = TRUE /\ verdict' = verdict
    BY <1>4, Zenon DEF ServerReadTimesOut, StallEnds, ServerClose, probeVars
  <2> QED
    BY <1>1, <1>2, <2>1, Zenon DEF Octets
<1>5. CASE Answered
  <2>1. /\ toServer' = toServer /\ toProbe' = toProbe /\ request' = request /\ received' = received
        /\ requestParts' = requestParts /\ closed' = closed /\ verdict' = verdict
        /\ spc = "forward" /\ parts' = FrameParts(row.scenario, Bytes(size))
    BY <1>5, Zenon DEF Answered, probeVars
  <2>2. BytesInv /\ row.scenario \in Replying
    <3>1. /\ "forward" # "closed" /\ "forward" # "read" /\ "stall" # "forward"
          /\ "forward" \notin {"write", "pause"} /\ "forward" \notin {"read", "closed"}
      BY Zenon
    <3> QED
      BY <2>1, <3>1, Zenon DEF IInv, HandlerInv, Reading, GivenUp, Waiting, Writing, Finished
  <2>3. CutFrom(parts', Reply, 0)
    BY <2>1, <2>2, ReplyFacts, Zenon
  <2>4. Reply \in Seq(Octet)
    <3>1. row.scenario \in Scenario /\ size \in PayloadSize
      BY <2>2, Zenon DEF Replying, BytesInv
    <3> QED
      BY <3>1, WireBytes, Zenon DEF Reply
  <2>5. parts' \in Seq(Seq(Octet))
    BY <2>3, <2>4, CutBytes, Zenon
  <2> QED
    BY <1>1, <2>1, <2>5, Zenon DEF Octets
<1>6. CASE ServerWrite
  <2>1. /\ toServer' = toServer /\ received' = received /\ requestParts' = requestParts
        /\ verdict' = verdict /\ toProbe' = toProbe \o Head(parts) /\ parts' = Tail(parts)
        /\ request' = request \/ request' = <<>>
        /\ closed' = closed \/ closed' = TRUE
    BY <1>6, Zenon DEF ServerWrite, probeVars
  <2>2. parts # <<>>
    BY <1>6, WriteKeeps, Zenon
  <2>3. Head(parts) \in Seq(Octet) /\ Tail(parts) \in Seq(Seq(Octet))
    BY <1>1, <2>2, HeadAndTail, Zenon
  <2>4. toProbe \o Head(parts) \in Seq(Octet)
    BY <1>1, <2>3, Joined, Zenon
  <2> QED
    BY <1>1, <1>2, <2>1, <2>3, <2>4, Zenon DEF Octets
<1>7. CASE ProbeSend
  <2>1. /\ toProbe' = toProbe /\ request' = request /\ received' = received /\ parts' = parts
        /\ closed' = closed /\ verdict' = verdict /\ ppc = "send"
        /\ toServer' = toServer \o Head(requestParts) /\ requestParts' = Tail(requestParts)
    BY <1>7, Zenon DEF ProbeSend, serverVars
  <2>2. requestParts # <<>>
    BY <2>1, Zenon DEF IInv, SendInv
  <2>3. Head(requestParts) \in Seq(Octet) /\ Tail(requestParts) \in Seq(Seq(Octet))
    BY <1>1, <2>2, HeadAndTail, Zenon
  <2>4. toServer \o Head(requestParts) \in Seq(Octet)
    BY <1>1, <2>3, Joined, Zenon
  <2> QED
    BY <1>1, <2>1, <2>3, <2>4, Zenon DEF Octets
<1>8. CASE ProbeRecv
  <2> DEFINE n == IF Len(toProbe) > 4096 THEN 4096 ELSE Len(toProbe)
  <2>1. received' = received \o First(toProbe, n) /\ toProbe' = From(toProbe, n + 1)
    BY <1>8, SMT DEF ProbeRecv
  <2>2. /\ toServer' = toServer /\ request' = request /\ parts' = parts
        /\ requestParts' = requestParts /\ closed' = closed /\ verdict' = verdict
    BY <1>8, SMTT(60) DEF ProbeRecv, serverVars
  <2>3. n \in 0 .. Len(toProbe)
    BY <1>1
  <2> HIDE DEF n
  <2>4. First(toProbe, n) \in Seq(Octet) /\ From(toProbe, n + 1) \in Seq(Octet)
    BY <1>1, <2>3, Taken, Zenon
  <2>5. received \o First(toProbe, n) \in Seq(Octet)
    BY <1>1, <2>4, Joined, Zenon
  <2> QED
    BY <1>1, <2>1, <2>2, <2>4, <2>5, Zenon DEF Octets
<1>9. CASE ProbeEof \/ ProbeTimesOut
  <2>1. /\ toServer' = toServer /\ toProbe' = toProbe /\ request' = request /\ received' = received
        /\ parts' = parts /\ requestParts' = requestParts /\ closed' = closed
        /\ verdict' = "ok" \/ verdict' = "failed"
    BY <1>9, Zenon DEF ProbeEof, ProbeTimesOut, Judge, serverVars
  <2> QED
    BY <1>1, <2>1, Zenon DEF Octets
<1>10. CASE PauseEnds \/ SendPauseEnds \/ Elapse \/ UNCHANGED vars
  <2>1. /\ toServer' = toServer /\ toProbe' = toProbe /\ request' = request /\ received' = received
        /\ parts' = parts /\ requestParts' = requestParts /\ closed' = closed /\ verdict' = verdict
    BY <1>10, Zenon DEF PauseEnds, SendPauseEnds, Elapse, vars, serverVars, probeVars
  <2> QED
    BY <1>1, <2>1, Zenon DEF Octets
<1> QED
  BY <1>3, <1>4, <1>5, <1>6, <1>7, <1>8, <1>9, <1>10, Zenon DEF Next, ServerStep, ProbeStep

(* The row is met when the state is typed and its times are in order. *)
LEMMA MetSo == ASSUME IInv, TimeInv, Octets PROVE RowsMet
<1>1. TypeOK
  <2>1. ByteSeq = Seq(Octet)
    BY OctetsAre, Zenon
  <2> QED
    BY <2>1, Zenon DEF TypeOK, IInv, BytesInv, TimeInv, Numbers, Ordered, Octets
<1> QED
  BY <1>1, Zenon DEF RowsMet, TimeInv, Excused

(* Every row of a table that can be met is met: whatever the length of     *)
(* BIND's answer and however long it takes, however the probe cuts and     *)
(* paces its query, and wherever the kernel joins the parts of the reply,  *)
(* the probe judges the row of send_frame's scenario as the smoke test     *)
(* expects it; or the row is one of those that RowsMet excepts.            *)
THEOREM TableMet == TableFits => (Spec => []RowsMet)
<1> SUFFICES ASSUME TableFits PROVE Spec => []RowsMet
  OBVIOUS
<1>1. Init => IInv /\ TimeInv /\ Octets
  BY Starts, TimeStarts, OctetsFirst
<1>2. IInv /\ TimeInv /\ Octets /\ [Next]_vars => (IInv /\ TimeInv /\ Octets)'
  BY NextKeeps, NextInTime, OctetsNext
<1>3. IInv /\ TimeInv /\ Octets => RowsMet
  BY MetSo
<1> QED
  BY <1>1, <1>2, <1>3, PTL DEF Spec

=============================================================================
