--------------------------- MODULE Segments_proofs ---------------------------
(***************************************************************************)
(* Lemmas about the arithmetic of segments and about the sequences the     *)
(* two segment processors cut, join and shorten.                           *)
(***************************************************************************)
EXTENDS Segments, SequenceTheorems, WellFoundedInduction, TLAPS

\* A nonempty set of numbers has a least one.  (Induction below is by the least
\* counterexample.)
LEMMA LeastNumber ==
  ASSUME NEW T, T \subseteq Nat, T # {}
  PROVE  \E m \in T : \A k \in T : m <= k
<1>1. PICK m \in T : \A k \in T : ~(<<k, m>> \in OpToRel(<, Nat))
  BY NatLessThanWellFounded, WFMin
<1>2. \A k \in T : ~(k < m)
  BY <1>1 DEF OpToRel
<1> QED  BY <1>2

-----------------------------------------------------------------------------
(* Sums of frames.                                                         *)

\* g adds up the frames of the first packets of q.
IsSum(g, q) ==
  g = [n \in 0..Len(q) |-> IF n = 0 THEN 0 ELSE g[n - 1] + q[n].frames]

LEMMA SumExists ==
  ASSUME NEW q, Len(q) \in Nat, \A k \in 1..Len(q) : q[k].frames \in Nat
  PROVE  \E g \in [0..Len(q) -> Nat] : IsSum(g, q)
<1> DEFINE To(n, g) ==
      g = [k \in 0..n |-> IF k = 0 THEN 0 ELSE g[k - 1] + q[k].frames]
    T == {n \in 0..Len(q) : ~\E g \in [0..n -> Nat] : To(n, g)}
<1>1. SUFFICES T = {}
  BY DEF IsSum
<1>2. SUFFICES ASSUME T # {} PROVE FALSE
  OBVIOUS
<1>3. PICK m \in T : \A k \in T : m <= k
  <2>1. T \subseteq Nat  OBVIOUS
  <2> QED  BY <1>2, <2>1, LeastNumber
<1>4. m \in 0..Len(q) /\ ~\E g \in [0..m -> Nat] : To(m, g)
  OBVIOUS
<1>5. CASE m = 0
  <2> DEFINE g == [k \in 0..0 |-> 0]
  <2>1. g \in [0..0 -> Nat] /\ To(0, g)  OBVIOUS
  <2> QED  BY <1>4, <1>5, <2>1
<1>6. CASE m # 0
  <2>1. m - 1 \in 0..Len(q) /\ m - 1 \notin T
    <3>1. m - 1 \in 0..Len(q) /\ ~(m <= m - 1)  BY <1>4, <1>6
    <3> HIDE DEF T
    <3> QED  BY <1>3, <3>1
  <2>2. PICK g \in [0..(m - 1) -> Nat] : To(m - 1, g)  BY <2>1
  <2> DEFINE h == [k \in 0..m |-> IF k = m THEN g[m - 1] + q[m].frames ELSE g[k]]
  <2>3. h \in [0..m -> Nat]  BY <1>4, <1>6
  <2>4. \A k \in 0..(m - 1) : g[k] = IF k = 0 THEN 0 ELSE g[k - 1] + q[k].frames
    BY <2>2
  <2>5. \A k \in 0..m : h[k] = IF k = 0 THEN 0 ELSE h[k - 1] + q[k].frames
    <3> SUFFICES ASSUME NEW k \in 0..m
                 PROVE  h[k] = IF k = 0 THEN 0 ELSE h[k - 1] + q[k].frames
      OBVIOUS
    <3>1. k = m \/ k \in 0..(m - 1)  BY <1>4
    <3>2. CASE k = m
      <4>1. h[m] = g[m - 1] + q[m].frames  BY <1>4
      <4>2. m - 1 \in 0..m /\ m - 1 # m  BY <1>4, <1>6
      <4>3. h[m - 1] = g[m - 1]  BY <4>2
      <4> QED  BY <1>6, <3>2, <4>1, <4>3
    <3>3. CASE k \in 0..(m - 1)
      <4>1. k # m /\ h[k] = g[k]  BY <1>4, <3>3
      <4>2. CASE k = 0  BY <2>4, <3>3, <4>1, <4>2
      <4>3. CASE k # 0
        <5>1. k - 1 \in 0..m /\ k - 1 # m  BY <1>4, <3>3, <4>3
        <5>2. h[k - 1] = g[k - 1]  BY <5>1
        <5> QED  BY <2>4, <3>3, <4>1, <4>3, <5>2
      <4> QED  BY <4>2, <4>3
    <3> QED  BY <3>1, <3>2, <3>3
  <2>6. To(m, h)
    <3>1. h = [k \in 0..m |-> h[k]]  OBVIOUS
    <3> HIDE DEF h
    <3> QED  BY <2>5, <3>1
  <2> QED  BY <1>4, <2>3, <2>6
<1> QED  BY <1>5, <1>6

LEMMA SumUnique ==
  ASSUME NEW q, Len(q) \in Nat, NEW g, IsSum(g, q), NEW h, IsSum(h, q)
  PROVE  g = h
<1> DEFINE T == {n \in 0..Len(q) : g[n] # h[n]}
<1>1. ASSUME T # {} PROVE FALSE
  <2>1. PICK m \in T : \A k \in T : m <= k
    <3>1. T \subseteq Nat  OBVIOUS
    <3> QED  BY <1>1, <3>1, LeastNumber
  <2>2. m \in 0..Len(q) /\ g[m] # h[m]  OBVIOUS
  <2>3. /\ g[m] = IF m = 0 THEN 0 ELSE g[m - 1] + q[m].frames
        /\ h[m] = IF m = 0 THEN 0 ELSE h[m - 1] + q[m].frames
    BY <2>2 DEF IsSum
  <2>4. m # 0  BY <2>2, <2>3
  <2>5. m - 1 \in 0..Len(q) /\ m - 1 \notin T  BY <2>1, <2>2, <2>4
  <2>6. g[m - 1] = h[m - 1]  BY <2>5
  <2> QED  BY <2>2, <2>3, <2>4, <2>6
<1>2. \A n \in 0..Len(q) : g[n] = h[n]  BY <1>1
<1>3. g = [n \in 0..Len(q) |-> g[n]] /\ h = [n \in 0..Len(q) |-> h[n]]  BY DEF IsSum
<1> QED  BY <1>2, <1>3

\* Any such g gives the sum.
LEMMA SumIs ==
  ASSUME NEW q, Len(q) \in Nat, NEW g, IsSum(g, q)
  PROVE  FramesOf(q) = g[Len(q)]
<1> DEFINE s == CHOOSE f : IsSum(f, q)
<1>1. IsSum(s, q)  OBVIOUS
<1>2. s = g  BY <1>1, SumUnique
<1>3. FramesOf(q) = s[Len(q)]  BY DEF FramesOf, IsSum
<1> QED  BY <1>2, <1>3

\* A packet at the end adds its frames.
LEMMA SumAppend ==
  ASSUME NEW P, \A p \in P : p.frames \in Nat, NEW q \in Seq(P), NEW p \in P
  PROVE  /\ FramesOf(q) \in Nat
         /\ FramesOf(Append(q, p)) = FramesOf(q) + p.frames
<1> DEFINE r == Append(q, p)
<1>1. /\ r \in Seq(P) /\ Len(q) \in Nat /\ Len(r) = Len(q) + 1 /\ r[Len(q) + 1] = p
      /\ \A k \in 1..Len(q) : q[k] \in P /\ r[k] = q[k]
  BY AppendProperties, ElementOfSeq, LenProperties
<1> HIDE DEF r
<1>2. \A k \in 1..Len(r) : r[k].frames \in Nat  BY <1>1, ElementOfSeq
<1>3. PICK g \in [0..Len(r) -> Nat] : IsSum(g, r)  BY <1>1, <1>2, SumExists
<1> DEFINE h == [n \in 0..Len(q) |-> g[n]]
<1>4. \A n \in 0..Len(r) : g[n] = IF n = 0 THEN 0 ELSE g[n - 1] + r[n].frames
  BY <1>3 DEF IsSum
<1>5. IsSum(h, q)
  <2>1. ASSUME NEW n \in 0..Len(q)
        PROVE  h[n] = IF n = 0 THEN 0 ELSE h[n - 1] + q[n].frames
    <3>1. n \in 0..Len(r) /\ h[n] = g[n]  BY <1>1
    <3>2. CASE n = 0  BY <1>4, <3>1, <3>2
    <3>3. CASE n # 0
      <4>1. n - 1 \in 0..Len(q) /\ n \in 1..Len(q)  BY <1>1, <3>3
      <4>2. h[n - 1] = g[n - 1] /\ r[n] = q[n]  BY <1>1, <4>1
      <4> QED  BY <1>4, <3>1, <3>3, <4>2
    <3> QED  BY <3>2, <3>3
  <2>2. h = [n \in 0..Len(q) |-> h[n]]  OBVIOUS
  <2> HIDE DEF h
  <2> QED  BY <2>1, <2>2 DEF IsSum
<1>6. FramesOf(q) = h[Len(q)] /\ FramesOf(r) = g[Len(r)]  BY <1>1, <1>3, <1>5, SumIs
<1>7. h[Len(q)] = g[Len(q)] /\ g[Len(q)] \in Nat  BY <1>1, <1>3
<1>8. g[Len(r)] = g[Len(q)] + p.frames  BY <1>1, <1>4
<1> QED  BY <1>6, <1>7, <1>8 DEF r

LEMMA SumNat ==
  ASSUME NEW P, \A p \in P : p.frames \in Nat, NEW q \in Seq(P)
  PROVE  FramesOf(q) \in Nat
<1>1. Len(q) \in Nat /\ \A k \in 1..Len(q) : q[k].frames \in Nat
  BY LenProperties, ElementOfSeq
<1>2. PICK g \in [0..Len(q) -> Nat] : IsSum(g, q)  BY <1>1, SumExists
<1> QED  BY <1>1, <1>2, SumIs

LEMMA SumEmpty == FramesOf(<<>>) = 0
<1> DEFINE e == <<>>
<1>1. Len(e) = 0 /\ \A k \in 1..Len(e) : e[k].frames \in Nat  OBVIOUS
<1> HIDE DEF e
<1>2. PICK g : IsSum(g, e)  BY <1>1, SumExists
<1>3. FramesOf(e) = g[0] /\ g[0] = 0  BY <1>1, <1>2, SumIs DEF IsSum
<1> QED  BY <1>3 DEF e

\* Cutting a sequence in two cuts its sum in two.
LEMMA SumSplit ==
  ASSUME NEW P, \A p \in P : p.frames \in Nat, NEW q \in Seq(P), NEW n \in 0..Len(q)
  PROVE  /\ FramesOf(q) \in Nat /\ FramesOf(SubSeq(q, 1, n)) \in Nat
         /\ FramesOf(After(q, n)) \in Nat
         /\ FramesOf(q) = FramesOf(SubSeq(q, 1, n)) + FramesOf(After(q, n))
<1> DEFINE a == SubSeq(q, 1, n)
           b == After(q, n)
<1>1. Len(q) \in Nat /\ \A k \in 1..Len(q) : q[k] \in P /\ q[k].frames \in Nat
  BY LenProperties, ElementOfSeq
<1>2. Len(a) = n /\ \A k \in 1..n : a[k] = q[k]
  <2>1. \A i \in 1..n : q[i] \in P  BY <1>1
  <2> QED  BY <1>1, <2>1, SubSeqProperties
<1>3. Len(b) = Len(q) - n /\ \A k \in 1..Len(b) : b[k] = q[n + k]
  <2>1. \A i \in (n + 1)..Len(q) : q[i] \in P  BY <1>1
  <2>2. /\ Len(b) = IF n + 1 <= Len(q) THEN Len(q) - (n + 1) + 1 ELSE 0
        /\ \A i \in 1..(Len(q) - (n + 1) + 1) : b[i] = q[n + 1 + i - 1]
    BY <1>1, <2>1, SubSeqProperties DEF After
  <2> HIDE DEF b
  <2>3. Len(b) = Len(q) - n  BY <1>1, <2>2
  <2>4. ASSUME NEW k \in 1..Len(b) PROVE b[k] = q[n + k]
    <3>1. k \in 1..(Len(q) - (n + 1) + 1) /\ n + 1 + k - 1 = n + k  BY <1>1, <2>3
    <3> QED  BY <2>2, <3>1
  <2> QED  BY <2>3, <2>4
<1> HIDE DEF a, b
<1>4. PICK g \in [0..Len(q) -> Nat] : IsSum(g, q)  BY <1>1, SumExists
<1>5. \A k \in 0..Len(q) : g[k] = IF k = 0 THEN 0 ELSE g[k - 1] + q[k].frames
  BY <1>4 DEF IsSum
<1>6. FramesOf(q) = g[Len(q)]  BY <1>1, <1>4, SumIs
<1>7. FramesOf(a) = g[n]
  <2> DEFINE h == [k \in 0..Len(a) |-> g[k]]
  <2>1. ASSUME NEW k \in 0..Len(a)
        PROVE  h[k] = IF k = 0 THEN 0 ELSE h[k - 1] + a[k].frames
    <3>1. k \in 0..Len(q) /\ h[k] = g[k]  BY <1>1, <1>2
    <3>2. CASE k = 0  BY <1>5, <3>1, <3>2
    <3>3. CASE k # 0
      <4>1. k - 1 \in 0..Len(a) /\ k \in 1..n  BY <1>2, <3>3
      <4>2. h[k - 1] = g[k - 1] /\ a[k] = q[k]  BY <1>2, <4>1
      <4> QED  BY <1>5, <3>1, <3>3, <4>2
    <3> QED  BY <3>2, <3>3
  <2>2. h = [k \in 0..Len(a) |-> h[k]]  OBVIOUS
  <2>3. h[Len(a)] = g[n]  BY <1>2
  <2> HIDE DEF h
  <2>4. IsSum(h, a)  BY <2>1, <2>2 DEF IsSum
  <2>5. Len(a) \in Nat  BY <1>2
  <2> QED  BY <2>3, <2>4, <2>5, SumIs
<1>8. FramesOf(b) = g[Len(q)] - g[n]
  <2> DEFINE h == [k \in 0..Len(b) |-> g[n + k] - g[n]]
  <2>1. ASSUME NEW k \in 0..Len(b)
        PROVE  h[k] = IF k = 0 THEN 0 ELSE h[k - 1] + b[k].frames
    <3>1. n + k \in 0..Len(q) /\ n \in 0..Len(q) /\ h[k] = g[n + k] - g[n]
      BY <1>1, <1>3
    <3>2. CASE k = 0
      <4>1. n + k = n /\ g[n] \in Nat  BY <1>4, <3>1, <3>2
      <4> QED  BY <3>1, <3>2, <4>1
    <3>3. CASE k # 0
      <4>1. k - 1 \in 0..Len(b) /\ k \in 1..Len(b)  BY <1>1, <1>3, <3>3
      <4>2. h[k - 1] = g[n + (k - 1)] - g[n] /\ b[k] = q[n + k]  BY <1>3, <4>1
      <4>3. n + k # 0 /\ (n + k) - 1 = n + (k - 1) /\ n + k \in 1..Len(q)
        BY <3>1, <3>3, <4>1
      <4>4. g[n + k] = g[n + (k - 1)] + q[n + k].frames  BY <1>5, <3>1, <4>3
      <4>5. n + (k - 1) \in 0..Len(q)  BY <1>1, <1>3, <4>1
      <4>6. g[n + (k - 1)] \in Nat /\ q[n + k].frames \in Nat /\ g[n] \in Nat
        BY <1>1, <1>4, <3>1, <4>3, <4>5
      <4>7. h[k] = (g[n + (k - 1)] - g[n]) + q[n + k].frames
        BY <3>1, <4>4, <4>6
      <4> QED  BY <3>3, <4>2, <4>7
    <3> QED  BY <3>2, <3>3
  <2>2. h = [k \in 0..Len(b) |-> h[k]]  OBVIOUS
  <2>3. h[Len(b)] = g[Len(q)] - g[n]
    <3>1. Len(b) \in 0..Len(b) /\ n + Len(b) = Len(q)  BY <1>1, <1>3
    <3> QED  BY <3>1
  <2> HIDE DEF h
  <2>4. IsSum(h, b)  BY <2>1, <2>2 DEF IsSum
  <2>5. Len(b) \in Nat  BY <1>1, <1>3
  <2> QED  BY <2>3, <2>4, <2>5, SumIs
<1>9. g[n] \in Nat /\ g[Len(q)] \in Nat  BY <1>1, <1>4
<1>10. FramesOf(b) \in Nat
  <2>1. Len(b) \in Nat /\ \A k \in 1..Len(b) : b[k].frames \in Nat
    <3>1. Len(b) \in Nat  BY <1>1, <1>3
    <3>2. ASSUME NEW k \in 1..Len(b) PROVE b[k].frames \in Nat
      <4>1. n + k \in 1..Len(q) /\ b[k] = q[n + k]  BY <1>1, <1>3, <3>2
      <4> QED  BY <1>1, <4>1
    <3> QED  BY <3>1, <3>2
  <2>2. PICK f \in [0..Len(b) -> Nat] : IsSum(f, b)  BY <2>1, SumExists
  <2> QED  BY <2>1, <2>2, SumIs
<1> QED  BY <1>6, <1>7, <1>8, <1>9, <1>10 DEF a, b

-----------------------------------------------------------------------------
(* What the helpers of Segments return.                                    *)

LEMMA RoundDivNat ==
  ASSUME NEW n \in Nat, NEW d \in Nat \ {0}
  PROVE  RoundDiv(n, d) \in Nat
<1>1. n \div d \in Nat  OBVIOUS
<1> QED  BY <1>1 DEF RoundDiv

LEMMA RoundDivZero ==
  ASSUME NEW d \in Nat \ {0}
  PROVE  RoundDiv(0, d) = 0
<1>1. 0 \div d = 0 /\ 0 % d = 0  OBVIOUS
<1> QED  BY <1>1 DEF RoundDiv

LEMMA TakenInRange ==
  ASSUME NEW P, \A p \in P : p.frames \in Nat, NEW q \in Seq(P), NEW target \in Nat
  PROVE  /\ PacketsTaken(q, target) \in 0..Len(q)
         /\ \A m \in 0..(PacketsTaken(q, target) - 1) : FramesOf(SubSeq(q, 1, m)) < target
<1> DEFINE T == {n \in 0..Len(q) :
                   n = Len(q) \/ FramesOf(SubSeq(q, 1, n)) >= target}
<1>1. Len(q) \in Nat  BY LenProperties
<1>2. T \subseteq Nat /\ Len(q) \in T  BY <1>1
<1>3. PICK n \in T : \A k \in T : n <= k
  <2> HIDE DEF T
  <2> QED  BY <1>2, LeastNumber
<1>4. n \in 0..Len(q) /\ (n = Len(q) \/ FramesOf(SubSeq(q, 1, n)) >= target)  OBVIOUS
<1>5. ASSUME NEW m \in 0..(n - 1) PROVE FramesOf(SubSeq(q, 1, m)) < target
  <2>1. m \in 0..Len(q) /\ ~(n <= m)  BY <1>1, <1>4
  <2>2. m \notin T
    <3> HIDE DEF T
    <3> QED  BY <1>3, <2>1
  <2>3. ~(FramesOf(SubSeq(q, 1, m)) >= target)  BY <2>1, <2>2
  <2>4. FramesOf(SubSeq(q, 1, m)) \in Nat  BY <2>1, SumSplit
  <2> QED  BY <2>3, <2>4
<1> QED  BY <1>4, <1>5 DEF PacketsTaken

LEMMA Cut ==
  ASSUME NEW P, NEW q \in Seq(P), NEW n \in 0..Len(q)
  PROVE  /\ SubSeq(q, 1, n) \in Seq(P) /\ After(q, n) \in Seq(P)
         /\ Len(SubSeq(q, 1, n)) = n /\ Len(After(q, n)) = Len(q) - n
         /\ SubSeq(q, 1, n) \o After(q, n) = q
<1>1. Len(q) \in Nat /\ \A k \in 1..Len(q) : q[k] \in P  BY LenProperties, ElementOfSeq
<1>2. SubSeq(q, 1, n) \in Seq(P) /\ Len(SubSeq(q, 1, n)) = n
  <2>1. \A i \in 1..n : q[i] \in P  BY <1>1
  <2> QED  BY <1>1, <2>1, SubSeqProperties
<1>3. After(q, n) \in Seq(P) /\ Len(After(q, n)) = Len(q) - n
  <2>1. \A i \in (n + 1)..Len(q) : q[i] \in P  BY <1>1
  <2>2. /\ After(q, n) \in Seq(P)
        /\ Len(After(q, n)) = IF n + 1 <= Len(q) THEN Len(q) - (n + 1) + 1 ELSE 0
    BY <1>1, <2>1, SubSeqProperties DEF After
  <2> QED  BY <1>1, <2>2
<1>4. SubSeq(q, 1, n) \o SubSeq(q, n + 1, Len(q)) = SubSeq(q, 1, Len(q))
  <2>1. 1 \in 1..(Len(q) + 1) /\ n \in (1 - 1)..Len(q) /\ Len(q) \in n..Len(q)
    BY <1>1
  <2> QED  BY <2>1, ConcatAdjacentSubSeq
<1>5. SubSeq(q, 1, Len(q)) = q  BY SubSeqFull
<1> QED  BY <1>2, <1>3, <1>4, <1>5 DEF After

LEMMA CutTwice ==
  ASSUME NEW P, NEW q \in Seq(P), NEW n \in 0..Len(q), NEW m \in 0..n
  PROVE  SubSeq(SubSeq(q, 1, n), 1, m) = SubSeq(q, 1, m)
<1>1. Len(q) \in Nat  BY LenProperties
<1>2. CASE m = 0
  <2>1. SubSeq(SubSeq(q, 1, n), 1, 0) = <<>> /\ SubSeq(q, 1, 0) = <<>>  BY SubSeqEmpty
  <2> QED  BY <1>2, <2>1
<1>3. CASE m # 0
  <2>1. /\ 1 \in 1..Len(q) /\ n \in 1..Len(q)
        /\ 1 \in 1..(n - 1 + 1) /\ m \in 1..(n - 1 + 1)
    BY <1>1, <1>3
  <2>2. SubSeq(SubSeq(q, 1, n), 1, m) = SubSeq(q, 1 + 1 - 1, 1 + m - 1)
    BY <2>1, SubSeqOfSubSeq
  <2>3. 1 + 1 - 1 = 1 /\ 1 + m - 1 = m  BY <1>1
  <2> QED  BY <2>2, <2>3
<1> QED  BY <1>2, <1>3

LEMMA Times ==
  /\ \A a, b \in Nat : a * b \in Nat
  /\ \A a, b, n \in Nat : (a + b) * n = a * n + b * n
OBVIOUS

LEMMA TimesMonotone ==
  ASSUME NEW a \in Nat, NEW b \in Nat, NEW n \in Nat, a <= b
  PROVE  a * n <= b * n
<1>1. PICK c \in Nat : b = a + c
  <2> WITNESS b - a \in Nat
  <2> QED  OBVIOUS
<1>2. (a + c) * n = a * n + c * n  OBVIOUS
<1>3. a * n \in Nat /\ c * n \in Nat  OBVIOUS
<1> QED  BY <1>1, <1>2, <1>3

LEMMA StaysBelow ==
  ASSUME NEW a \in Nat, NEW b \in Nat, NEW n \in Nat, NEW c \in Nat, a <= b, b * n < c
  PROVE  a * n < c
<1>1. PICK x \in Nat : x = a * n  BY Times
<1>2. PICK y \in Nat : y = b * n  BY Times
<1>3. x <= y /\ y < c  BY <1>1, <1>2, TimesMonotone
<1>4. x < c  BY ONLY <1>3, x \in Nat, y \in Nat, c \in Nat
<1> QED  BY <1>1, <1>4

\* Packets of at least n frames are no more than their frames have room for.
LEMMA FewPackets ==
  ASSUME NEW n \in Nat, NEW P, \A p \in P : p.frames \in Nat /\ n <= p.frames,
         NEW q \in Seq(P)
  PROVE  Len(q) * n <= FramesOf(q)
<1>1. Len(q) \in Nat /\ \A m \in 1..Len(q) : q[m].frames \in Nat /\ n <= q[m].frames
  BY LenProperties, ElementOfSeq
<1>2. PICK g \in [0..Len(q) -> Nat] : IsSum(g, q)  BY <1>1, SumExists
<1>3. \A m \in 0..Len(q) : g[m] = IF m = 0 THEN 0 ELSE g[m - 1] + q[m].frames
  BY <1>2 DEF IsSum
<1>4. \A a, b, c, d \in Nat : a <= b /\ c <= d => a + c <= b + d  OBVIOUS
<1> DEFINE T == {m \in 0..Len(q) : ~(m * n <= g[m])}
<1>5. ASSUME T # {} PROVE FALSE
  <2>1. PICK m \in T : \A l \in T : m <= l
    <3>1. T \subseteq Nat  OBVIOUS
    <3> HIDE DEF T
    <3> QED  BY <1>5, <3>1, LeastNumber
  <2>2. m \in 0..Len(q) /\ ~(m * n <= g[m])  OBVIOUS
  <2>3. m # 0
    <3>1. 0 * n = 0  OBVIOUS
    <3>2. 0 \in 0..Len(q) /\ g[0] = 0  BY <1>1, <1>3
    <3> QED  BY <2>2, <3>1, <3>2
  <2>4. m - 1 \in 0..Len(q) /\ m \in 1..Len(q) /\ ~(m <= m - 1)  BY <1>1, <2>2, <2>3
  <2>5. m - 1 \notin T
    <3> HIDE DEF T
    <3> QED  BY <2>1, <2>4
  <2>6. PICK l \in Nat : l = m - 1  BY <2>4
  <2>7. l * n <= g[l] /\ g[l] \in Nat  BY <1>2, <2>4, <2>5, <2>6
  <2>8. g[m] = g[l] + q[m].frames  BY <1>3, <2>2, <2>3, <2>6
  <2>9. PICK x \in Nat : x = l * n /\ (l + 1) * n = x + n  OBVIOUS
  <2>10. m * n = x + n  BY <1>1, <2>4, <2>6, <2>9
  <2>11. PICK y \in Nat : y = g[l] /\ x <= y  BY <2>7, <2>9
  <2>12. PICK z \in Nat : z = q[m].frames /\ n <= z  BY <1>1, <2>4
  <2>13. x + n <= y + z  BY <1>4, <2>11, <2>12, Zenon
  <2> QED  BY <2>2, <2>8, <2>10, <2>11, <2>12, <2>13
<1>6. Len(q) * n <= g[Len(q)]
  <2>1. Len(q) \in 0..Len(q) /\ Len(q) \notin T  BY <1>1, <1>5
  <2> QED  BY <2>1
<1> QED  BY <1>1, <1>2, <1>6, SumIs

LEMMA FirstAndRest ==
  ASSUME NEW P, NEW q \in Seq(P)
  PROVE  /\ First(q) \in Seq(P) /\ Rest(q) \in Seq(P)
         /\ First(q) \o Rest(q) = q
         /\ Len(First(q)) + Len(Rest(q)) = Len(q)
<1>1. CASE q = <<>>
  <2>1. Rest(q) = <<>> /\ First(q) = <<>>
    <3>1. Len(<<>>) = 0  OBVIOUS
    <3>2. SubSeq(q, 2, 0) = <<>>  BY SubSeqEmpty
    <3> QED  BY <1>1, <3>1, <3>2 DEF First, Rest
  <2>2. q \o <<>> = q  BY ConcatEmptySeq
  <2>3. <<>> \o <<>> = <<>>  BY <1>1, <2>2
  <2>4. <<>> \in Seq(P) /\ Len(<<>>) = 0  BY EmptySeq
  <2>5. Len(<<>>) + Len(<<>>) = Len(<<>>)  BY <2>4
  <2> QED  BY <1>1, <2>1, <2>3, <2>4, <2>5, Zenon
<1>2. CASE q # <<>>
  <2>1. Len(q) \in Nat /\ Len(q) >= 1  BY <1>2, EmptySeq
  <2>2. /\ SubSeq(q, 1, 1) \in Seq(P) /\ After(q, 1) \in Seq(P)
        /\ Len(SubSeq(q, 1, 1)) = 1 /\ Len(After(q, 1)) = Len(q) - 1
        /\ SubSeq(q, 1, 1) \o After(q, 1) = q
    <3>1. 1 \in 0..Len(q)  BY <2>1
    <3> QED  BY <3>1, Cut
  <2>3. After(q, 1) = Rest(q)  BY DEF After, Rest
  <2>4. SubSeq(q, 1, 1) = First(q)
    <3>1. \A i \in 1..1 : q[i] \in P  BY <2>1, ElementOfSeq
    <3>2. \A i \in 1..(1 - 1 + 1) : SubSeq(q, 1, 1)[i] = q[1 + i - 1]
      BY <3>1, SubSeqProperties
    <3>3. SubSeq(q, 1, 1)[1] = q[1]  BY <3>2
    <3>4. Head(q) = q[1] /\ Head(q) \in P  BY <1>2, <2>1, HeadTailProperties
    <3> DEFINE s == SubSeq(q, 1, 1)
    <3>5. s \in Seq(P) /\ Len(s) = 1 /\ s[1] = Head(q)  BY <2>2, <3>3, <3>4
    <3> HIDE DEF s
    <3>6. <<Head(q)>> \in Seq(P) /\ Len(<<Head(q)>>) = 1 /\ <<Head(q)>>[1] = Head(q)
      BY <3>4
    <3>7. \A i \in 1..Len(s) : s[i] = <<Head(q)>>[i]
      <4>1. \A i \in 1..Len(s) : i = 1  BY <3>5
      <4> QED  BY <3>5, <3>6, <4>1
    <3>8. s = <<Head(q)>>  BY <3>5, <3>6, <3>7, SeqEqual
    <3> QED  BY <1>2, <3>8 DEF First, s
  <2>5. PICK f : f = First(q)  OBVIOUS
  <2>6. PICK r : r = Rest(q)  OBVIOUS
  <2>7. f \in Seq(P) /\ r \in Seq(P) /\ Len(f) = 1 /\ Len(r) = Len(q) - 1 /\ f \o r = q
    BY <2>2, <2>3, <2>4, <2>5, <2>6
  <2>8. Len(f) + Len(r) = Len(q)  BY <2>1, <2>7
  <2> QED  BY <2>5, <2>6, <2>7, <2>8
<1> QED  BY <1>1, <1>2

LEMMA RestLength ==
  ASSUME NEW P, NEW q \in Seq(P)
  PROVE  Len(Rest(q)) \in Nat /\ Len(Rest(q)) = IF q = <<>> THEN 0 ELSE Len(q) - 1
<1>1. Len(q) \in Nat  BY LenProperties
<1>2. Rest(q) \in Seq(P) /\ Len(First(q)) + Len(Rest(q)) = Len(q)  BY FirstAndRest
<1>3. PICK r \in Nat : r = Len(Rest(q))  BY <1>2, LenProperties
<1>4. Len(First(q)) = IF q = <<>> THEN 0 ELSE 1  BY EmptySeq DEF First
<1>5. q = <<>> => Len(q) = 0  BY EmptySeq
<1> QED  BY <1>1, <1>2, <1>3, <1>4, <1>5

LEMMA NumbersOf ==
  ASSUME NEW P, \A p \in P : p.number \in Nat, NEW q \in Seq(P)
  PROVE  /\ Numbers(q) \in Seq(Nat) /\ Len(Numbers(q)) = Len(q)
         /\ \A k \in 1..Len(q) : Numbers(q)[k] = q[k].number
<1>1. Len(q) \in Nat /\ \A k \in 1..Len(q) : q[k] \in P  BY LenProperties, ElementOfSeq
<1>2. \A k \in 1..Len(q) : q[k].number \in Nat  BY <1>1
<1>3. PICK m \in Nat : m = Len(q)  BY <1>1
<1>4. [k \in 1..m |-> q[k].number] \in [1..m -> Nat]  BY <1>2, <1>3
<1>5. [k \in 1..m |-> q[k].number] \in Seq(Nat)  BY <1>4, SeqDef
<1>6. Len([k \in 1..m |-> q[k].number]) = m
  BY <1>4, <1>5, LenProperties
<1> QED  BY <1>3, <1>5, <1>6 DEF Numbers

LEMMA NumbersConcat ==
  ASSUME NEW P, \A p \in P : p.number \in Nat, NEW q \in Seq(P), NEW r \in Seq(P)
  PROVE  Numbers(q \o r) = Numbers(q) \o Numbers(r)
<1>1. /\ q \o r \in Seq(P) /\ Len(q \o r) = Len(q) + Len(r)
      /\ \A i \in 1..(Len(q) + Len(r)) :
           (q \o r)[i] = IF i <= Len(q) THEN q[i] ELSE r[i - Len(q)]
  BY ConcatProperties
<1>2. Len(q) \in Nat /\ Len(r) \in Nat  BY LenProperties
<1>3. PICK s : s = q \o r  OBVIOUS
<1>4. PICK a : a = Numbers(q)  OBVIOUS
<1>5. PICK b : b = Numbers(r)  OBVIOUS
<1>6. PICK c : c = Numbers(s)  OBVIOUS
<1>7. /\ a \in Seq(Nat) /\ Len(a) = Len(q) /\ \A k \in 1..Len(q) : a[k] = q[k].number
      /\ b \in Seq(Nat) /\ Len(b) = Len(r) /\ \A k \in 1..Len(r) : b[k] = r[k].number
      /\ c \in Seq(Nat) /\ Len(c) = Len(s) /\ \A k \in 1..Len(s) : c[k] = s[k].number
  BY <1>1, <1>3, <1>4, <1>5, <1>6, NumbersOf
<1>8. PICK d : d = a \o b  OBVIOUS
<1>9. /\ d \in Seq(Nat) /\ Len(d) = Len(a) + Len(b)
      /\ \A i \in 1..(Len(a) + Len(b)) : d[i] = IF i <= Len(a) THEN a[i] ELSE b[i - Len(a)]
  BY <1>7, <1>8, ConcatProperties
<1>10. Len(c) = Len(d)  BY <1>1, <1>3, <1>7, <1>9
<1>11. ASSUME NEW i \in 1..Len(c) PROVE c[i] = d[i]
  <2>1. /\ i \in 1..(Len(q) + Len(r)) /\ c[i] = s[i].number
        /\ s[i] = IF i <= Len(q) THEN q[i] ELSE r[i - Len(q)]
        /\ d[i] = IF i <= Len(q) THEN a[i] ELSE b[i - Len(q)]
    BY <1>1, <1>3, <1>7, <1>9, <1>11
  <2>2. CASE i <= Len(q)
    <3>1. i \in 1..Len(q)  BY <1>2, <2>1, <2>2
    <3> QED  BY <1>7, <2>1, <2>2, <3>1
  <2>3. CASE ~(i <= Len(q))
    <3>1. i - Len(q) \in 1..Len(r)  BY <1>2, <2>1, <2>3
    <3> QED  BY <1>7, <2>1, <2>3, <3>1
  <2> QED  BY <2>2, <2>3
<1>12. c = d  BY <1>7, <1>9, <1>10, <1>11, SeqEqual
<1> QED  BY <1>3, <1>4, <1>5, <1>6, <1>8, <1>12

LEMMA NumbersEmpty == Numbers(<<>>) = <<>>
<1> DEFINE e == <<>>
<1>1. e \in Seq({}) /\ Len(e) = 0  BY EmptySeq
<1> HIDE DEF e
<1>2. Numbers(e) \in Seq(Nat) /\ Len(Numbers(e)) = 0  BY <1>1, NumbersOf
<1>3. Numbers(e) = <<>>  BY <1>2, EmptySeq
<1> QED  BY <1>3 DEF e

-----------------------------------------------------------------------------
(* The order in which packets leave.                                       *)

\* q lists numbers up to top, each once and in order.
InOrder(q, top) ==
  /\ \A k \in 1..Len(q) : 0 < q[k] /\ q[k] <= top
  /\ \A j, k \in 1..Len(q) : j < k => q[j] < q[k]

ItemsOf(q) == {q[k] : k \in 1..Len(q)}

\* Before a step s was sent or held and a had arrived; after it t and b.
Follows(s, a, t, b) == InOrder(t, b) /\ ItemsOf(t) \subseteq ItemsOf(s) \cup (a + 1)..b

\* Nothing is added.
LEMMA FollowsKept ==
  ASSUME NEW s \in Seq(Nat), NEW a \in Nat, NEW b \in Nat, a <= b, InOrder(s, a)
  PROVE  Follows(s, a, s, b)
<1>1. \A k \in 1..Len(s) : s[k] \in Nat /\ 0 < s[k] /\ s[k] <= a
  BY ElementOfSeq DEF InOrder
<1>2. \A k \in 1..Len(s) : 0 < s[k] /\ s[k] <= b  BY <1>1
<1>3. \A j, k \in 1..Len(s) : j < k => s[j] < s[k]  BY DEF InOrder
<1> QED  BY <1>2, <1>3 DEF Follows, InOrder

\* The packet that arrives is put at the end.
LEMMA FollowsAppended ==
  ASSUME NEW s \in Seq(Nat), NEW a \in Nat, InOrder(s, a)
  PROVE  Follows(s, a, Append(s, a + 1), a + 1)
<1>1. PICK t : t = Append(s, a + 1)  OBVIOUS
<1>2. /\ Len(s) \in Nat /\ Len(t) = Len(s) + 1 /\ t[Len(s) + 1] = a + 1
      /\ \A k \in 1..Len(s) : t[k] = s[k]
  BY <1>1, AppendProperties, LenProperties
<1>3. \A k \in 1..Len(s) : s[k] \in Nat /\ 0 < s[k] /\ s[k] <= a
  BY ElementOfSeq DEF InOrder
<1>4. \A k \in 1..Len(t) : k \in 1..Len(s) \/ k = Len(s) + 1  BY <1>2
<1>5. \A k \in 1..Len(t) : 0 < t[k] /\ t[k] <= a + 1  BY <1>2, <1>3, <1>4
<1>6. ASSUME NEW j \in 1..Len(t), NEW k \in 1..Len(t), j < k PROVE t[j] < t[k]
  <2>1. j \in 1..Len(s)  BY <1>2, <1>6
  <2>2. CASE k \in 1..Len(s)  BY <1>2, <1>6, <2>1, <2>2 DEF InOrder
  <2>3. CASE k = Len(s) + 1  BY <1>2, <1>3, <2>1, <2>3
  <2> QED  BY <1>4, <2>2, <2>3
<1>7. ASSUME NEW k \in 1..Len(t) PROVE t[k] \in ItemsOf(s) \cup (a + 1)..(a + 1)
  <2>1. CASE k \in 1..Len(s)
    <3>1. t[k] = s[k]  BY <1>2, <2>1
    <3> QED  BY <2>1, <3>1 DEF ItemsOf
  <2>2. CASE k = Len(s) + 1  BY <1>2, <2>2
  <2> QED  BY <1>4, <2>1, <2>2
<1>8. ItemsOf(t) \subseteq ItemsOf(s) \cup (a + 1)..(a + 1)
  <2>1. \A x \in ItemsOf(t) : \E k \in 1..Len(t) : x = t[k]  BY DEF ItemsOf
  <2> QED  BY <1>7, <2>1
<1>9. InOrder(t, a + 1)  BY <1>5, <1>6 DEF InOrder
<1> QED  BY <1>1, <1>8, <1>9 DEF Follows

\* What is lost from the middle (or the end) disturbs nothing.
LEMMA FollowsLost ==
  ASSUME NEW s, NEW a, NEW b, NEW x \in Seq(Nat), NEW y \in Seq(Nat), NEW z \in Seq(Nat),
         Follows(s, a, x \o (y \o z), b)
  PROVE  Follows(s, a, x \o z, b)
<1>1. PICK yz \in Seq(Nat) : yz = y \o z  BY ConcatProperties
<1>2. PICK u : u = x \o yz  OBVIOUS
<1>3. PICK t : t = x \o z  OBVIOUS
<1>4. /\ Len(x) \in Nat /\ Len(y) \in Nat /\ Len(z) \in Nat  BY LenProperties
<1>5. /\ Len(yz) = Len(y) + Len(z)
      /\ \A i \in 1..(Len(y) + Len(z)) : yz[i] = IF i <= Len(y) THEN y[i] ELSE z[i - Len(y)]
  BY <1>1, ConcatProperties
<1>6. /\ Len(u) = Len(x) + Len(yz)
      /\ \A i \in 1..(Len(x) + Len(yz)) : u[i] = IF i <= Len(x) THEN x[i] ELSE yz[i - Len(x)]
  <2>1. /\ Len(x \o yz) = Len(x) + Len(yz)
        /\ \A i \in 1..(Len(x) + Len(yz)) :
             (x \o yz)[i] = IF i <= Len(x) THEN x[i] ELSE yz[i - Len(x)]
    BY ONLY x \in Seq(Nat), yz \in Seq(Nat), ConcatProperties
  <2> QED  BY ONLY <1>2, <2>1
<1>7. /\ Len(t) = Len(x) + Len(z)
      /\ \A i \in 1..(Len(x) + Len(z)) : t[i] = IF i <= Len(x) THEN x[i] ELSE z[i - Len(x)]
  BY <1>3, ConcatProperties
<1> DEFINE e(k) == IF k <= Len(x) THEN k ELSE k + Len(y)
<1>8. ASSUME NEW k \in 1..Len(t) PROVE e(k) \in 1..Len(u) /\ t[k] = u[e(k)]
  <2>1. CASE k <= Len(x)
    <3>1. k \in 1..(Len(x) + Len(yz)) /\ k \in 1..(Len(x) + Len(z)) /\ e(k) = k
      BY <1>4, <1>5, <1>7, <2>1
    <3> QED  BY <1>6, <1>7, <2>1, <3>1
  <2>2. CASE ~(k <= Len(x))
    <3>1. /\ e(k) = k + Len(y) /\ k \in 1..(Len(x) + Len(z))
          /\ e(k) \in 1..(Len(x) + Len(yz)) /\ ~(e(k) <= Len(x))
      BY <1>4, <1>5, <1>7, <2>2
    <3>2. /\ e(k) - Len(x) \in 1..(Len(y) + Len(z)) /\ ~(e(k) - Len(x) <= Len(y))
          /\ e(k) - Len(x) - Len(y) = k - Len(x)
      BY <1>4, <1>7, <2>2, <3>1
    <3> HIDE DEF e
    <3>3. u[e(k)] = yz[e(k) - Len(x)]  BY <1>6, <3>1
    <3>4. yz[e(k) - Len(x)] = z[k - Len(x)]  BY <1>5, <3>2
    <3>5. t[k] = z[k - Len(x)]  BY <1>7, <2>2, <3>1
    <3> QED  BY <1>6, <3>1, <3>3, <3>4, <3>5
  <2> QED  BY <2>1, <2>2
<1>9. ASSUME NEW j \in 1..Len(t), NEW k \in 1..Len(t), j < k PROVE e(j) < e(k)
  BY <1>4, <1>7, <1>9
<1> HIDE DEF e
<1>10. InOrder(u, b) /\ ItemsOf(u) \subseteq ItemsOf(s) \cup (a + 1)..b
  BY <1>1, <1>2 DEF Follows
<1>11. InOrder(t, b)
  <2>1. \A k \in 1..Len(t) : 0 < t[k] /\ t[k] <= b  BY <1>8, <1>10 DEF InOrder
  <2>2. ASSUME NEW j \in 1..Len(t), NEW k \in 1..Len(t), j < k PROVE t[j] < t[k]
    <3>1. e(j) < e(k)  BY <1>9, <2>2
    <3> QED  BY <1>8, <1>10, <3>1 DEF InOrder
  <2> QED  BY <2>1, <2>2 DEF InOrder
<1>12. ItemsOf(t) \subseteq ItemsOf(u)
  <2>1. \A k \in 1..Len(t) : t[k] \in ItemsOf(u)  BY <1>8 DEF ItemsOf
  <2> QED  BY <2>1 DEF ItemsOf
<1> QED  BY <1>3, <1>10, <1>11, <1>12 DEF Follows

\* Regrouping of joined sequences, in the form the processors need it.
LEMMA Associative ==
  ASSUME NEW P, NEW f \in Seq(P), NEW r \in Seq(P), NEW a \in Seq(P),
         NEW ra, ra = r \o a
  PROVE  (f \o r) \o a = f \o ra
<1>1. (f \o r) \o a = f \o (r \o a)
  BY ONLY f \in Seq(P), r \in Seq(P), a \in Seq(P)
<1> QED  BY <1>1

\* What is sent, or is yet to be; and the join of two sequences, as operators of
\* their own, which the proofs below need not look into.
Sending(o, q) == o \o Numbers(q)
Joined(q, r) == q \o r

\* The outputs f leave, h stays.
LEMMA Leaving ==
  ASSUME NEW P, \A p \in P : p.number \in Nat, NEW o \in Seq(Nat),
         NEW f \in Seq(P), NEW h \in Seq(P)
  PROVE  Sending(o, Joined(f, h)) = Sending(o, f) \o Numbers(h)
<1>1. Numbers(f \o h) = Numbers(f) \o Numbers(h)  BY NumbersConcat
<1>2. Numbers(f) \in Seq(Nat) /\ Numbers(h) \in Seq(Nat)  BY NumbersOf
<1>3. PICK n : n = Numbers(f)  OBVIOUS
<1>4. PICK m : m = Numbers(h)  OBVIOUS
<1>5. n \in Seq(Nat)  BY <1>2, <1>3
<1>6. m \in Seq(Nat)  BY <1>2, <1>4
<1>7. (o \o n) \o m = o \o (n \o m)
  BY ONLY o \in Seq(Nat), <1>5, <1>6, Associative, SMTT(30)
<1> QED  BY <1>1, <1>3, <1>4, <1>7 DEF Sending, Joined

LEMMA JoinedIs ==
  ASSUME NEW P, NEW f \in Seq(P), NEW r \in Seq(P)
  PROVE  /\ Joined(f, r) \in Seq(P) /\ Len(Joined(f, r)) = Len(f) + Len(r)
         /\ Joined(f, <<>>) = f /\ Joined(<<>>, f) = f
BY ConcatProperties, ConcatEmptySeq DEF Joined

LEMMA JoinedAssociative ==
  ASSUME NEW P, NEW f \in Seq(P), NEW r \in Seq(P), NEW a \in Seq(P)
  PROVE  Joined(Joined(f, r), a) = Joined(f, Joined(r, a))
<1>1. (f \o r) \o a = f \o (r \o a)
  BY ONLY f \in Seq(P), r \in Seq(P), a \in Seq(P)
<1> QED  BY <1>1 DEF Joined

LEMMA JoinedAppend ==
  ASSUME NEW P, NEW f \in Seq(P), NEW r \in Seq(P), NEW p \in P
  PROVE  Joined(f, Append(r, p)) = Append(Joined(f, r), p)
<1>1. f \o Append(r, p) = Append(f \o r, p)
  BY ONLY f \in Seq(P), r \in Seq(P), p \in P
<1> QED  BY <1>1 DEF Joined

\* A packet behind those that were held is behind all.
LEMMA AppendedBehind ==
  ASSUME NEW P, \A p \in P : p.number \in Nat, NEW o \in Seq(Nat),
         NEW q \in Seq(P), NEW p \in P
  PROVE  Sending(o, Append(q, p)) = Append(Sending(o, q), p.number)
<1>1. PICK n \in Nat : n = p.number  OBVIOUS
<1>2. PICK m \in Seq(Nat) : m = Numbers(q)  BY NumbersOf
<1>3. <<p>> \in Seq(P) /\ Append(q, p) = q \o <<p>>  BY AppendIsConcat
<1>4. Numbers(<<p>>) = <<n>>  BY <1>1 DEF Numbers
<1>5. Numbers(Append(q, p)) = m \o <<n>>  BY <1>2, <1>3, <1>4, NumbersConcat
<1>6. o \o (m \o <<n>>) = (o \o m) \o <<n>>
  <2>1. <<n>> \in Seq(Nat)  OBVIOUS
  <2> QED  BY <2>1, ConcatAssociative
<1>7. PICK om \in Seq(Nat) : om = o \o m  BY ConcatProperties
<1>8. om \o <<n>> = Append(om, n)  BY AppendIsConcat
<1> QED  BY <1>1, <1>2, <1>5, <1>6, <1>7, <1>8 DEF Sending

\* What leaves is put behind what has left.
LEMMA LeavesBehind ==
  ASSUME NEW T, NEW o \in Seq(T), NEW x \in Seq(T)
  PROVE  Len(o) <= Len(o \o x) /\ \A k \in 1..Len(o) : o[k] = (o \o x)[k]
<1>1. Len(o) \in Nat /\ Len(x) \in Nat  BY LenProperties
<1>2. /\ Len(o \o x) = Len(o) + Len(x)
      /\ \A i \in 1..(Len(o) + Len(x)) :
           (o \o x)[i] = IF i <= Len(o) THEN o[i] ELSE x[i - Len(o)]
  BY ConcatProperties
<1>3. PICK ox : ox = o \o x  OBVIOUS
<1>4. \A k \in 1..Len(o) : k \in 1..(Len(o) + Len(x)) /\ k <= Len(o)  BY <1>1
<1>5. Len(o) <= Len(ox) /\ \A k \in 1..Len(o) : o[k] = ox[k]
  BY ONLY <1>1, <1>2, <1>3, <1>4
<1> QED  BY <1>3, <1>5

\* A segment, or dropped packets, vanish between those before and those behind.
LEMMA SegmentLost ==
  ASSUME NEW P, \A p \in P : p.number \in Nat, NEW o \in Seq(Nat),
         NEW r \in Seq(P), NEW a \in Seq(P), NEW i \in Seq(P), NEW s, NEW m, NEW n,
         Follows(s, m, Sending(o, Joined(Joined(r, a), i)), n)
  PROVE  Follows(s, m, Sending(o, Joined(r, i)), n)
<1>1. PICK ai : ai = a \o i  OBVIOUS
<1>2. PICK x : x = o \o Numbers(r)  OBVIOUS
<1>3. PICK y : y = Numbers(a)  OBVIOUS
<1>4. PICK z : z = Numbers(i)  OBVIOUS
<1>5. PICK yz : yz = Numbers(ai)  OBVIOUS
<1>6. x \in Seq(Nat) /\ y \in Seq(Nat) /\ z \in Seq(Nat)
  BY <1>2, <1>3, <1>4, NumbersOf, ConcatProperties
<1>7. ai \in Seq(P)  BY <1>1, ConcatProperties
<1>8. (r \o a) \o i = r \o ai
  BY ONLY r \in Seq(P), a \in Seq(P), i \in Seq(P), <1>1, Associative
<1>9. o \o Numbers(r \o ai) = x \o yz
  <2>1. Sending(o, Joined(r, ai)) = Sending(o, r) \o Numbers(ai)  BY <1>7, Leaving, Zenon
  <2> QED  BY <1>2, <1>5, <2>1 DEF Sending, Joined
<1>10. yz = y \o z  BY <1>1, <1>3, <1>4, <1>5, NumbersConcat
<1>11. Follows(s, m, x \o (y \o z), n)  BY <1>1, <1>8, <1>9, <1>10 DEF Sending, Joined
<1>12. Follows(s, m, x \o z, n)  BY <1>6, <1>11, FollowsLost
<1>13. o \o Numbers(r \o i) = x \o z
  <2>1. Sending(o, Joined(r, i)) = Sending(o, r) \o Numbers(i)  BY Leaving, Zenon
  <2> QED  BY <1>2, <1>4, <2>1 DEF Sending, Joined
<1> QED  BY <1>12, <1>13 DEF Sending, Joined

LEMMA AllLost ==
  ASSUME NEW P, \A p \in P : p.number \in Nat, NEW o \in Seq(Nat),
         NEW h \in Seq(P), NEW s, NEW m, NEW n,
         Follows(s, m, Sending(o, h), n)
  PROVE  Follows(s, m, Sending(o, <<>>), n)
<1>1. PICK y : y = Numbers(h)  OBVIOUS
<1>2. y \in Seq(Nat)  BY <1>1, NumbersOf
<1>3. y \o <<>> = y  BY <1>2, ConcatEmptySeq
<1>4. PICK z \in Seq(Nat) : z = <<>>  BY EmptySeq
<1>5. Follows(s, m, o \o (y \o z), n)  BY <1>1, <1>3, <1>4 DEF Sending
<1>6. Follows(s, m, o \o z, n)  BY <1>2, <1>5, FollowsLost
<1> QED  BY <1>4, <1>6, NumbersEmpty DEF Sending

-----------------------------------------------------------------------------
(* Subsequences: what is left when any items are lost.                     *)

\* t is s without some of its items.
Subsequence(t, s) ==
  \E f \in [1..Len(t) -> 1..Len(s)] :
    /\ \A j, k \in 1..Len(t) : j < k => f[j] < f[k]
    /\ \A k \in 1..Len(t) : t[k] = s[f[k]]

LEMMA SubsequenceSelf ==
  ASSUME NEW T, NEW s \in Seq(T)
  PROVE  Subsequence(s, s)
<1>1. Len(s) \in Nat  BY LenProperties
<1> DEFINE f == [k \in 1..Len(s) |-> k]
<1>2. f \in [1..Len(s) -> 1..Len(s)]  OBVIOUS
<1>3. \A j, k \in 1..Len(s) : j < k => f[j] < f[k]  OBVIOUS
<1>4. \A k \in 1..Len(s) : s[k] = s[f[k]]  OBVIOUS
<1> HIDE DEF f
<1> QED  BY <1>2, <1>3, <1>4 DEF Subsequence

LEMMA SubsequenceEmpty ==
  ASSUME NEW s
  PROVE  Subsequence(<<>>, s)
<1> DEFINE e == <<>>
<1>1. 1..Len(e) = {}  OBVIOUS
<1> HIDE DEF e
<1> DEFINE f == [k \in 1..Len(e) |-> k]
<1>2. f \in [1..Len(e) -> 1..Len(s)]  BY <1>1
<1>3. Subsequence(e, s)  BY <1>1, <1>2 DEF Subsequence
<1> QED  BY <1>3 DEF e

LEMMA SubsequenceTransitive ==
  ASSUME NEW s, NEW t, NEW u, Len(u) \in Nat, Subsequence(t, s), Subsequence(u, t)
  PROVE  Subsequence(u, s)
<1>1. PICK f \in [1..Len(t) -> 1..Len(s)] :
        /\ \A j, k \in 1..Len(t) : j < k => f[j] < f[k]
        /\ \A k \in 1..Len(t) : t[k] = s[f[k]]
  BY DEF Subsequence
<1>2. PICK g \in [1..Len(u) -> 1..Len(t)] :
        /\ \A j, k \in 1..Len(u) : j < k => g[j] < g[k]
        /\ \A k \in 1..Len(u) : u[k] = t[g[k]]
  BY DEF Subsequence
<1> DEFINE h == [k \in 1..Len(u) |-> f[g[k]]]
<1>3. \A k \in 1..Len(u) : g[k] \in 1..Len(t) /\ h[k] = f[g[k]]  BY <1>2
<1>4. h \in [1..Len(u) -> 1..Len(s)]  BY <1>1, <1>3
<1> HIDE DEF h
<1>5. \A j, k \in 1..Len(u) : j < k => h[j] < h[k]  BY <1>1, <1>2, <1>3
<1>6. \A k \in 1..Len(u) : u[k] = s[h[k]]  BY <1>1, <1>2, <1>3
<1> QED  BY <1>4, <1>5, <1>6 DEF Subsequence

\* Two parts may lose items independently.
LEMMA SubsequenceConcat ==
  ASSUME NEW T, NEW s \in Seq(T), NEW t \in Seq(T), NEW u \in Seq(T), NEW v \in Seq(T),
         Subsequence(t, s), Subsequence(v, u)
  PROVE  Subsequence(t \o v, s \o u)
<1>1. PICK f \in [1..Len(t) -> 1..Len(s)] :
        /\ \A j, k \in 1..Len(t) : j < k => f[j] < f[k]
        /\ \A k \in 1..Len(t) : t[k] = s[f[k]]
  BY DEF Subsequence
<1>2. PICK g \in [1..Len(v) -> 1..Len(u)] :
        /\ \A j, k \in 1..Len(v) : j < k => g[j] < g[k]
        /\ \A k \in 1..Len(v) : v[k] = u[g[k]]
  BY DEF Subsequence
<1>3. PICK x : x = t \o v  OBVIOUS
<1>4. PICK y : y = s \o u  OBVIOUS
<1>5. Len(s) \in Nat /\ Len(t) \in Nat /\ Len(u) \in Nat /\ Len(v) \in Nat
  BY LenProperties
<1>6. /\ Len(x) = Len(t) + Len(v)
      /\ \A k \in 1..(Len(t) + Len(v)) : x[k] = IF k <= Len(t) THEN t[k] ELSE v[k - Len(t)]
  BY <1>3, ConcatProperties
<1>7. /\ Len(y) = Len(s) + Len(u)
      /\ \A k \in 1..(Len(s) + Len(u)) : y[k] = IF k <= Len(s) THEN s[k] ELSE u[k - Len(s)]
  BY <1>4, ConcatProperties
<1> DEFINE h == [k \in 1..Len(x) |-> IF k <= Len(t) THEN f[k] ELSE g[k - Len(t)] + Len(s)]
<1>8. ASSUME NEW k \in 1..Len(x)
      PROVE  /\ k <= Len(t) => /\ k \in 1..Len(t) /\ h[k] = f[k] /\ f[k] \in 1..Len(s)
                               /\ x[k] = t[k]
             /\ k > Len(t) => /\ k - Len(t) \in 1..Len(v)
                              /\ h[k] = g[k - Len(t)] + Len(s)
                              /\ g[k - Len(t)] \in 1..Len(u)
                              /\ x[k] = v[k - Len(t)]
  <2>1. h[k] = IF k <= Len(t) THEN f[k] ELSE g[k - Len(t)] + Len(s)  OBVIOUS
  <2> HIDE DEF h
  <2>2. x[k] = IF k <= Len(t) THEN t[k] ELSE v[k - Len(t)]  BY <1>6
  <2>3. CASE k <= Len(t)
    <3>1. k \in 1..Len(t) /\ ~(k > Len(t))  BY <1>5, <1>6, <2>3
    <3> QED  BY <2>1, <2>2, <2>3, <3>1
  <2>4. CASE k > Len(t)
    <3>1. k - Len(t) \in 1..Len(v) /\ ~(k <= Len(t))  BY <1>5, <1>6, <2>4
    <3> QED  BY <2>1, <2>2, <3>1
  <2> QED  BY <1>5, <1>6, <2>3, <2>4
<1>9. ASSUME NEW k \in 1..Len(x)
      PROVE  h[k] \in 1..Len(y) /\ x[k] = y[h[k]]
  <2>1. CASE k <= Len(t)
    <3>1. t[k] = s[f[k]] /\ h[k] = f[k] /\ f[k] \in 1..Len(s) /\ x[k] = t[k]
      BY <1>1, <1>8, <2>1
    <3>2. f[k] \in 1..(Len(s) + Len(u)) /\ f[k] <= Len(s)  BY <1>5, <3>1
    <3> HIDE DEF h
    <3> QED  BY <1>7, <3>1, <3>2
  <2>2. CASE k > Len(t)
    <3>1. PICK m \in 1..Len(v) : m = k - Len(t)  BY <1>8, <2>2
    <3>2. v[m] = u[g[m]] /\ h[k] = g[m] + Len(s) /\ g[m] \in 1..Len(u) /\ x[k] = v[m]
      BY <1>2, <1>8, <2>2, <3>1
    <3>3. PICK n \in 1..Len(u) : n = g[m]  BY <3>2
    <3>4. /\ n + Len(s) \in 1..(Len(s) + Len(u)) /\ ~(n + Len(s) <= Len(s))
          /\ (n + Len(s)) - Len(s) = n
      BY <1>5
    <3> HIDE DEF h
    <3> QED  BY <1>7, <3>2, <3>3, <3>4
  <2> QED  BY <1>5, <1>6, <2>1, <2>2
<1>10. ASSUME NEW j \in 1..Len(x), NEW k \in 1..Len(x), j < k
       PROVE  h[j] < h[k]
  <2>1. CASE k <= Len(t)
    <3>1. j <= Len(t)  BY <1>5, <1>6, <1>10, <2>1
    <3> QED  BY <1>1, <1>8, <1>10, <2>1, <3>1
  <2>2. CASE j > Len(t)
    <3>1. k > Len(t)  BY <1>5, <1>6, <1>10, <2>2
    <3>2. PICK m \in 1..Len(v) : m = j - Len(t)  BY <1>8, <2>2
    <3>3. PICK n \in 1..Len(v) : n = k - Len(t)  BY <1>8, <3>1
    <3>4. m < n  BY <1>5, <1>6, <1>10, <3>2, <3>3
    <3>5. g[m] < g[n] /\ g[m] \in 1..Len(u) /\ g[n] \in 1..Len(u)  BY <1>2, <3>4
    <3>6. h[j] = g[m] + Len(s) /\ h[k] = g[n] + Len(s)  BY <1>8, <2>2, <3>1, <3>2, <3>3
    <3> HIDE DEF h
    <3> QED  BY <1>5, <3>5, <3>6
  <2>3. CASE j <= Len(t) /\ k > Len(t)
    <3>1. h[j] \in 1..Len(s)  BY <1>8, <2>3
    <3>2. PICK n \in 1..Len(u) : h[k] = n + Len(s)  BY <1>8, <2>3
    <3> HIDE DEF h
    <3> QED  BY <1>5, <3>1, <3>2
  <2> QED  BY <1>5, <1>6, <2>1, <2>2, <2>3
<1>11. h \in [1..Len(x) -> 1..Len(y)]  BY <1>9
<1>12. Subsequence(x, y)
  <2> HIDE DEF h
  <2> QED  BY <1>9, <1>10, <1>11 DEF Subsequence
<1> QED  BY <1>3, <1>4, <1>12

\* Losing items keeps the order, and adds none.
LEMMA FollowsSubsequence ==
  ASSUME NEW s \in Seq(Nat), NEW t \in Seq(Nat), NEW a \in Nat, NEW b \in Nat, a <= b,
         InOrder(s, a), Subsequence(t, s)
  PROVE  Follows(s, a, t, b)
<1>1. PICK f \in [1..Len(t) -> 1..Len(s)] :
        /\ \A j, k \in 1..Len(t) : j < k => f[j] < f[k]
        /\ \A k \in 1..Len(t) : t[k] = s[f[k]]
  BY DEF Subsequence
<1>2. \A k \in 1..Len(t) : f[k] \in 1..Len(s) /\ t[k] = s[f[k]]  BY <1>1
<1>3. \A k \in 1..Len(s) : s[k] \in Nat /\ 0 < s[k] /\ s[k] <= a
  BY ElementOfSeq DEF InOrder
<1>4. \A k \in 1..Len(t) : 0 < t[k] /\ t[k] <= b
  <2> SUFFICES ASSUME NEW k \in 1..Len(t) PROVE 0 < t[k] /\ t[k] <= b  OBVIOUS
  <2>1. PICK m \in 1..Len(s) : t[k] = s[m]  BY <1>2
  <2> QED  BY <1>3, <2>1
<1>5. ASSUME NEW j \in 1..Len(t), NEW k \in 1..Len(t), j < k PROVE t[j] < t[k]
  <2>1. f[j] < f[k]  BY <1>1, <1>5
  <2>2. s[f[j]] < s[f[k]]  BY <1>2, <2>1 DEF InOrder
  <2> QED  BY <1>2, <2>2
<1>6. ItemsOf(t) \subseteq ItemsOf(s)  BY <1>2 DEF ItemsOf
<1> QED  BY <1>4, <1>5, <1>6 DEF Follows, InOrder

\* In a sequence in order, what is before is smaller.
LEMMA EarlierIsSmaller ==
  ASSUME NEW x \in Seq(Nat), NEW y \in Seq(Nat), NEW z \in Seq(Nat), NEW top,
         InOrder(x \o (y \o z), top), NEW j \in 1..Len(y)
  PROVE  /\ y[j] <= top
         /\ \A k \in 1..Len(z) : y[j] < z[k]
<1>1. PICK yz \in Seq(Nat) : yz = y \o z  BY ConcatProperties
<1>2. PICK u : u = x \o yz  OBVIOUS
<1>3. /\ Len(x) \in Nat /\ Len(y) \in Nat /\ Len(z) \in Nat  BY LenProperties
<1>4. /\ Len(yz) = Len(y) + Len(z)
      /\ \A i \in 1..(Len(y) + Len(z)) : yz[i] = IF i <= Len(y) THEN y[i] ELSE z[i - Len(y)]
  BY <1>1, ConcatProperties
<1>5. /\ Len(u) = Len(x) + Len(yz)
      /\ \A i \in 1..(Len(x) + Len(yz)) : u[i] = IF i <= Len(x) THEN x[i] ELSE yz[i - Len(x)]
  BY <1>2, ConcatProperties
<1>6. InOrder(u, top)  BY <1>1, <1>2
<1>7. ASSUME NEW i \in 1..Len(yz)
      PROVE  i + Len(x) \in 1..Len(u) /\ u[i + Len(x)] = yz[i]
  <2>1. /\ i + Len(x) \in 1..(Len(x) + Len(yz)) /\ ~(i + Len(x) <= Len(x))
        /\ (i + Len(x)) - Len(x) = i
    BY <1>3, <1>4
  <2> QED  BY <1>5, <2>1
<1>8. j \in 1..Len(yz) /\ yz[j] = y[j]
  <2>1. j \in 1..(Len(y) + Len(z)) /\ j <= Len(y)  BY <1>3
  <2> QED  BY <1>4, <2>1
<1>9. y[j] <= top  BY <1>6, <1>7, <1>8 DEF InOrder
<1>10. ASSUME NEW k \in 1..Len(z) PROVE y[j] < z[k]
  <2>1. PICK m : m = k + Len(y)  OBVIOUS
  <2>2. /\ m \in 1..(Len(y) + Len(z)) /\ ~(m <= Len(y)) /\ m - Len(y) = k /\ j < m
    BY <1>3, <2>1
  <2>3. m \in 1..Len(yz) /\ yz[m] = z[k]  BY <1>4, <2>2
  <2>4. j + Len(x) < m + Len(x)  BY <1>3, <2>2
  <2>5. u[j + Len(x)] < u[m + Len(x)]  BY <1>6, <1>7, <1>8, <2>3, <2>4 DEF InOrder
  <2> QED  BY <1>7, <1>8, <2>3, <2>5
<1> QED  BY <1>9, <1>10

-----------------------------------------------------------------------------
(* What has left and what can still leave, in one line: outputs o, then    *)
(* the ready packets r, the segment a under inference, the input i, the    *)
(* packet p in the worker's hands and the queue q.                         *)

Line(o, r, a, i, p, q) == Joined(o, Joined(r, Joined(a, Joined(i, Joined(p, q)))))

LEMMA JoinType ==
  ASSUME NEW f \in Seq(Nat), NEW g \in Seq(Nat)
  PROVE  Joined(f, g) \in Seq(Nat)
BY JoinedIs

LEMMA JoinElements ==
  ASSUME NEW f \in Seq(Nat), NEW g \in Seq(Nat)
  PROVE  /\ Len(f) \in Nat /\ Len(g) \in Nat /\ Len(Joined(f, g)) = Len(f) + Len(g)
         /\ \A k \in 1..(Len(f) + Len(g)) :
              Joined(f, g)[k] = IF k <= Len(f) THEN f[k] ELSE g[k - Len(f)]
BY LenProperties, ConcatProperties DEF Joined

LEMMA LineType ==
  ASSUME NEW o \in Seq(Nat), NEW r \in Seq(Nat), NEW a \in Seq(Nat),
         NEW i \in Seq(Nat), NEW p \in Seq(Nat), NEW q \in Seq(Nat)
  PROVE  Line(o, r, a, i, p, q) \in Seq(Nat)
BY JoinType DEF Line

\* Any part of the line may lose items.
LEMMA LineLoses ==
  ASSUME NEW o \in Seq(Nat), NEW r \in Seq(Nat), NEW a \in Seq(Nat),
         NEW i \in Seq(Nat), NEW p \in Seq(Nat), NEW q \in Seq(Nat),
         NEW o2 \in Seq(Nat), NEW r2 \in Seq(Nat), NEW a2 \in Seq(Nat),
         NEW i2 \in Seq(Nat), NEW p2 \in Seq(Nat), NEW q2 \in Seq(Nat),
         Subsequence(o2, o), Subsequence(r2, r), Subsequence(a2, a),
         Subsequence(i2, i), Subsequence(p2, p), Subsequence(q2, q)
  PROVE  Subsequence(Line(o2, r2, a2, i2, p2, q2), Line(o, r, a, i, p, q))
<1>1. ASSUME NEW s \in Seq(Nat), NEW t \in Seq(Nat), NEW u \in Seq(Nat), NEW v \in Seq(Nat),
             Subsequence(t, s), Subsequence(v, u)
      PROVE  Subsequence(Joined(t, v), Joined(s, u))
  BY <1>1, SubsequenceConcat DEF Joined
<1> QED  BY <1>1, JoinType DEF Line

\* Moving the border between two neighbouring parts changes nothing.
LEMMA Regrouped ==
  ASSUME NEW f \in Seq(Nat), NEW g \in Seq(Nat), NEW h \in Seq(Nat), NEW x \in Seq(Nat)
  PROVE  Joined(Joined(f, x), Joined(g, h)) = Joined(f, Joined(Joined(x, g), h))
<1>1. Joined(Joined(x, g), h) = Joined(x, Joined(g, h))  BY JoinedAssociative
<1>2. Joined(Joined(f, x), Joined(g, h)) = Joined(f, Joined(x, Joined(g, h)))
  BY JoinType, JoinedAssociative
<1> QED  BY <1>1, <1>2

LEMMA ReadyLeaves ==
  ASSUME NEW o, NEW r, NEW a, NEW i, NEW p, NEW q, NEW x,
         {o, r, a, i, p, q, x} \subseteq Seq(Nat)
  PROVE  Line(Joined(o, x), r, a, i, p, q) = Line(o, Joined(x, r), a, i, p, q)
<1>1. PICK t \in Seq(Nat) : t = Joined(a, Joined(i, Joined(p, q)))  BY JoinType
<1>2. Joined(Joined(o, x), Joined(r, t)) = Joined(o, Joined(Joined(x, r), t))
  BY Regrouped
<1> QED  BY <1>1, <1>2 DEF Line

LEMMA SegmentReady ==
  ASSUME NEW o, NEW r, NEW a, NEW i, NEW p, NEW q, NEW x,
         {o, r, a, i, p, q, x} \subseteq Seq(Nat)
  PROVE  Line(o, Joined(r, x), a, i, p, q) = Line(o, r, Joined(x, a), i, p, q)
<1>1. PICK t \in Seq(Nat) : t = Joined(i, Joined(p, q))  BY JoinType
<1>2. Joined(Joined(r, x), Joined(a, t)) = Joined(r, Joined(Joined(x, a), t))
  BY Regrouped
<1> QED  BY <1>1, <1>2 DEF Line

LEMMA InputLaunched ==
  ASSUME NEW o, NEW r, NEW a, NEW i, NEW p, NEW q, NEW x,
         {o, r, a, i, p, q, x} \subseteq Seq(Nat)
  PROVE  Line(o, r, Joined(a, x), i, p, q) = Line(o, r, a, Joined(x, i), p, q)
<1>1. PICK t \in Seq(Nat) : t = Joined(p, q)  BY JoinType
<1>2. Joined(Joined(a, x), Joined(i, t)) = Joined(a, Joined(Joined(x, i), t))
  BY Regrouped
<1> QED  BY <1>1, <1>2 DEF Line

LEMMA PacketBuffered ==
  ASSUME NEW o, NEW r, NEW a, NEW i, NEW p, NEW q, NEW x,
         {o, r, a, i, p, q, x} \subseteq Seq(Nat)
  PROVE  Line(o, r, a, Joined(i, x), p, q) = Line(o, r, a, i, Joined(x, p), q)
<1>1. Joined(Joined(i, x), Joined(p, q)) = Joined(i, Joined(Joined(x, p), q))
  BY Regrouped
<1> QED  BY <1>1 DEF Line

LEMMA PacketTaken ==
  ASSUME NEW o, NEW r, NEW a, NEW i, NEW p, NEW q, NEW x,
         {o, r, a, i, p, q, x} \subseteq Seq(Nat)
  PROVE  Line(o, r, a, i, Joined(p, x), q) = Line(o, r, a, i, p, Joined(x, q))
<1>1. Joined(Joined(p, x), q) = Joined(p, Joined(x, q))  BY JoinedAssociative
<1> QED  BY <1>1 DEF Line

LEMMA SingleNumber ==
  ASSUME NEW n \in Nat
  PROVE  <<n>> \in Seq(Nat) /\ Len(<<n>>) = 1 /\ <<n>>[1] = n
OBVIOUS

LEMMA HeadAndTail ==
  ASSUME NEW q \in Seq(Nat), q # <<>>
  PROVE  Joined(<<Head(q)>>, Tail(q)) = q
BY DEF Joined

LEMMA NumberAppended ==
  ASSUME NEW f \in Seq(Nat), NEW g \in Seq(Nat), NEW n \in Nat
  PROVE  f \o Append(g, n) = Append(f \o g, n)
BY ONLY f \in Seq(Nat), g \in Seq(Nat), n \in Nat

\* A packet that arrives is last in line.
LEMMA LineGrows ==
  ASSUME NEW o, NEW r, NEW a, NEW i, NEW p, NEW q, {o, r, a, i, p, q} \subseteq Seq(Nat),
         NEW n \in Nat
  PROVE  Line(o, r, a, i, p, Append(q, n)) = Append(Line(o, r, a, i, p, q), n)
<1>1. PICK d \in Seq(Nat) : d = Joined(p, q)  BY JoinType
<1>2. PICK c \in Seq(Nat) : c = Joined(i, d)  BY JoinType
<1>3. PICK b \in Seq(Nat) : b = Joined(a, c)  BY JoinType
<1>4. PICK e \in Seq(Nat) : e = Joined(r, b)  BY JoinType
<1> DEFINE Adds(f, g) == Joined(f, Append(g, n)) = Append(Joined(f, g), n)
<1>5. Adds(p, q) /\ Adds(i, d) /\ Adds(a, c) /\ Adds(r, b) /\ Adds(o, e)
  <2>1. ASSUME NEW f \in Seq(Nat), NEW g \in Seq(Nat) PROVE Adds(f, g)
    BY NumberAppended DEF Joined
  <2> HIDE DEF Adds
  <2> QED  BY <2>1, <1>1, <1>2, <1>3, <1>4
<1>6. /\ Joined(p, Append(q, n)) = Append(d, n) /\ Joined(i, Append(d, n)) = Append(c, n)
      /\ Joined(a, Append(c, n)) = Append(b, n) /\ Joined(r, Append(b, n)) = Append(e, n)
      /\ Joined(o, Append(e, n)) = Append(Joined(o, e), n)
  BY <1>1, <1>2, <1>3, <1>4, <1>5, Zenon
<1> QED  BY <1>1, <1>2, <1>3, <1>4, <1>6, Zenon DEF Line

\* A packet that overtakes nothing leaves.
LEMMA LinePasses ==
  ASSUME NEW o \in Seq(Nat), NEW x \in Seq(Nat), NEW q \in Seq(Nat)
  PROVE  Line(Joined(o, x), <<>>, <<>>, <<>>, <<>>, q) = Line(o, <<>>, <<>>, <<>>, x, q)
<1>1. PICK e \in Seq(Nat) : e = <<>>  BY EmptySeq
<1>2. Joined(x, e) = x /\ Joined(e, x) = x  BY <1>1, JoinedIs
<1>3. /\ Line(Joined(o, x), e, e, e, e, q) = Line(o, Joined(x, e), e, e, e, q)
      /\ Line(o, Joined(e, x), e, e, e, q) = Line(o, e, Joined(x, e), e, e, q)
      /\ Line(o, e, Joined(e, x), e, e, q) = Line(o, e, e, Joined(x, e), e, q)
      /\ Line(o, e, e, Joined(e, x), e, q) = Line(o, e, e, e, Joined(x, e), q)
  BY ReadyLeaves, SegmentReady, InputLaunched, PacketBuffered
<1> QED  BY <1>1, <1>2, <1>3

\* The line, grouped from the other side.
LEMMA LineFromLeft ==
  ASSUME NEW o \in Seq(Nat), NEW r \in Seq(Nat), NEW a \in Seq(Nat),
         NEW i \in Seq(Nat), NEW p \in Seq(Nat), NEW q \in Seq(Nat)
  PROVE  Joined(o, Joined(Joined(Joined(Joined(r, a), i), p), q)) = Line(o, r, a, i, p, q)
<1>1. PICK b \in Seq(Nat) : b = Joined(r, a)  BY JoinType
<1>2. PICK c \in Seq(Nat) : c = Joined(b, i)  BY JoinType
<1>3. PICK d \in Seq(Nat) : d = Joined(p, q)  BY JoinType
<1>4. PICK e \in Seq(Nat) : e = Joined(i, d)  BY JoinType
<1>5. Joined(Joined(c, p), q) = Joined(c, d)  BY <1>3, JoinedAssociative
<1>6. Joined(c, d) = Joined(b, e)  BY <1>2, <1>4, JoinedAssociative
<1>7. Joined(b, e) = Joined(r, Joined(a, e))  BY <1>1, JoinedAssociative
<1> QED  BY <1>1, <1>2, <1>3, <1>4, <1>5, <1>6, <1>7, Zenon DEF Line
=============================================================================
