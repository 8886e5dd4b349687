--------------------------- MODULE VersionsProofs ---------------------------
(***************************************************************************)
(* Machine-checked proofs about Versions, for versions of any length: both *)
(* comparisons are total preorders, and the ones they should be.           *)
(***************************************************************************)
EXTENDS Versions, Orders, SequenceTheorems

-----------------------------------------------------------------------------
(* Strings.                                                                *)

\* The least of some places, and the greatest.
LEMMA FirstIs ==
  ASSUME NEW T \in SUBSET Nat, T # {}
  PROVE  First(T) \in T /\ \A j \in T : First(T) <= j
<1>1. \E i \in T : \A j \in T : i <= j
  BY Least
<1> QED
  BY <1>1 DEF First

LEMMA LastIs ==
  ASSUME NEW T \in SUBSET Nat, T # {}, IsFiniteSet(T)
  PROVE  Last(T) \in T /\ \A j \in T : j <= Last(T)
<1>1. \E i \in T : \A j \in T : j <= i
  <2>1. T \subseteq Int
    OBVIOUS
  <2> QED
    BY <2>1, Greatest
<1> QED
  BY <1>1 DEF Last

\* A number that is known to be the last of some places is the one picked.
LEMMA LastUnique ==
  ASSUME NEW T \in SUBSET Nat, NEW i \in T, \A j \in T : j <= i
  PROVE  Last(T) = i
<1>1. Last(T) \in T /\ \A j \in T : j <= Last(T)
  BY DEF Last
<1>2. Last(T) <= i /\ i <= Last(T) /\ Last(T) \in Nat
  BY <1>1
<1> QED
  BY <1>2

LEMMA FirstUnique ==
  ASSUME NEW T \in SUBSET Nat, NEW i \in T, \A j \in T : i <= j
  PROVE  First(T) = i
<1>1. First(T) \in T /\ \A j \in T : First(T) <= j
  BY DEF First
<1>2. First(T) <= i /\ i <= First(T) /\ First(T) \in Nat
  BY <1>1
<1> QED
  BY <1>2

\* What the loop that skips bytes ends with: it is the only such place.
Stops(s, i, B, n) ==
  /\ n \in i..(Len(s) + 1) /\ \A k \in i..(n - 1) : s[k] \in B
  /\ n <= Len(s) => s[n] \notin B

LEMMA StopsOnce ==
  ASSUME NEW s, Len(s) \in Nat, NEW i \in 1..(Len(s) + 1), NEW B,
         NEW m, NEW n, Stops(s, i, B, m), Stops(s, i, B, n)
  PROVE  m = n
<1>1. m \in Int /\ n \in Int /\ i \in Int
  BY DEF Stops
<1>2. ~(m < n) /\ ~(n < m)
  BY DEF Stops
<1> QED
  BY <1>1, <1>2

LEMMA SkipStops ==
  ASSUME NEW s, Len(s) \in Nat, NEW i \in 1..(Len(s) + 1), NEW B
  PROVE  Stops(s, i, B, Skip(s, i, B))
<1> DEFINE T == {n \in i..(Len(s) + 1) : n <= Len(s) => s[n] \notin B}
<1>1. Len(s) + 1 \in T /\ T \subseteq Nat
  OBVIOUS
<1>2. PICK n \in T : \A m \in T : n <= m
  <2> HIDE DEF T
  <2> QED
    BY <1>1, Least
<1>3. ASSUME NEW k \in i..(n - 1) PROVE s[k] \in B
  <2>1. k \in i..(Len(s) + 1) /\ k <= Len(s) /\ ~(n <= k)
    OBVIOUS
  <2> QED
    BY <1>2, <2>1
<1> QED
  BY <1>3 DEF Stops, Skip

LEMMA SkipUnique ==
  ASSUME NEW s, Len(s) \in Nat, NEW i \in 1..(Len(s) + 1), NEW B, NEW n, Stops(s, i, B, n)
  PROVE  Skip(s, i, B) = n
BY SkipStops, StopsOnce

\* The digits from a place on.
LEMMA DigitsAre ==
  ASSUME NEW s \in Seq(Byte), NEW i \in 1..(Len(s) + 1)
  PROVE  /\ Digits(s, i) \in Seq(Digit) /\ Skip(s, i, Digit) \in i..(Len(s) + 1)
         /\ Len(Digits(s, i)) = Skip(s, i, Digit) - i
         /\ \A k \in 1..(Skip(s, i, Digit) - i) : Digits(s, i)[k] = s[i + k - 1]
<1> DEFINE e == Skip(s, i, Digit)
<1>1. Len(s) \in Nat
  OBVIOUS
<1>2. e \in i..(Len(s) + 1) /\ \A k \in i..(e - 1) : s[k] \in Digit
  BY <1>1, SkipStops DEF Stops
<1> HIDE DEF e
<1>3. /\ SubSeq(s, i, e - 1) \in Seq(Digit)
      /\ Len(SubSeq(s, i, e - 1)) = IF i <= e - 1 THEN e - 1 - i + 1 ELSE 0
      /\ \A k \in 1..(e - 1 - i + 1) : SubSeq(s, i, e - 1)[k] = s[i + k - 1]
  <2>1. i \in Int /\ e - 1 \in Int
    BY <1>2
  <2> QED
    BY ONLY <1>2, <2>1, SubSeqProperties
<1>4. e - 1 - i + 1 = e - i /\ (~(i <= e - 1) => e - i = 0)
  BY <1>2
<1>5. Digits(s, i) = SubSeq(s, i, e - 1)
  BY DEF Digits, e
<1> QED
  BY <1>2, <1>3, <1>4, <1>5 DEF e

-----------------------------------------------------------------------------
(* Numbers.                                                                *)

\* The values of a loop that reads digits: the numbers they denote.
Reads(value, d) ==
  /\ value \in [0..Len(d) -> Nat] /\ value[0] = 0
  /\ \A n \in 1..Len(d) : value[n] = 10 * value[n - 1] + (d[n] - Zero)

LEMMA DigitIs ==
  ASSUME NEW d \in Seq(Digit)
  PROVE  Len(d) \in Nat /\ \A n \in 1..Len(d) : d[n] \in Int /\ d[n] - Zero \in 0..9
<1>1. \A n \in 1..Len(d) : d[n] \in Digit
  OBVIOUS
<1> QED
  BY <1>1 DEF Digit, Zero

LEMMA ValueReads ==
  ASSUME NEW d \in Seq(Digit)
  PROVE  \E value : Reads(value, d) /\ Value(d) = value[Len(d)]
<1> DEFINE N == Len(d)
           turn == [n \in 1..N |-> [x \in Nat |-> 10 * x + (d[n] - Zero)]]
           Run(g) == g = [n \in 0..N |-> IF n = 0 THEN 0 ELSE 10 * g[n - 1] + (d[n] - Zero)]
<1>1. N \in Nat /\ \A n \in 1..N : d[n] - Zero \in 0..9
  BY DigitIs
<1> HIDE DEF N
<1>2. turn \in [1..N -> [Nat -> Nat]]
  <2> SUFFICES ASSUME NEW n \in 1..N, NEW x \in Nat PROVE 10 * x + (d[n] - Zero) \in Nat
    OBVIOUS
  <2>1. d[n] - Zero \in 0..9
    BY <1>1
  <2> HIDE DEF Zero
  <2> QED
    BY <2>1
<1>3. PICK g \in [0..N -> Nat] : g[0] = 0 /\ \A n \in 1..N : g[n] = turn[n][g[n - 1]]
  <2> HIDE DEF turn
  <2>1. \E g : Looped(g, N, Nat, 0, turn)
    BY <1>1, <1>2, Loop
  <2> QED
    BY <2>1 DEF Looped
<1>4. ASSUME NEW n \in 1..N PROVE n - 1 \in 0..N /\ g[n] = 10 * g[n - 1] + (d[n] - Zero)
  <2>1. n - 1 \in 0..N
    BY <1>1
  <2>2. g[n - 1] \in Nat
    BY <1>3, <2>1
  <2> QED
    BY <1>3, <2>1, <2>2
<1>5. Run(g)
  <2>1. ASSUME NEW n \in 0..N
        PROVE  g[n] = IF n = 0 THEN 0 ELSE 10 * g[n - 1] + (d[n] - Zero)
    <3>1. n # 0 => n \in 1..N
      BY <1>1
    <3> QED
      BY <1>3, <1>4, <3>1
  <2>2. g = [n \in 0..N |-> g[n]]
    BY <1>3
  <2> QED
    BY <2>1, <2>2
<1>6. ASSUME NEW h, Run(h) PROVE h = g
  <2> DEFINE T == {n \in 0..N : h[n] = g[n]}
  <2>0. /\ h[0] = 0
        /\ \A n \in 1..N : n - 1 \in 0..N /\ h[n] = 10 * h[n - 1] + (d[n] - Zero)
    BY <1>1, <1>6
  <2>1. 0 \in T
    BY <1>1, <1>3, <2>0
  <2>2. ASSUME NEW n \in 1..N, n - 1 \in T PROVE n \in T
    <3>1. n \in 0..N /\ h[n - 1] = g[n - 1]
      BY <1>1, <2>2
    <3> QED
      BY <1>4, <2>0, <3>1
  <2>3. \A n \in 0..N : n \in T
    <3> HIDE DEF T
    <3> QED
      BY <1>1, <2>1, <2>2, UpTo
  <2>4. \A n \in 0..N : h[n] = g[n]
    BY <2>3
  <2>5. h = [n \in 0..N |-> h[n]]
    BY <1>6
  <2>6. g = [n \in 0..N |-> g[n]]
    BY <1>3
  <2> QED
    BY <2>4, <2>5, <2>6
<1>7. Value(d) = g[N]
  <2> DEFINE h == CHOOSE value : Run(value)
  <2>1. Run(h)
    <3> HIDE DEF Run
    <3> QED
      BY <1>5
  <2>2. Value(d) = h[N]
    BY DEF Value, N
  <2> HIDE DEF h, Run
  <2> QED
    BY <1>6, <2>1, <2>2
<1> QED
  BY <1>3, <1>4, <1>7 DEF Reads, N

LEMMA ValueIs == ASSUME NEW d \in Seq(Digit) PROVE Value(d) \in Nat
<1>1. PICK v : Reads(v, d) /\ Value(d) = v[Len(d)]
  BY ValueReads
<1>2. Len(d) \in Nat
  BY DigitIs
<1> QED
  BY <1>1, <1>2 DEF Reads

\* What one turn of such a loop does.
LEMMA ReadsAre ==
  ASSUME NEW d \in Seq(Digit), NEW v, Reads(v, d)
  PROVE  /\ Len(d) \in Nat /\ v[0] = 0 /\ \A n \in 0..Len(d) : v[n] \in Nat
         /\ \A n \in 1..Len(d) : /\ n - 1 \in 0..Len(d) /\ v[n - 1] \in Nat
                                 /\ d[n] \in Int /\ d[n] - Zero \in 0..9
                                 /\ v[n] = 10 * v[n - 1] + (d[n] - Zero)
<1>1. Len(d) \in Nat /\ \A n \in 1..Len(d) : d[n] \in Int /\ d[n] - Zero \in 0..9
  BY DigitIs
<1>2. /\ v[0] = 0 /\ \A n \in 0..Len(d) : v[n] \in Nat
      /\ \A n \in 1..Len(d) : v[n] = 10 * v[n - 1] + (d[n] - Zero)
  BY DEF Reads
<1>3. \A n \in 1..Len(d) : n - 1 \in 0..Len(d)
  BY <1>1
<1> QED
  BY <1>1, <1>2, <1>3

LEMMA Later ==
  ASSUME NEW x \in Nat, NEW y \in Nat, x < y, NEW a \in 0..9, NEW b \in 0..9
  PROVE  10 * x + a < 10 * y + b
OBVIOUS

LEMMA Grown ==
  ASSUME NEW x \in Nat, x > 0, NEW a \in 0..9
  PROVE  10 * x + a > 0
OBVIOUS

\* Of numbers of one length the first digit that differs decides.
LEMMA ValueFirst ==
  ASSUME NEW d \in Seq(Digit), NEW e \in Seq(Digit), Len(d) = Len(e),
         NEW i \in 1..Len(d), \A k \in 1..(i - 1) : d[k] = e[k], d[i] < e[i]
  PROVE  Value(d) < Value(e)
<1> DEFINE N == Len(d)
<1>0. /\ N \in Nat
      /\ \A n \in 1..N : /\ d[n] \in Int /\ d[n] - Zero \in 0..9
                         /\ e[n] \in Int /\ e[n] - Zero \in 0..9
  BY DigitIs
<1>1. PICK v : Reads(v, d) /\ Value(d) = v[N]
  BY ValueReads
<1>2. PICK w : Reads(w, e) /\ Value(e) = w[N]
  BY ValueReads
<1>3. /\ v[0] = 0 /\ w[0] = 0
      /\ \A n \in 0..N : v[n] \in Nat /\ w[n] \in Nat
      /\ \A n \in 1..N : /\ n - 1 \in 0..N
                         /\ v[n] = 10 * v[n - 1] + (d[n] - Zero)
                         /\ w[n] = 10 * w[n - 1] + (e[n] - Zero)
  BY <1>1, <1>2, ReadsAre
<1> HIDE DEF N
<1> DEFINE T == {n \in 0..N : IF n < i THEN v[n] = w[n] ELSE v[n] < w[n]}
<1>4. 0 \in T
  BY <1>0, <1>3 DEF N
<1>5. ASSUME NEW n \in 1..N, n - 1 \in T PROVE n \in T
  <2>0. /\ n - 1 \in 0..N /\ n \in 0..N /\ v[n - 1] \in Nat /\ w[n - 1] \in Nat
        /\ v[n] = 10 * v[n - 1] + (d[n] - Zero)
        /\ w[n] = 10 * w[n - 1] + (e[n] - Zero)
    BY <1>0, <1>3
  <2>1. d[n] \in Int /\ d[n] - Zero \in 0..9 /\ e[n] \in Int /\ e[n] - Zero \in 0..9
    BY <1>0
  <2>2. i \in 1..N
    BY DEF N
  <2>3. CASE n < i
    <3>1. n - 1 < i /\ d[n] = e[n]
      BY <2>2, <2>3
    <3> QED
      BY <1>5, <2>0, <2>3, <3>1
  <2>4. CASE n = i
    <3>1. v[n - 1] = w[n - 1] /\ d[n] < e[n]
      BY <1>5, <2>0, <2>2, <2>4
    <3> QED
      BY <2>0, <2>1, <2>4, <3>1 DEF Zero
  <2>5. CASE n > i
    <3>1. v[n - 1] < w[n - 1]
      BY <1>5, <2>0, <2>2, <2>5
    <3>2. v[n] < w[n]
      BY ONLY <2>0, <2>1, <3>1, Later
    <3> QED
      BY <2>0, <2>2, <2>5, <3>2
  <2> QED
    BY <2>2, <2>3, <2>4, <2>5
<1>6. \A n \in 0..N : n \in T
  <2> HIDE DEF T
  <2> QED
    BY <1>0, <1>4, <1>5, UpTo
<1>7. N \in 0..N /\ i \in 1..N
  BY <1>0 DEF N
<1> QED
  BY <1>1, <1>2, <1>6, <1>7

\* Without zeros in front the longer number is the greater one.
LEMMA ValueLonger ==
  ASSUME NEW d \in Seq(Digit), NEW e \in Seq(Digit), Len(d) < Len(e), e[1] # Zero
  PROVE  Value(d) < Value(e)
<1> DEFINE N == Len(d)
           M == Len(e)
           m == M - N
<1>0. /\ N \in Nat /\ M \in Nat
      /\ \A n \in 1..N : d[n] \in Int /\ d[n] - Zero \in 0..9
      /\ \A n \in 1..M : e[n] \in Int /\ e[n] - Zero \in 0..9
  BY DigitIs
<1>1. PICK v : Reads(v, d) /\ Value(d) = v[N]
  BY ValueReads
<1>2. PICK w : Reads(w, e) /\ Value(e) = w[M]
  BY ValueReads
<1>3. /\ v[0] = 0 /\ w[0] = 0
      /\ \A n \in 0..N : v[n] \in Nat
      /\ \A n \in 0..M : w[n] \in Nat
      /\ \A n \in 1..N : n - 1 \in 0..N /\ v[n] = 10 * v[n - 1] + (d[n] - Zero)
      /\ \A n \in 1..M : n - 1 \in 0..M /\ w[n] = 10 * w[n - 1] + (e[n] - Zero)
  BY <1>1, <1>2, ReadsAre
<1>4. m \in 1..M /\ N + m = M /\ N < M
  BY <1>0
<1> HIDE DEF N, M, m
<1>5. \A n \in 1..M : w[n] > 0
  <2> DEFINE T == {n \in 0..M : n > 0 => w[n] > 0}
  <2>1. 0 \in T
    BY <1>0
  <2>2. ASSUME NEW n \in 1..M, n - 1 \in T PROVE n \in T
    <3>1. /\ n \in 0..M /\ w[n - 1] \in Nat /\ e[n] \in Int /\ e[n] - Zero \in 0..9
          /\ w[n] = 10 * w[n - 1] + (e[n] - Zero)
      BY <1>0, <1>3
    <3>2. CASE n = 1
      <4>1. e[n] - Zero # 0
        BY <3>1, <3>2 DEF Zero
      <4> QED
        BY <1>3, <3>1, <3>2, <4>1
    <3>3. CASE n # 1
      <4>1. w[n - 1] > 0
        BY <2>2, <3>1, <3>3
      <4>2. w[n] > 0
        BY ONLY <3>1, <4>1, Grown
      <4> QED
        BY <3>1, <4>2
    <3> QED
      BY <3>2, <3>3
  <2>3. \A n \in 0..M : n \in T
    <3> HIDE DEF T
    <3> QED
      BY <1>0, <2>1, <2>2, UpTo
  <2> QED
    BY <1>0, <2>3
<1> DEFINE T == {n \in 0..N : v[n] < w[n + m]}
<1>6. 0 \in T
  BY <1>0, <1>3, <1>4, <1>5
<1>7. ASSUME NEW n \in 1..N, n - 1 \in T PROVE n \in T
  <2>1. /\ n - 1 \in 0..N /\ n \in 0..N /\ n + m \in 1..M /\ (n - 1) + m = (n + m) - 1
        /\ (n + m) - 1 \in 0..M
    BY <1>0, <1>4
  <2>2. /\ v[n - 1] \in Nat /\ w[(n + m) - 1] \in Nat
        /\ v[n] = 10 * v[n - 1] + (d[n] - Zero)
        /\ w[n + m] = 10 * w[(n + m) - 1] + (e[n + m] - Zero)
        /\ d[n] - Zero \in 0..9 /\ e[n + m] - Zero \in 0..9
    BY <1>0, <1>3, <2>1
  <2>3. v[n - 1] < w[(n + m) - 1]
    BY <1>7, <2>1
  <2>4. v[n] < w[n + m]
    BY ONLY <2>2, <2>3, Later
  <2> QED
    BY <2>1, <2>4
<1>8. \A n \in 0..N : n \in T
  <2> HIDE DEF T
  <2> QED
    BY <1>0, <1>6, <1>7, UpTo
<1>9. N \in 0..N
  BY <1>0
<1> QED
  BY <1>1, <1>2, <1>4, <1>8, <1>9

\* Zeros in front do not count.
LEMMA ValueZeros ==
  ASSUME NEW d \in Seq(Digit), NEW e \in Seq(Digit), NEW m \in Nat, Len(d) = Len(e) + m,
         \A k \in 1..m : d[k] = Zero, \A k \in 1..Len(e) : d[k + m] = e[k]
  PROVE  Value(d) = Value(e)
<1> DEFINE N == Len(d)
           M == Len(e)
<1>1. PICK v : Reads(v, d) /\ Value(d) = v[N]
  BY ValueReads
<1>2. PICK w : Reads(w, e) /\ Value(e) = w[M]
  BY ValueReads
<1>3. /\ N \in Nat /\ v[0] = 0
      /\ \A n \in 1..N : n - 1 \in 0..N /\ v[n] = 10 * v[n - 1] + (d[n] - Zero)
  BY <1>1, ReadsAre
<1>4. /\ M \in Nat /\ w[0] = 0
      /\ \A n \in 1..M : n - 1 \in 0..M /\ w[n] = 10 * w[n - 1] + (e[n] - Zero)
  BY <1>2, ReadsAre
<1>5. N = M + m /\ \A k \in 1..m : d[k] = Zero /\ \A n \in 1..M : d[n + m] = e[n]
  OBVIOUS
<1>6. \A k \in 1..m : d[k] = Zero
  OBVIOUS
<1>7. \A n \in 1..M : d[n + m] = e[n]
  OBVIOUS
<1> HIDE DEF N, M
<1>8. v[m] = 0
  <2> DEFINE T == {n \in 0..m : v[n] = 0}
  <2>1. 0 \in T
    BY <1>3
  <2>2. ASSUME NEW n \in 1..m, n - 1 \in T PROVE n \in T
    <3>1. n \in 0..m /\ n \in 1..N /\ v[n - 1] = 0 /\ d[n] = 48
      BY <1>4, <1>5, <1>6, <2>2 DEF Zero
    <3>2. v[n] = 10 * v[n - 1] + (d[n] - Zero)
      BY <1>3, <3>1
    <3> QED
      BY <3>1, <3>2 DEF Zero
  <2>3. \A n \in 0..m : n \in T
    <3> HIDE DEF T
    <3> QED
      BY <2>1, <2>2, UpTo
  <2> QED
    BY <2>3
<1> DEFINE T == {n \in 0..M : v[n + m] = w[n]}
<1>9. 0 \in T
  BY <1>4, <1>8
<1>10. ASSUME NEW n \in 1..M, n - 1 \in T PROVE n \in T
  <2>1. /\ n \in 0..M /\ n + m \in 1..N /\ (n + m) - 1 = (n - 1) + m
    BY <1>4, <1>5
  <2>2. /\ v[n + m] = 10 * v[(n - 1) + m] + (d[n + m] - Zero)
        /\ w[n] = 10 * w[n - 1] + (e[n] - Zero)
    BY <1>3, <1>4, <2>1
  <2>3. v[(n - 1) + m] = w[n - 1] /\ d[n + m] = e[n]
    BY <1>7, <1>10
  <2>4. v[n + m] = w[n]
    BY ONLY <2>2, <2>3
  <2> QED
    BY <2>1, <2>4
<1>11. \A n \in 0..M : n \in T
  <2> HIDE DEF T
  <2> QED
    BY <1>4, <1>9, <1>10, UpTo
<1>12. M \in 0..M
  BY <1>4
<1> QED
  BY <1>1, <1>2, <1>5, <1>11, <1>12

-----------------------------------------------------------------------------
(* The order of sequences of numbers that go on as 0.                      *)

LEMMA AtIs ==
  ASSUME NEW u \in Seq(Int), NEW i \in Nat \ {0}
  PROVE  At(u, i) \in Int /\ Len(u) \in Nat /\ (i > Len(u) => At(u, i) = 0)
<1>1. Len(u) \in Nat /\ \A k \in 1..Len(u) : u[k] \in Int
  OBVIOUS
<1>2. i <= Len(u) => i \in 1..Len(u)
  BY <1>1
<1> QED
  BY <1>1, <1>2 DEF At

LEMMA SignIs ==
  ASSUME NEW n \in Int
  PROVE  /\ Sign(n) \in {-1, 0, 1} /\ Sign(-n) = -Sign(n)
         /\ Sign(n) = 0 <=> n = 0
         /\ Sign(n) < 0 <=> n < 0
BY DEF Sign

\* The first place where two sequences differ decides.
Differ(u, v, i) ==
  /\ i \in Nat \ {0} /\ \A k \in 1..(i - 1) : At(u, k) = At(v, k)
  /\ At(u, i) # At(v, i)

Same(u, v) == \A i \in Nat \ {0} : At(u, i) = At(v, i)

LEMMA CompareIs ==
  ASSUME NEW u \in Seq(Int), NEW v \in Seq(Int)
  PROVE  \/ Compare(u, v) = 0 /\ Same(u, v)
         \/ \E i : Differ(u, v, i) /\ Compare(u, v) = Sign(At(u, i) - At(v, i))
<1> DEFINE unequal == {i \in 1..(Len(u) + Len(v)) : At(u, i) # At(v, i)}
<1>0. Len(u) \in Nat /\ Len(v) \in Nat /\ unequal \subseteq Nat
  OBVIOUS
<1>1. ASSUME NEW i \in Nat \ {0}, i \notin unequal PROVE At(u, i) = At(v, i)
  <2>1. i \in 1..(Len(u) + Len(v)) \/ (i > Len(u) /\ i > Len(v))
    BY <1>0
  <2>2. i > Len(u) /\ i > Len(v) => At(u, i) = 0 /\ At(v, i) = 0
    BY AtIs
  <2> QED
    BY <1>1, <2>1, <2>2
<1>2. CASE unequal = {}
  BY <1>1, <1>2 DEF Compare, Same
<1>3. CASE unequal # {}
  <2> DEFINE i == First(unequal)
  <2>1. i \in unequal /\ \A j \in unequal : i <= j
    <3> HIDE DEF unequal
    <3> QED
      BY <1>0, <1>3, FirstIs
  <2>2. Compare(u, v) = Sign(At(u, i) - At(v, i))
    BY <1>3 DEF Compare
  <2>3. i \in Nat \ {0} /\ At(u, i) # At(v, i)
    BY <2>1
  <2> HIDE DEF i
  <2>4. ASSUME NEW k \in 1..(i - 1) PROVE At(u, k) = At(v, k)
    <3>1. k \in Nat \ {0} /\ ~(i <= k)
      BY <2>3
    <3> HIDE DEF unequal
    <3> QED
      BY <1>1, <2>1, <3>1
  <2>5. Differ(u, v, i)
    BY <2>3, <2>4 DEF Differ
  <2> QED
    BY <2>2, <2>5
<1> QED
  BY <1>2, <1>3

LEMMA CompareDiffer ==
  ASSUME NEW u \in Seq(Int), NEW v \in Seq(Int), NEW i, Differ(u, v, i)
  PROVE  Compare(u, v) = Sign(At(u, i) - At(v, i))
<1>1. ~Same(u, v)
  BY DEF Same, Differ
<1>2. PICK j : Differ(u, v, j) /\ Compare(u, v) = Sign(At(u, j) - At(v, j))
  BY <1>1, CompareIs
<1>3. i \in Nat /\ j \in Nat /\ ~(i < j) /\ ~(j < i)
  BY <1>2 DEF Differ
<1>4. i = j
  BY ONLY <1>3
<1> QED
  BY <1>2, <1>4

LEMMA CompareSame ==
  ASSUME NEW u \in Seq(Int), NEW v \in Seq(Int), Same(u, v)
  PROVE  Compare(u, v) = 0
<1>1. ~\E i : Differ(u, v, i)
  BY DEF Same, Differ
<1> QED
  BY <1>1, CompareIs

\* The rest decides between sequences that begin alike.
After(u, rest) == \A n \in Nat \ {0} : At(u, n + 1) = At(rest, n)

LEMMA CompareStep ==
  ASSUME NEW u \in Seq(Int), NEW v \in Seq(Int), NEW x \in Seq(Int), NEW y \in Seq(Int),
         After(u, x), After(v, y)
  PROVE  Compare(u, v) = IF At(u, 1) # At(v, 1) THEN Sign(At(u, 1) - At(v, 1))
                         ELSE Compare(x, y)
<1>1. CASE At(u, 1) # At(v, 1)
  <2>1. Differ(u, v, 1)
    BY <1>1 DEF Differ
  <2> QED
    BY <1>1, <2>1, CompareDiffer
<1>2. CASE At(u, 1) = At(v, 1)
  <2>1. CASE Same(x, y)
    <3>1. ASSUME NEW i \in Nat \ {0} PROVE At(u, i) = At(v, i)
      <4>1. CASE i = 1
        BY <1>2, <4>1
      <4>2. CASE i # 1
        <5>1. i - 1 \in Nat \ {0} /\ (i - 1) + 1 = i
          BY <4>2
        <5>2. At(u, (i - 1) + 1) = At(x, i - 1) /\ At(v, (i - 1) + 1) = At(y, i - 1)
          BY <5>1 DEF After
        <5> QED
          BY <2>1, <5>1, <5>2 DEF Same
      <4> QED
        BY <4>1, <4>2
    <3> QED
      BY <1>2, <2>1, <3>1, CompareSame DEF Same
  <2>2. ASSUME NEW i, Differ(x, y, i), Compare(x, y) = Sign(At(x, i) - At(y, i))
        PROVE  Compare(u, v) = Compare(x, y)
    <3>1. i \in Nat \ {0} /\ i + 1 \in Nat \ {0}
      BY <2>2 DEF Differ
    <3>2. At(u, i + 1) = At(x, i) /\ At(v, i + 1) = At(y, i)
      BY <3>1 DEF After
    <3>3. ASSUME NEW k \in 1..((i + 1) - 1) PROVE At(u, k) = At(v, k)
      <4>1. CASE k = 1
        BY <1>2, <4>1
      <4>2. CASE k # 1
        <5>1. k - 1 \in Nat \ {0} /\ (k - 1) + 1 = k /\ k - 1 \in 1..(i - 1)
          BY <3>1, <4>2
        <5>2. At(u, (k - 1) + 1) = At(x, k - 1) /\ At(v, (k - 1) + 1) = At(y, k - 1)
          BY <5>1 DEF After
        <5>3. At(x, k - 1) = At(y, k - 1)
          BY <2>2, <5>1 DEF Differ
        <5> QED
          BY <5>1, <5>2, <5>3
      <4> QED
        BY <4>1, <4>2
    <3>4. Differ(u, v, i + 1)
      BY <2>2, <3>1, <3>2, <3>3 DEF Differ
    <3> QED
      BY <2>2, <3>2, <3>4, CompareDiffer
  <2> QED
    BY <1>2, <2>1, <2>2, CompareIs
<1> QED
  BY <1>1, <1>2

\* It is a total preorder.
LEMMA CompareOrders ==
  ASSUME NEW u \in Seq(Int), NEW v \in Seq(Int), NEW w \in Seq(Int)
  PROVE  /\ Compare(u, v) \in {-1, 0, 1} /\ Compare(u, u) = 0
         /\ Compare(v, u) = -Compare(u, v)
         /\ Compare(u, v) = 0 => Compare(u, w) = Compare(v, w)
         /\ Compare(u, v) < 0 /\ Compare(v, w) <= 0 => Compare(u, w) < 0
<1>0. \A x, y \in Seq(Int) : \A i : Differ(x, y, i) =>
        i \in Nat \ {0} /\ At(x, i) \in Int /\ At(y, i) \in Int /\ At(x, i) - At(y, i) \in Int
  BY AtIs, SMTT(30) DEF Differ
<1>1. Compare(u, v) \in {-1, 0, 1}
  <2>1. ASSUME NEW i, Differ(u, v, i) PROVE Sign(At(u, i) - At(v, i)) \in {-1, 0, 1}
    BY <1>0, <2>1, SignIs
  <2> QED
    BY <2>1, CompareIs
<1>2. Compare(u, u) = 0
  BY CompareSame DEF Same
<1>3. Compare(v, u) = -Compare(u, v)
  <2>1. CASE Same(u, v)
    <3>1. Same(v, u)
      BY <2>1 DEF Same
    <3> QED
      BY <2>1, <3>1, CompareSame
  <2>2. ASSUME NEW i, Differ(u, v, i) PROVE Compare(v, u) = -Compare(u, v)
    <3>1. Differ(v, u, i)
      BY <2>2 DEF Differ
    <3>2. At(v, i) - At(u, i) = -(At(u, i) - At(v, i))
      BY <1>0, <2>2
    <3> QED
      BY <1>0, <2>2, <3>1, <3>2, CompareDiffer, SignIs
  <2> QED
    BY <2>1, <2>2, CompareIs
<1>4. ASSUME Compare(u, v) = 0 PROVE Compare(u, w) = Compare(v, w)
  <2>1. Same(u, v)
    <3>1. ASSUME NEW i, Differ(u, v, i) PROVE Compare(u, v) # 0
      <4>1. Compare(u, v) = Sign(At(u, i) - At(v, i))
        BY <3>1, CompareDiffer
      <4>2. At(u, i) - At(v, i) \in Int /\ At(u, i) - At(v, i) # 0
        <5>1. At(u, i) \in Int /\ At(v, i) \in Int /\ At(u, i) # At(v, i)
          BY <1>0, <3>1 DEF Differ
        <5> QED
          BY ONLY <5>1
      <4> QED
        BY <4>1, <4>2, SignIs
    <3> QED
      BY <1>4, <3>1, CompareIs
  <2>2. CASE Same(v, w)
    <3>1. Same(u, w)
      BY <2>1, <2>2 DEF Same
    <3> QED
      BY <2>2, <3>1, CompareSame
  <2>3. ASSUME NEW i, Differ(v, w, i) PROVE Compare(u, w) = Compare(v, w)
    <3>1. Differ(u, w, i) /\ At(u, i) = At(v, i)
      BY <2>1, <2>3 DEF Differ, Same
    <3> QED
      BY <2>3, <3>1, CompareDiffer
  <2> QED
    BY <2>2, <2>3, CompareIs
<1>5. ASSUME Compare(u, v) < 0, Compare(v, w) <= 0 PROVE Compare(u, w) < 0
  <2>1. PICK i : Differ(u, v, i) /\ At(u, i) < At(v, i)
    <3>1. PICK i : Differ(u, v, i) /\ Compare(u, v) = Sign(At(u, i) - At(v, i))
      BY <1>5, CompareIs
    <3>2. At(u, i) - At(v, i) < 0
      BY <1>0, <1>5, <3>1, SignIs
    <3> QED
      BY <1>0, <3>1, <3>2
  <2>2. ASSUME NEW j, Differ(u, w, j), At(u, j) < At(w, j) PROVE Compare(u, w) < 0
    <3>1. Compare(u, w) = Sign(At(u, j) - At(w, j))
      BY <2>2, CompareDiffer
    <3>2. At(u, j) - At(w, j) \in Int /\ At(u, j) - At(w, j) < 0
      BY <1>0, <2>2
    <3> QED
      BY <3>1, <3>2, SignIs
  <2>3. CASE Same(v, w)
    <3>1. Differ(u, w, i) /\ At(u, i) < At(w, i)
      BY <2>1, <2>3 DEF Differ, Same
    <3> QED
      BY <2>2, <3>1
  <2>4. ASSUME NEW j, Differ(v, w, j), Compare(v, w) = Sign(At(v, j) - At(w, j))
        PROVE  Compare(u, w) < 0
    <3>1. At(v, j) < At(w, j)
      <4>1. At(v, j) - At(w, j) \in Int /\ At(v, j) - At(w, j) # 0
        <5>1. At(v, j) \in Int /\ At(w, j) \in Int /\ At(v, j) # At(w, j)
          BY <1>0, <2>4 DEF Differ
        <5> QED
          BY ONLY <5>1
      <4>2. Sign(At(v, j) - At(w, j)) < 0
        <5>1. /\ Sign(At(v, j) - At(w, j)) \in {-1, 0, 1}
              /\ Sign(At(v, j) - At(w, j)) # 0
          BY ONLY <4>1, SignIs
        <5> QED
          BY ONLY <1>5, <2>4, <5>1
      <4>3. At(v, j) - At(w, j) < 0
        BY <4>1, <4>2, SignIs
      <4> QED
        BY <1>0, <2>4, <4>3
    <3>2. i \in Nat \ {0} /\ j \in Nat \ {0}
      BY <2>1, <2>4 DEF Differ
    <3>3. /\ At(u, i) \in Int /\ At(v, i) \in Int /\ At(w, i) \in Int
          /\ At(u, j) \in Int /\ At(v, j) \in Int /\ At(w, j) \in Int
      BY <3>2, AtIs
    <3>4. CASE i < j
      <4>1. At(v, i) = At(w, i)
        BY <2>4, <3>2, <3>4 DEF Differ
      <4>2. \A k \in 1..(i - 1) : k \in 1..(j - 1)
        BY <3>2, <3>4
      <4>3. Differ(u, w, i)
        BY <2>1, <2>4, <3>3, <4>1, <4>2 DEF Differ
      <4> QED
        BY <2>1, <2>2, <4>1, <4>3
    <3>5. CASE j < i
      <4>1. At(u, j) = At(v, j)
        BY <2>1, <3>2, <3>5 DEF Differ
      <4>2. \A k \in 1..(j - 1) : k \in 1..(i - 1)
        BY <3>2, <3>5
      <4>3. Differ(u, w, j)
        BY <2>1, <2>4, <3>3, <4>1, <4>2 DEF Differ
      <4> QED
        BY <2>2, <3>1, <4>1, <4>3
    <3>6. CASE i = j
      <4>1. At(u, i) < At(w, i)
        BY <2>1, <3>1, <3>3, <3>6
      <4>2. At(u, i) # At(w, i)
        BY <3>3, <4>1
      <4>3. Differ(u, w, i)
        BY <2>1, <2>4, <3>6, <4>2 DEF Differ
      <4> QED
        BY <2>2, <4>1, <4>3
    <3> QED
      BY <3>2, <3>4, <3>5, <3>6
  <2> QED
    BY <2>3, <2>4, CompareIs
<1> QED
  BY <1>1, <1>2, <1>3, <1>4, <1>5

\* It does not tell apart what is the same.
LEMMA CompareEqual ==
  ASSUME NEW u \in Seq(Int), NEW v \in Seq(Int), NEW x \in Seq(Int), NEW y \in Seq(Int),
         Compare(u, x) = 0, Compare(v, y) = 0
  PROVE  Compare(u, v) = Compare(x, y)
<1>1. Compare(u, v) = Compare(x, v)
  BY CompareOrders
<1>2. Compare(v, x) = Compare(y, x)
  BY CompareOrders
<1>3. Compare(x, v) = -Compare(v, x) /\ Compare(x, y) = -Compare(y, x)
  BY CompareOrders
<1> QED
  BY <1>1, <1>2, <1>3

-----------------------------------------------------------------------------
(* The comparison of numbers.                                              *)

LEMMA BytesAreInts ==
  /\ \A s \in Seq(Byte) : s \in Seq(Int)
  /\ \A d \in Seq(Digit) : d \in Seq(Int) /\ d \in Seq(Byte)
<1>1. Byte \subseteq Int /\ Digit \subseteq Int /\ Digit \subseteq Byte
  BY DEF Byte, Digit
<1> QED
  BY <1>1, SeqMonotonic

\* Numbers of one length compare as text.
LEMMA TextOfNumbers ==
  ASSUME NEW d \in Seq(Digit), NEW e \in Seq(Digit), Len(d) = Len(e)
  PROVE  Compare(d, e) = Sign(Value(d) - Value(e))
<1>0. d \in Seq(Int) /\ e \in Seq(Int) /\ Value(d) \in Nat /\ Value(e) \in Nat /\ Len(d) \in Nat
  BY BytesAreInts, ValueIs, DigitIs
<1>1. CASE Same(d, e)
  <2>1. \A k \in 1..Len(d) : k \in Nat \ {0} /\ At(d, k) = d[k] /\ At(e, k) = e[k]
    BY <1>0 DEF At
  <2>2. \A k \in 1..Len(d) : d[k] = e[k]
    BY <1>1, <2>1 DEF Same
  <2>3. d = e
    BY <2>2, SeqEqual
  <2>4. Value(d) - Value(e) = 0
    BY <1>0, <2>3
  <2> QED
    BY <1>0, <1>1, <2>4, CompareSame, SignIs
<1>2. ASSUME NEW i, Differ(d, e, i) PROVE Compare(d, e) = Sign(Value(d) - Value(e))
  <2>1. i \in Nat \ {0}
    BY <1>2 DEF Differ
  <2>2. i \in 1..Len(d)
    <3>1. i > Len(d) => At(d, i) = 0 /\ At(e, i) = 0
      BY <1>0, <2>1, AtIs
    <3> QED
      BY <1>0, <1>2, <2>1, <3>1 DEF Differ
  <2>3. \A k \in 1..Len(d) : At(d, k) = d[k] /\ At(e, k) = e[k] /\ d[k] \in Int /\ e[k] \in Int
    BY <1>0, DigitIs DEF At
  <2>4. \A k \in 1..(i - 1) : d[k] = e[k]
    <3>1. \A k \in 1..(i - 1) : k \in 1..Len(d)
      BY <2>2
    <3> QED
      BY <1>2, <2>3, <3>1 DEF Differ
  <2>5. Compare(d, e) = Sign(d[i] - e[i]) /\ d[i] # e[i]
    BY <1>0, <1>2, <2>2, <2>3, CompareDiffer, SMTT(30) DEF Differ
  <2>6. CASE d[i] < e[i]
    <3>1. Value(d) < Value(e)
      BY <2>2, <2>4, <2>6, ValueFirst
    <3> QED
      BY <1>0, <2>2, <2>3, <2>5, <2>6, <3>1 DEF Sign
  <2>7. CASE e[i] < d[i]
    <3>1. i \in 1..Len(e) /\ Len(e) = Len(d) /\ \A k \in 1..(i - 1) : e[k] = d[k]
      BY <2>2, <2>4
    <3>2. Value(e) < Value(d)
      BY ONLY <2>7, <3>1, ValueFirst, d \in Seq(Digit), e \in Seq(Digit)
    <3> QED
      BY <1>0, <2>2, <2>3, <2>5, <2>7, <3>2 DEF Sign
  <2> QED
    BY <2>2, <2>3, <2>5, <2>6, <2>7
<1> QED
  BY <1>0, <1>1, <1>2, CompareIs

\* The digits behind the zeros are the same number, without zeros in front.
LEMMA BehindZeros ==
  ASSUME NEW s \in Seq(Byte), NEW i \in 1..(Len(s) + 1)
  PROVE  LET d == Digits(s, Skip(s, i, {Zero}))
         IN /\ d \in Seq(Digit) /\ Value(d) = Value(Digits(s, i))
            /\ Len(d) > 0 => d[1] # Zero
<1> DEFINE z == Skip(s, i, {Zero})
           e == Skip(s, i, Digit)
           d == Digits(s, z)
           c == Digits(s, i)
<1>0. Len(s) \in Nat
  OBVIOUS
<1>1. /\ z \in i..(Len(s) + 1) /\ \A k \in i..(z - 1) : s[k] = Zero
      /\ z <= Len(s) => s[z] # Zero
  BY <1>0, SkipStops DEF Stops
<1>2. /\ e \in i..(Len(s) + 1) /\ \A k \in i..(e - 1) : s[k] \in Digit
      /\ e <= Len(s) => s[e] \notin Digit
  BY <1>0, SkipStops DEF Stops
<1>3. /\ c \in Seq(Digit) /\ Len(c) = e - i
      /\ \A k \in 1..(e - i) : c[k] = s[i + k - 1]
  BY DigitsAre
<1> HIDE DEF e
<1>4. z \in i..e
  <2>1. CASE e < z
    <3>1. e \in i..(z - 1) /\ e <= Len(s)
      BY <1>0, <1>1, <1>2, <2>1
    <3>2. s[e] = Zero
      BY <1>1, <3>1
    <3> QED
      BY <1>2, <3>1, <3>2 DEF Zero, Digit
  <2> HIDE DEF z
  <2> QED
    BY <1>1, <1>2, <2>1
<1>5. Skip(s, z, Digit) = e
  <2> HIDE DEF z
  <2>1. Stops(s, z, Digit, e)
    BY <1>2, <1>4 DEF Stops
  <2>2. z \in 1..(Len(s) + 1)
    BY <1>0, <1>1
  <2> QED
    BY <1>0, <2>1, <2>2, SkipUnique
<1>6. /\ d \in Seq(Digit) /\ Len(d) = e - z
      /\ \A k \in 1..(e - z) : d[k] = s[z + k - 1]
  <2> HIDE DEF z
  <2>1. z \in 1..(Len(s) + 1)
    BY <1>0, <1>1
  <2> QED
    BY <1>5, <2>1, DigitsAre
<1> HIDE DEF z, c, d
<1>7. Value(c) = Value(d)
  <2> DEFINE m == z - i
  <2>1. m \in Nat /\ Len(c) = Len(d) + m /\ Len(d) \in Nat
    BY <1>1, <1>2, <1>3, <1>4, <1>6
  <2>2. ASSUME NEW k \in 1..m PROVE c[k] = Zero
    <3>1. k \in 1..(e - i) /\ i + k - 1 \in i..(z - 1)
      BY <1>1, <1>2, <1>4
    <3> QED
      BY <1>1, <1>3, <3>1
  <2>3. ASSUME NEW k \in 1..Len(d) PROVE c[k + m] = d[k]
    <3>1. k \in 1..(e - z) /\ k + m \in 1..(e - i) /\ i + (k + m) - 1 = z + k - 1
      BY <1>1, <1>2, <1>4, <1>6
    <3> QED
      BY <1>3, <1>6, <3>1
  <2> HIDE DEF m
  <2> QED
    BY <1>3, <1>6, <2>1, <2>2, <2>3, ValueZeros
<1>8. Len(d) > 0 => d[1] # Zero
  <2>1. Len(d) > 0 => 1 \in 1..(e - z) /\ z + 1 - 1 = z /\ z <= Len(s)
    BY <1>0, <1>1, <1>2, <1>4, <1>6
  <2> QED
    BY <1>1, <1>6, <2>1
<1> QED
  BY <1>6, <1>7, <1>8 DEF d, c, z

\* Both comparisons compare numbers by their value.
LEMMA NumbersAre ==
  ASSUME NEW s \in Seq(Byte), NEW i \in 1..(Len(s) + 1),
         NEW t \in Seq(Byte), NEW j \in 1..(Len(t) + 1)
  PROVE  /\ Numbers(s, i, t, j) = Sign(Value(Digits(s, i)) - Value(Digits(t, j)))
         /\ Value(Digits(s, i)) \in Nat /\ Value(Digits(t, j)) \in Nat
<1> DEFINE d == Digits(s, Skip(s, i, {Zero}))
           e == Digits(t, Skip(t, j, {Zero}))
<1>1. d \in Seq(Digit) /\ Value(d) = Value(Digits(s, i)) /\ (Len(d) > 0 => d[1] # Zero)
  BY BehindZeros
<1>2. e \in Seq(Digit) /\ Value(e) = Value(Digits(t, j)) /\ (Len(e) > 0 => e[1] # Zero)
  BY BehindZeros
<1>3. Numbers(s, i, t, j) = IF Len(d) # Len(e) THEN Sign(Len(d) - Len(e)) ELSE Compare(d, e)
  BY DEF Numbers
<1> HIDE DEF d, e
<1>4. Len(d) \in Nat /\ Len(e) \in Nat /\ Value(d) \in Nat /\ Value(e) \in Nat
  BY <1>1, <1>2, ValueIs, DigitIs
<1>5. CASE Len(d) = Len(e)
  BY <1>1, <1>2, <1>3, <1>4, <1>5, TextOfNumbers
<1>6. CASE Len(d) < Len(e)
  <2>1. Value(d) < Value(e)
    BY <1>1, <1>2, <1>4, <1>6, ValueLonger
  <2> QED
    BY <1>1, <1>2, <1>3, <1>4, <1>6, <2>1 DEF Sign
<1>7. CASE Len(e) < Len(d)
  <2>1. Value(e) < Value(d)
    BY <1>1, <1>2, <1>4, <1>7, ValueLonger
  <2> QED
    BY <1>1, <1>2, <1>3, <1>4, <1>7, <2>1 DEF Sign
<1> QED
  BY <1>1, <1>2, <1>4, <1>5, <1>6, <1>7

-----------------------------------------------------------------------------
(* Keys.                                                                   *)

LEMMA Cons ==
  ASSUME NEW a \in Int, NEW x \in Seq(Int)
  PROVE  <<a>> \o x \in Seq(Int) /\ At(<<a>> \o x, 1) = a /\ After(<<a>> \o x, x)
<1>1. <<a>> \in Seq(Int) /\ Len(<<a>>) = 1 /\ <<a>>[1] = a
  OBVIOUS
<1> DEFINE u == <<a>> \o x
<1>2. /\ u \in Seq(Int) /\ Len(u) = 1 + Len(x)
      /\ \A k \in 1..(1 + Len(x)) : u[k] = IF k <= 1 THEN <<a>>[k] ELSE x[k - 1]
  BY <1>1, ConcatProperties
<1> HIDE DEF u
<1>3. Len(x) \in Nat /\ Len(u) \in Nat
  OBVIOUS
<1>4. At(u, 1) = a
  BY <1>1, <1>2, <1>3 DEF At
<1>5. ASSUME NEW n \in Nat \ {0} PROVE At(u, n + 1) = At(x, n)
  <2>1. n <= Len(x) => n + 1 \in 1..(1 + Len(x)) /\ ~(n + 1 <= 1) /\ (n + 1) - 1 = n
    BY <1>3
  <2> QED
    BY <1>2, <1>3, <2>1, SMTT(30) DEF At
<1> QED
  BY <1>2, <1>4, <1>5 DEF After, u

LEMMA ConsTwo ==
  ASSUME NEW a \in Int, NEW b \in Int, NEW x \in Seq(Int)
  PROVE  <<a, b>> \o x = <<a>> \o (<<b>> \o x)
<1>1. <<a>> \in Seq(Int) /\ <<b>> \in Seq(Int) /\ <<a, b>> \in Seq(Int)
  OBVIOUS
<1>2. <<a>> \o <<b>> = <<a, b>>
  <2>1. /\ <<a>> \o <<b>> \in Seq(Int) /\ Len(<<a>> \o <<b>>) = 2
        /\ \A i \in 1..2 : (<<a>> \o <<b>>)[i] = IF i <= 1 THEN <<a>>[i] ELSE <<b>>[i - 1]
    <3>1. Len(<<a>>) = 1 /\ Len(<<b>>) = 1
      OBVIOUS
    <3> DEFINE x1 == <<a>>
               y1 == <<b>>
    <3>2. /\ x1 \o y1 \in Seq(Int) /\ Len(x1 \o y1) = Len(x1) + Len(y1)
          /\ \A i \in 1..(Len(x1) + Len(y1)) :
               (x1 \o y1)[i] = IF i <= Len(x1) THEN x1[i] ELSE y1[i - Len(x1)]
      <4> HIDE DEF x1, y1
      <4> QED
        BY <1>1, ConcatProperties DEF x1, y1
    <3>3. Len(x1) = 1 /\ Len(y1) = 1
      BY <3>1
    <3> HIDE DEF x1, y1
    <3>4. /\ x1 \o y1 \in Seq(Int) /\ Len(x1 \o y1) = 2
          /\ \A i \in 1..2 : (x1 \o y1)[i] = IF i <= 1 THEN x1[i] ELSE y1[i - 1]
      BY <3>2, <3>3
    <3> QED
      BY <3>4 DEF x1, y1
  <2>2. Len(<<a, b>>) = 2 /\ <<a, b>>[1] = a /\ <<a, b>>[2] = b
    OBVIOUS
  <2>3. \A i \in 1..2 : (<<a>> \o <<b>>)[i] = <<a, b>>[i]
    <3>1. \A i \in 1..2 : i = 1 \/ i = 2
      OBVIOUS
    <3>2. (<<a>> \o <<b>>)[1] = a /\ (<<a>> \o <<b>>)[2] = b
      BY <2>1
    <3> QED
      BY <2>2, <3>1, <3>2
  <2> QED
    BY <1>1, <2>1, <2>2, <2>3, SeqEqual
<1>3. (<<a>> \o <<b>>) \o x = <<a>> \o (<<b>> \o x)
  BY <1>1, ConcatAssociative
<1> QED
  BY <1>2, <1>3

\* What the key of a string has at each place of it.
KeyAt(k, s, number, weight, i) ==
  IF i > Len(s) THEN <<>>
  ELSE IF s[i] \in Digit THEN <<number, Value(Digits(s, i))>> \o k[Skip(s, i, Digit)]
  ELSE <<weight[s[i]]>> \o k[i + 1]

\* It is a sequence of numbers if what follows is.
LEMMA KeyAtIs ==
  ASSUME NEW s \in Seq(Byte), NEW number \in Int, NEW weight \in [Byte -> Int], NEW k,
         NEW i \in 1..(Len(s) + 1), \A j \in (i + 1)..(Len(s) + 1) : k[j] \in Seq(Int)
  PROVE  KeyAt(k, s, number, weight, i) \in Seq(Int)
<1>0. Len(s) \in Nat /\ \A n \in 1..Len(s) : s[n] \in Byte
  OBVIOUS
<1>1. CASE i > Len(s)
  BY <1>1 DEF KeyAt
<1>2. CASE i <= Len(s) /\ s[i] \in Digit
  <2>1. Skip(s, i, Digit) \in (i + 1)..(Len(s) + 1)
    <3>1. Stops(s, i, Digit, Skip(s, i, Digit))
      BY <1>0, SkipStops
    <3> QED
      BY <1>0, <1>2, <3>1 DEF Stops
  <2>2. Value(Digits(s, i)) \in Int
    BY DigitsAre, ValueIs
  <2>3. <<number, Value(Digits(s, i))>> \in Seq(Int)
    BY <2>2
  <2>4. <<number, Value(Digits(s, i))>> \o k[Skip(s, i, Digit)] \in Seq(Int)
    BY <2>1, <2>3, ConcatProperties
  <2> QED
    BY <1>0, <1>2, <2>4 DEF KeyAt
<1>3. CASE i <= Len(s) /\ s[i] \notin Digit
  <2>1. weight[s[i]] \in Int /\ i + 1 \in (i + 1)..(Len(s) + 1)
    BY <1>0, <1>3
  <2>2. <<weight[s[i]]>> \o k[i + 1] \in Seq(Int)
    BY <2>1, Cons
  <2> QED
    BY <1>0, <1>3, <2>2 DEF KeyAt
<1> QED
  BY <1>0, <1>1, <1>2, <1>3

\* A value further on is all that it depends on.
LEMMA KeyAtSame ==
  ASSUME NEW s \in Seq(Byte), NEW number, NEW weight, NEW k, NEW l,
         NEW i \in 1..(Len(s) + 1), \A j \in (i + 1)..(Len(s) + 1) : k[j] = l[j]
  PROVE  KeyAt(k, s, number, weight, i) = KeyAt(l, s, number, weight, i)
<1>0. Len(s) \in Nat
  OBVIOUS
<1>1. i <= Len(s) /\ s[i] \in Digit => Skip(s, i, Digit) \in (i + 1)..(Len(s) + 1)
  <2>1. Stops(s, i, Digit, Skip(s, i, Digit))
    BY <1>0, SkipStops
  <2> QED
    BY <1>0, <2>1 DEF Stops
<1>2. i <= Len(s) => i + 1 \in (i + 1)..(Len(s) + 1)
  BY <1>0
<1> QED
  BY <1>0, <1>1, <1>2 DEF KeyAt

Keyed(k, s, number, weight) ==
  /\ k \in [1..(Len(s) + 1) -> Seq(Int)]
  /\ \A i \in 1..(Len(s) + 1) : k[i] = KeyAt(k, s, number, weight, i)

LEMMA KeyIs ==
  ASSUME NEW s \in Seq(Byte), NEW number \in Int, NEW weight \in [Byte -> Int]
  PROVE  \E k : Keyed(k, s, number, weight) /\ Key(s, number, weight) = k[1]
<1> DEFINE N == Len(s) + 1
           S == Seq(Int)
           turn == [i \in 1..N |-> [k \in [1..N -> S] |-> KeyAt(k, s, number, weight, i)]]
           Run(k) == k = [i \in 1..N |-> KeyAt(k, s, number, weight, i)]
<1>0. Len(s) \in Nat /\ N \in Nat /\ S # {}
  <2>1. <<>> \in S /\ Len(s) \in Nat
    OBVIOUS
  <2> HIDE DEF S
  <2> QED
    BY <2>1
<1>1. turn \in [1..N -> [[1..N -> S] -> S]]
  <2> SUFFICES ASSUME NEW i \in 1..N, NEW k \in [1..N -> S]
               PROVE  KeyAt(k, s, number, weight, i) \in S
    OBVIOUS
  <2>1. \A j \in (i + 1)..N : k[j] \in Seq(Int)
    OBVIOUS
  <2> QED
    BY <2>1, KeyAtIs
<1>2. \A i \in 1..N : \A f, g \in [1..N -> S] :
        (\A j \in (i + 1)..N : f[j] = g[j]) => turn[i][f] = turn[i][g]
  <2> SUFFICES ASSUME NEW i \in 1..N, NEW f \in [1..N -> S], NEW g \in [1..N -> S],
                      \A j \in (i + 1)..N : f[j] = g[j]
               PROVE  KeyAt(f, s, number, weight, i) = KeyAt(g, s, number, weight, i)
    OBVIOUS
  <2> QED
    BY KeyAtSame
<1>3. PICK f \in [1..N -> S] : \A i \in 1..N : f[i] = turn[i][f]
  <2>1. N \in Nat /\ S # {}
    BY <1>0
  <2> HIDE DEF N, S, turn
  <2>2. Backward(turn, N, S)
    BY <1>1, <1>2 DEF Backward
  <2>3. \E f : Recurs(f, turn, N, S)
    BY <2>1, <2>2, Recursion
  <2> QED
    BY <2>3 DEF Recurs
<1>4. Run(f)
  <2>1. \A i \in 1..N : f[i] = KeyAt(f, s, number, weight, i)
    <3> SUFFICES ASSUME NEW i \in 1..N PROVE f[i] = KeyAt(f, s, number, weight, i)
      OBVIOUS
    <3> HIDE DEF S, N
    <3> QED
      BY <1>3
  <2>2. f = [i \in 1..N |-> f[i]]
    OBVIOUS
  <2> QED
    BY <2>1, <2>2
<1>5. PICK k : Run(k) /\ Key(s, number, weight) = k[1]
  <2> DEFINE k == CHOOSE key : Run(key)
  <2>1. Run(k)
    <3> HIDE DEF Run
    <3> QED
      BY <1>4
  <2>2. Key(s, number, weight) = k[1]
    BY DEF Key, KeyAt
  <2> HIDE DEF k, Run
  <2> QED
    BY <2>1, <2>2
<1>6. \A i \in 1..N : k[i] = KeyAt(k, s, number, weight, i)
  BY <1>5
<1>7. \A i \in 1..N : k[i] \in S
  <2> DEFINE B == {i \in 1..N : k[i] \notin S}
  <2>1. CASE B # {}
    <3>1. IsFiniteSet(B) /\ B \subseteq Int
      <4>1. IsFiniteSet(1..N) /\ B \in SUBSET (1..N)
        BY <1>0, FS_Interval
      <4> QED
        BY <4>1, FS_Subset
    <3>2. PICK i \in B : \A j \in B : j <= i
      <4> HIDE DEF B
      <4> QED
        BY <2>1, <3>1, Greatest
    <3>3. \A j \in (i + 1)..N : j \in 1..N /\ ~(j <= i)
      OBVIOUS
    <3>4. \A j \in (i + 1)..N : k[j] \in S
      BY <3>2, <3>3
    <3>5. KeyAt(k, s, number, weight, i) \in S
      BY <3>4, KeyAtIs
    <3> QED
      BY <1>6, <3>5
  <2> QED
    BY <2>1
<1>8. k \in [1..N -> S]
  <2>1. k = [i \in 1..N |-> k[i]]
    <3>1. Run(k)
      BY <1>5
    <3> QED
      BY <3>1
  <2> HIDE DEF S, N
  <2> QED
    BY <1>7, <2>1
<1> QED
  BY <1>5, <1>6, <1>8 DEF Keyed

LEMMA KeyHas ==
  ASSUME NEW s, NEW number, NEW weight, NEW k, Keyed(k, s, number, weight),
         NEW i \in 1..(Len(s) + 1)
  PROVE  k[i] \in Seq(Int) /\ k[i] = KeyAt(k, s, number, weight, i)
BY DEF Keyed

\* The end of a string, a byte and a number, as its key shows them.
LEMMA KeyEnd ==
  ASSUME NEW s \in Seq(Byte), NEW number \in Int, NEW weight \in [Byte -> Int],
         NEW k, Keyed(k, s, number, weight), NEW i \in 1..(Len(s) + 1), i > Len(s)
  PROVE  /\ k[i] \in Seq(Int) /\ At(k[i], 1) = 0 /\ After(k[i], k[i])
         /\ Skip(s, i, Digit) = i /\ Value(Digits(s, i)) = 0
<1>1. k[i] = <<>> /\ k[i] \in Seq(Int)
  BY KeyHas DEF KeyAt
<1>2. \A n \in Nat \ {0} : At(k[i], n) = 0
  <2> SUFFICES ASSUME NEW n \in Nat \ {0} PROVE At(k[i], n) = 0
    OBVIOUS
  <2>1. Len(k[i]) = 0
    BY <1>1
  <2>2. n > Len(k[i])
    BY <2>1
  <2> QED
    BY <1>1, <2>2, AtIs
<1>3. Len(s) \in Nat /\ i = Len(s) + 1
  OBVIOUS
<1>4. Skip(s, i, Digit) = i
  <2>1. Skip(s, i, Digit) \in i..(Len(s) + 1)
    BY DigitsAre
  <2> QED
    BY <1>3, <2>1
<1>5. Digits(s, i) \in Seq(Digit) /\ Len(Digits(s, i)) = 0
  BY <1>3, <1>4, DigitsAre
<1>6. Value(Digits(s, i)) = 0
  BY <1>5, ValueReads DEF Reads
<1>7. \A n \in Nat \ {0} : n + 1 \in Nat \ {0}
  OBVIOUS
<1> QED
  BY <1>1, <1>2, <1>4, <1>6, <1>7 DEF After

LEMMA KeyText ==
  ASSUME NEW s \in Seq(Byte), NEW number \in Int, NEW weight \in [Byte -> Int],
         NEW k, Keyed(k, s, number, weight), NEW i \in 1..(Len(s) + 1), InText(s, i)
  PROVE  /\ k[i] \in Seq(Int) /\ k[i + 1] \in Seq(Int)
         /\ i + 1 \in 1..(Len(s) + 1) /\ s[i] \in Byte \ Digit
         /\ At(k[i], 1) = weight[s[i]] /\ After(k[i], k[i + 1])
<1>1. Len(s) \in Nat /\ i <= Len(s) /\ s[i] \notin Digit /\ i \in 1..Len(s)
  BY DEF InText
<1>2. s[i] \in Byte /\ weight[s[i]] \in Int /\ i + 1 \in 1..(Len(s) + 1)
  BY <1>1
<1>3. k[i] \in Seq(Int) /\ k[i + 1] \in Seq(Int)
  BY <1>2, KeyHas
<1>4. k[i] = <<weight[s[i]]>> \o k[i + 1]
  <2>1. k[i] = KeyAt(k, s, number, weight, i)
    BY KeyHas
  <2>2. KeyAt(k, s, number, weight, i) = <<weight[s[i]]>> \o k[i + 1]
    BY <1>1 DEF KeyAt
  <2> QED
    BY <2>1, <2>2
<1> QED
  BY <1>1, <1>2, <1>3, <1>4, Cons

LEMMA KeyNumber ==
  ASSUME NEW s \in Seq(Byte), NEW number \in Int, NEW weight \in [Byte -> Int],
         NEW k, Keyed(k, s, number, weight), NEW i \in 1..(Len(s) + 1),
         i <= Len(s), s[i] \in Digit
  PROVE  /\ k[i] \in Seq(Int) /\ At(k[i], 1) = number
         /\ Skip(s, i, Digit) \in (i + 1)..(Len(s) + 1)
         /\ k[Skip(s, i, Digit)] \in Seq(Int)
         /\ \E x \in Seq(Int) : /\ After(k[i], x) /\ At(x, 1) = Value(Digits(s, i))
                                /\ After(x, k[Skip(s, i, Digit)])
<1> DEFINE e == Skip(s, i, Digit)
           value == Value(Digits(s, i))
<1>1. Len(s) \in Nat
  OBVIOUS
<1>2. e \in (i + 1)..(Len(s) + 1)
  <2>1. Stops(s, i, Digit, e)
    BY <1>1, SkipStops
  <2> HIDE DEF e
  <2> QED
    BY <1>1, <2>1 DEF Stops
<1>3. value \in Int
  BY DigitsAre, ValueIs
<1>4. k[i] = <<number, value>> \o k[e]
  <2>1. k[i] = KeyAt(k, s, number, weight, i)
    BY KeyHas
  <2>2. KeyAt(k, s, number, weight, i) = <<number, value>> \o k[e]
    BY <1>1, SMTT(30) DEF KeyAt
  <2> QED
    BY <2>1, <2>2
<1> HIDE DEF e, value
<1>5. k[e] \in Seq(Int) /\ k[i] \in Seq(Int)
  <2>1. e \in 1..(Len(s) + 1)
    BY <1>1, <1>2
  <2> QED
    BY <2>1, KeyHas
<1> DEFINE x == <<value>> \o k[e]
<1>6. x \in Seq(Int) /\ At(x, 1) = value /\ After(x, k[e])
  BY <1>3, <1>5, Cons
<1>7. k[i] = <<number>> \o x
  BY <1>3, <1>4, <1>5, ConsTwo
<1> HIDE DEF x
<1>8. At(k[i], 1) = number /\ After(k[i], x)
  BY <1>6, <1>7, Cons
<1> QED
  BY <1>2, <1>5, <1>6, <1>8 DEF e, value

-----------------------------------------------------------------------------
(* The loops.                                                              *)

\* Two functions that agree at every place, or go on to one place behind it.
Follow(f, h, N, M) ==
  \A i \in 1..N, j \in 1..M :
    \/ f[<<i, j>>] = h[<<i, j>>]
    \/ \E a \in 1..N, b \in 1..M :
         a + b > i + j /\ f[<<i, j>>] = f[<<a, b>>] /\ h[<<i, j>>] = h[<<a, b>>]

LEMMA FollowSame ==
  ASSUME NEW N \in Nat, NEW M \in Nat, NEW f, NEW h, Follow(f, h, N, M)
  PROVE  \A i \in 1..N, j \in 1..M : f[<<i, j>>] = h[<<i, j>>]
<1> DEFINE B == {n \in 0..(N + M) : \E i \in 1..N, j \in 1..M : n = i + j /\ f[<<i, j>>] # h[<<i, j>>]}
<1>1. CASE B # {}
  <2>1. IsFiniteSet(B) /\ B \subseteq Int
    <3>1. IsFiniteSet(0..(N + M)) /\ B \in SUBSET (0..(N + M))
      BY FS_Interval
    <3> QED
      BY <3>1, FS_Subset
  <2>2. PICK n \in B : \A m \in B : m <= n
    <3> HIDE DEF B
    <3> QED
      BY <1>1, <2>1, Greatest
  <2>3. PICK i \in 1..N, j \in 1..M : n = i + j /\ f[<<i, j>>] # h[<<i, j>>]
    BY <2>2
  <2>4. PICK a \in 1..N, b \in 1..M : a + b > i + j /\ f[<<i, j>>] = f[<<a, b>>] /\ h[<<i, j>>] = h[<<a, b>>]
    BY <2>3 DEF Follow
  <2>5. a + b \in 0..(N + M) /\ f[<<a, b>>] # h[<<a, b>>]
    BY <2>3, <2>4
  <2>6. a + b \in B
    BY <2>5
  <2> HIDE DEF B
  <2>7. a + b <= n
    BY <2>2, <2>6
  <2> QED
    BY <2>3, <2>4, <2>7
<1>2. CASE B = {}
  <2>1. \A i \in 1..N, j \in 1..M : i + j \in 0..(N + M)
    OBVIOUS
  <2> QED
    BY <1>2, <2>1
<1> QED
  BY <1>1, <1>2

\* A turn of the loops either decides as the keys do or goes on as they do.
GoesOn(turn, f, k, l, i, j, N, M) ==
  \/ turn = Compare(k[i], l[j])
  \/ \E a \in 1..N, b \in 1..M :
       /\ a + b > i + j /\ turn = f[<<a, b>>]
       /\ Compare(k[i], l[j]) = Compare(k[a], l[b])

LEMMA DebianWeightIs ==
  /\ DebianWeight \in [Byte -> Int]
  /\ \A b \in Byte \ Digit : DebianOrder(b) = DebianWeight[b] /\ DebianWeight[b] # 0
<1>1. ASSUME NEW b \in Byte
      PROVE  /\ DebianOrder(b) \in Int
             /\ DebianOrder(b) = CASE b = Tilde -> -1
                                   [] b \in 65..90 \cup 97..122 -> b
                                   [] OTHER -> 256 + b
             /\ DebianOrder(b) # 0
  BY DEF DebianOrder, Byte, Tilde
<1> QED
  BY <1>1 DEF DebianWeight

\* A place in a string, as the key shows it to a turn of the loops.
LEMMA DebianPlace ==
  ASSUME NEW s \in Seq(Byte), NEW k, Keyed(k, s, 0, DebianWeight), NEW i \in 1..(Len(s) + 1)
  PROVE  /\ k[i] \in Seq(Int) /\ Len(s) \in Nat
         /\ At(k[i], 1) = NextOrder(s, i) /\ NextOrder(s, i) \in Int
         /\ NextOrder(s, i) = 0 <=> ~InText(s, i)
         /\ InText(s, i) => /\ After(k[i], k[i + 1]) /\ k[i + 1] \in Seq(Int)
                            /\ Step(s, i) = i + 1 /\ i + 1 \in 1..(Len(s) + 1)
         /\ ~InText(s, i) =>
              /\ Skip(s, i, Digit) \in i..(Len(s) + 1) /\ k[Skip(s, i, Digit)] \in Seq(Int)
              /\ i <= Len(s) => Skip(s, i, Digit) > i
              /\ \E x \in Seq(Int) : /\ After(k[i], x) /\ At(x, 1) = Value(Digits(s, i))
                                     /\ After(x, k[Skip(s, i, Digit)])
<1> DEFINE e == Skip(s, i, Digit)
           n == Value(Digits(s, i))
<1>0. Len(s) \in Nat /\ DebianWeight \in [Byte -> Int]
  BY DebianWeightIs
<1>1. CASE InText(s, i)
  <2>1. /\ k[i] \in Seq(Int) /\ k[i + 1] \in Seq(Int)
        /\ i + 1 \in 1..(Len(s) + 1) /\ s[i] \in Byte \ Digit
        /\ At(k[i], 1) = DebianWeight[s[i]] /\ After(k[i], k[i + 1])
    BY <1>0, <1>1, KeyText
  <2>2. DebianOrder(s[i]) = DebianWeight[s[i]] /\ DebianWeight[s[i]] # 0
    BY <2>1, DebianWeightIs
  <2>3. DebianWeight[s[i]] \in Int
    BY <1>0, <2>1
  <2>4. NextOrder(s, i) = DebianOrder(s[i]) /\ Step(s, i) = i + 1
    BY <1>1 DEF NextOrder, Step
  <2> QED
    BY <1>0, <1>1, <2>1, <2>2, <2>3, <2>4
<1>2. CASE i <= Len(s) /\ s[i] \in Digit
  <2>1. ~InText(s, i) /\ NextOrder(s, i) = 0
    BY <1>2 DEF NextOrder, InText
  <2>2. /\ k[i] \in Seq(Int) /\ At(k[i], 1) = 0
        /\ e \in (i + 1)..(Len(s) + 1) /\ k[e] \in Seq(Int)
        /\ \E x \in Seq(Int) : After(k[i], x) /\ At(x, 1) = n /\ After(x, k[e])
    BY <1>0, <1>2, KeyNumber
  <2> HIDE DEF e, n
  <2>3. e \in i..(Len(s) + 1) /\ e > i
    BY <1>0, <2>2
  <2> QED
    BY <1>0, <2>1, <2>2, <2>3 DEF e, n
<1>3. CASE i > Len(s)
  <2>1. /\ k[i] \in Seq(Int) /\ At(k[i], 1) = 0 /\ After(k[i], k[i]) /\ e = i /\ n = 0
    BY <1>0, <1>3, KeyEnd
  <2>2. ~InText(s, i) /\ NextOrder(s, i) = 0
    BY <1>0, <1>3 DEF NextOrder, InText
  <2> HIDE DEF e, n
  <2>3. e \in i..(Len(s) + 1) /\ ~(i <= Len(s))
    BY <1>0, <1>3, <2>1
  <2> QED
    BY <1>0, <2>1, <2>2, <2>3 DEF e, n
<1> QED
  BY <1>0, <1>1, <1>2, <1>3 DEF InText

\* Each turn of the loop either decides as the keys do or goes on as they do.
LEMMA DebianTurns ==
  ASSUME NEW s \in Seq(Byte), NEW k, Keyed(k, s, 0, DebianWeight), NEW i \in 1..(Len(s) + 1),
         NEW t \in Seq(Byte), NEW l, Keyed(l, t, 0, DebianWeight), NEW j \in 1..(Len(t) + 1),
         NEW f
  PROVE  GoesOn(DebianTurn(f, s, i, t, j), f, k, l, i, j, Len(s) + 1, Len(t) + 1)
<1> SUFFICES \/ DebianTurn(f, s, i, t, j) = Compare(k[i], l[j])
             \/ \E a \in 1..(Len(s) + 1), b \in 1..(Len(t) + 1) :
                  /\ a + b > i + j /\ DebianTurn(f, s, i, t, j) = f[<<a, b>>]
                  /\ Compare(k[i], l[j]) = Compare(k[a], l[b])
  BY DEF GoesOn
<1> DEFINE e == Skip(s, i, Digit)
           g == Skip(t, j, Digit)
           n == Value(Digits(s, i))
           m == Value(Digits(t, j))
<1>0. Len(s) \in Nat /\ Len(t) \in Nat /\ DebianWeight \in [Byte -> Int]
  BY DebianWeightIs
<1>1. /\ k[i] \in Seq(Int)
      /\ At(k[i], 1) = NextOrder(s, i) /\ NextOrder(s, i) \in Int
      /\ NextOrder(s, i) = 0 <=> ~InText(s, i)
      /\ InText(s, i) => /\ After(k[i], k[i + 1]) /\ k[i + 1] \in Seq(Int)
                         /\ Step(s, i) = i + 1 /\ i + 1 \in 1..(Len(s) + 1)
      /\ ~InText(s, i) => /\ e \in i..(Len(s) + 1) /\ k[e] \in Seq(Int)
                          /\ i <= Len(s) => e > i
                          /\ \E x \in Seq(Int) : After(k[i], x) /\ At(x, 1) = n /\ After(x, k[e])
  BY DebianPlace
<1>2. /\ l[j] \in Seq(Int)
      /\ At(l[j], 1) = NextOrder(t, j) /\ NextOrder(t, j) \in Int
      /\ NextOrder(t, j) = 0 <=> ~InText(t, j)
      /\ InText(t, j) => /\ After(l[j], l[j + 1]) /\ l[j + 1] \in Seq(Int)
                         /\ Step(t, j) = j + 1 /\ j + 1 \in 1..(Len(t) + 1)
      /\ ~InText(t, j) => /\ g \in j..(Len(t) + 1) /\ l[g] \in Seq(Int)
                          /\ j <= Len(t) => g > j
                          /\ \E y \in Seq(Int) : After(l[j], y) /\ At(y, 1) = m /\ After(y, l[g])
  BY DebianPlace
<1>3. Numbers(s, i, t, j) = Sign(n - m) /\ n \in Nat /\ m \in Nat
  BY NumbersAre
<1> HIDE DEF e, g, n, m
<1>4. CASE (InText(s, i) \/ InText(t, j)) /\ NextOrder(s, i) # NextOrder(t, j)
  <2>1. DebianTurn(f, s, i, t, j) = Sign(NextOrder(s, i) - NextOrder(t, j))
    BY <1>4, <1>1, <1>2 DEF DebianTurn, InText
  <2>2. Differ(k[i], l[j], 1)
    BY <1>1, <1>2, <1>4 DEF Differ
  <2>3. Compare(k[i], l[j]) = Sign(At(k[i], 1) - At(l[j], 1))
    BY <1>1, <1>2, <2>2, CompareDiffer
  <2> QED
    BY <1>1, <1>2, <2>1, <2>3
<1>5. CASE (InText(s, i) \/ InText(t, j)) /\ NextOrder(s, i) = NextOrder(t, j)
  <2>1. InText(s, i) /\ InText(t, j)
    BY <1>1, <1>2, <1>5
  <2>2. DebianTurn(f, s, i, t, j) = f[<<i + 1, j + 1>>]
    BY <1>1, <1>2, <1>5, <2>1 DEF DebianTurn
  <2>3. Compare(k[i], l[j]) = Compare(k[i + 1], l[j + 1])
    BY <1>1, <1>2, <1>5, <2>1, CompareStep, SMTT(30)
  <2>4. i + 1 \in 1..(Len(s) + 1) /\ j + 1 \in 1..(Len(t) + 1) /\ (i + 1) + (j + 1) > i + j
    BY <1>1, <1>2, <2>1
  <2> QED
    BY <2>2, <2>3, <2>4
<1>6. CASE ~InText(s, i) /\ ~InText(t, j)
  <2>1. PICK x \in Seq(Int) : After(k[i], x) /\ At(x, 1) = n /\ After(x, k[e])
    BY <1>1, <1>6
  <2>2. PICK y \in Seq(Int) : After(l[j], y) /\ At(y, 1) = m /\ After(y, l[g])
    BY <1>2, <1>6
  <2>3. Compare(k[i], l[j]) = Compare(x, y)
    BY <1>1, <1>2, <1>6, <2>1, <2>2, CompareStep, SMTT(30)
  <2>4. k[e] \in Seq(Int) /\ l[g] \in Seq(Int)
    BY <1>1, <1>2, <1>6
  <2>5. Compare(x, y) = IF n # m THEN Sign(n - m) ELSE Compare(k[e], l[g])
    BY <2>1, <2>2, <2>4, CompareStep
  <2>6. Sign(n - m) = 0 <=> n = m
    BY <1>3 DEF Sign
  <2>7. CASE i > Len(s) /\ j > Len(t)
    <3>1. DebianTurn(f, s, i, t, j) = 0
      BY <1>6, <2>7 DEF DebianTurn
    <3>2. At(k[i], 1) = 0 /\ After(k[i], k[i]) /\ n = 0
      BY <1>0, <2>7, KeyEnd, SMTT(30) DEF n
    <3>3. k[i] = <<>> /\ l[j] = <<>>
      BY <2>7 DEF Keyed, KeyAt
    <3>4. Compare(k[i], l[j]) = 0
      BY <1>1, <3>3, CompareSame DEF Same
    <3> QED
      BY <3>1, <3>4
  <2>8. CASE ~(i > Len(s) /\ j > Len(t)) /\ n # m
    <3>1. DebianTurn(f, s, i, t, j) = Sign(n - m)
      BY <1>3, <1>6, <2>6, <2>8 DEF DebianTurn
    <3> QED
      BY <2>3, <2>5, <2>8, <3>1
  <2>9. CASE ~(i > Len(s) /\ j > Len(t)) /\ n = m
    <3>1. DebianTurn(f, s, i, t, j) = f[<<e, g>>]
      BY <1>3, <1>6, <2>6, <2>9 DEF DebianTurn, e, g
    <3>2. /\ e \in 1..(Len(s) + 1) /\ g \in 1..(Len(t) + 1)
          /\ e + g > i + j
      <4>1. /\ e \in i..(Len(s) + 1) /\ (i <= Len(s) => e > i)
            /\ g \in j..(Len(t) + 1) /\ (j <= Len(t) => g > j)
        BY <1>1, <1>2, <1>6
      <4> QED
        BY ONLY <1>0, <2>9, <4>1, i \in 1..(Len(s) + 1), j \in 1..(Len(t) + 1)
    <3> QED
      BY <2>3, <2>5, <2>9, <3>1, <3>2
  <2> QED
    BY <2>7, <2>8, <2>9
<1> QED
  BY <1>4, <1>5, <1>6

\* So the loops compare the keys, whatever the strings.
LEMMA DebianIs ==
  ASSUME NEW s \in Seq(Byte), NEW t \in Seq(Byte)
  PROVE  /\ CompareDebianPart(s, t) = Compare(DebianKey(s), DebianKey(t))
         /\ DebianKey(s) \in Seq(Int)
<1> DEFINE P == Positions(s, t)
           N == Len(s) + 1
           M == Len(t) + 1
<1>0. Len(s) \in Nat /\ Len(t) \in Nat /\ DebianWeight \in [Byte -> Int] /\ 0 \in Int
  BY DebianWeightIs
<1>1. PICK k : Keyed(k, s, 0, DebianWeight) /\ DebianKey(s) = k[1]
  <2>1. \E k : Keyed(k, s, 0, DebianWeight) /\ Key(s, 0, DebianWeight) = k[1]
    BY <1>0, KeyIs
  <2> QED
    BY <2>1 DEF DebianKey
<1>2. PICK l : Keyed(l, t, 0, DebianWeight) /\ DebianKey(t) = l[1]
  <2>1. \E l : Keyed(l, t, 0, DebianWeight) /\ Key(t, 0, DebianWeight) = l[1]
    BY <1>0, KeyIs
  <2> QED
    BY <2>1 DEF DebianKey
<1> DEFINE h == [p \in P |-> Compare(k[p[1]], l[p[2]])]
           Run(f) == f = [p \in P |-> DebianTurn(f, s, p[1], t, p[2])]
<1>3. \A i \in 1..N, j \in 1..M : <<i, j>> \in P /\ h[<<i, j>>] = Compare(k[i], l[j])
  BY DEF Positions
<1>4. ASSUME NEW f, NEW i \in 1..N, NEW j \in 1..M
      PROVE  GoesOn(DebianTurn(f, s, i, t, j), f, k, l, i, j, N, M)
  BY <1>1, <1>2, DebianTurns
<1>5. Run(h)
  <2>1. ASSUME NEW p \in P PROVE h[p] = DebianTurn(h, s, p[1], t, p[2])
    <3>1. PICK i \in 1..N, j \in 1..M : p = <<i, j>>
      BY DEF Positions
    <3>2. p[1] = i /\ p[2] = j /\ h[p] = Compare(k[i], l[j])
      BY <1>3, <3>1
    <3> HIDE DEF h, P, N, M
    <3>3. GoesOn(DebianTurn(h, s, i, t, j), h, k, l, i, j, N, M)
      BY <1>4
    <3>4. DebianTurn(h, s, i, t, j) = Compare(k[i], l[j])
      BY <1>3, <3>3 DEF GoesOn
    <3> QED
      BY <3>2, <3>4
  <2>2. h = [p \in P |-> h[p]]
    OBVIOUS
  <2> HIDE DEF h, P
  <2> QED
    BY <2>1, <2>2
<1>6. PICK f : Run(f) /\ CompareDebianPart(s, t) = f[<<1, 1>>]
  <2> DEFINE f == CHOOSE from : Run(from)
  <2>1. Run(f)
    <3> HIDE DEF Run
    <3> QED
      BY <1>5
  <2>2. CompareDebianPart(s, t) = f[<<1, 1>>]
    BY DEF CompareDebianPart
  <2> HIDE DEF f, Run
  <2> QED
    BY <2>1, <2>2
<1>7. \A i \in 1..N, j \in 1..M : f[<<i, j>>] = DebianTurn(f, s, i, t, j)
  <2> SUFFICES ASSUME NEW i \in 1..N, NEW j \in 1..M
               PROVE  f[<<i, j>>] = DebianTurn(f, s, i, t, j)
    OBVIOUS
  <2>1. f[<<i, j>>] = DebianTurn(f, s, <<i, j>>[1], t, <<i, j>>[2])
    <3>1. <<i, j>> \in P
      BY <1>3
    <3> HIDE DEF P, h
    <3> QED
      BY <1>6, <3>1
  <2> QED
    BY <2>1
<1>8. Follow(f, h, N, M)
  <2> HIDE DEF h, P, N, M, Run
  <2>1. ASSUME NEW i \in 1..N, NEW j \in 1..M
        PROVE  \/ f[<<i, j>>] = h[<<i, j>>]
               \/ \E a \in 1..N, b \in 1..M :
                    a + b > i + j /\ f[<<i, j>>] = f[<<a, b>>] /\ h[<<i, j>>] = h[<<a, b>>]
    <3>1. GoesOn(f[<<i, j>>], f, k, l, i, j, N, M)
      BY <1>4, <1>7
    <3> QED
      BY <1>3, <3>1 DEF GoesOn
  <2> QED
    BY <2>1 DEF Follow
<1>9. f[<<1, 1>>] = h[<<1, 1>>] /\ h[<<1, 1>>] = Compare(k[1], l[1])
  <2>1. N \in Nat /\ M \in Nat /\ 1 \in 1..N /\ 1 \in 1..M
    BY <1>0
  <2> HIDE DEF h, P, N, M, Run
  <2> QED
    BY <1>3, <1>8, <2>1, FollowSame
<1>10. k[1] \in Seq(Int)
  <2>1. 1 \in 1..N
    BY <1>0
  <2> QED
    BY <1>1, <2>1, KeyHas
<1> QED
  BY <1>1, <1>2, <1>6, <1>9, <1>10

\* A byte of Alpine's weighs what it is.
ApkWeight == [b \in Byte |-> b]

LEMMA ApkWeightIs ==
  ApkWeight \in [Byte -> Int] /\ Zero \in Int
BY DEF ApkWeight, Byte, Zero

LEMMA ApkPlace ==
  ASSUME NEW s \in Seq(Byte), NEW k, Keyed(k, s, Zero, ApkWeight), NEW i \in 1..(Len(s) + 1)
  PROVE  /\ k[i] \in Seq(Int) /\ Len(s) \in Nat /\ At(s, i) \in Byte
         /\ At(k[i], 1) = IF At(s, i) \in Digit THEN Zero ELSE At(s, i)
         /\ At(s, i) \in Digit =>
              /\ i <= Len(s) /\ Skip(s, i, Digit) \in (i + 1)..(Len(s) + 1)
              /\ k[Skip(s, i, Digit)] \in Seq(Int)
              /\ \E x \in Seq(Int) : /\ After(k[i], x) /\ At(x, 1) = Value(Digits(s, i))
                                     /\ After(x, k[Skip(s, i, Digit)])
         /\ At(s, i) \notin Digit =>
              /\ Past(s, i) \in i..(Len(s) + 1) /\ (i <= Len(s) => Past(s, i) > i)
              /\ k[Past(s, i)] \in Seq(Int) /\ After(k[i], k[Past(s, i)])
<1> DEFINE e == Skip(s, i, Digit)
           n == Value(Digits(s, i))
<1>0. Len(s) \in Nat /\ ApkWeight \in [Byte -> Int] /\ Zero \in Int
  BY ApkWeightIs
<1>1. CASE i <= Len(s) /\ s[i] \notin Digit
  <2>1. InText(s, i) /\ At(s, i) = s[i]
    BY <1>1 DEF InText, At
  <2>2. /\ k[i] \in Seq(Int) /\ k[i + 1] \in Seq(Int)
        /\ i + 1 \in 1..(Len(s) + 1) /\ s[i] \in Byte \ Digit
        /\ At(k[i], 1) = ApkWeight[s[i]] /\ After(k[i], k[i + 1])
    BY <1>0, <2>1, KeyText
  <2>3. ApkWeight[s[i]] = s[i] /\ Past(s, i) = i + 1
    BY <1>1, <2>2 DEF ApkWeight, Past
  <2>4. i + 1 \in i..(Len(s) + 1) /\ i + 1 > i
    BY <2>2
  <2> QED
    BY <1>0, <1>1, <2>1, <2>2, <2>3, <2>4
<1>2. CASE i <= Len(s) /\ s[i] \in Digit
  <2>1. At(s, i) = s[i] /\ s[i] \in Byte
    BY <1>2 DEF At
  <2>2. /\ k[i] \in Seq(Int) /\ At(k[i], 1) = Zero
        /\ e \in (i + 1)..(Len(s) + 1) /\ k[e] \in Seq(Int)
        /\ \E x \in Seq(Int) : After(k[i], x) /\ At(x, 1) = n /\ After(x, k[e])
    BY <1>0, <1>2, KeyNumber
  <2> HIDE DEF e, n
  <2> QED
    BY <1>0, <1>2, <2>1, <2>2 DEF e, n
<1>3. CASE i > Len(s)
  <2>1. k[i] \in Seq(Int) /\ At(k[i], 1) = 0 /\ After(k[i], k[i])
    BY <1>0, <1>3, KeyEnd
  <2>2. At(s, i) = 0 /\ Past(s, i) = i /\ i \in i..(Len(s) + 1) /\ ~(i <= Len(s))
    BY <1>0, <1>3 DEF At, Past
  <2>3. 0 \in Byte /\ 0 \notin Digit
    BY DEF Byte, Digit
  <2> QED
    BY <1>0, <2>1, <2>2, <2>3
<1> QED
  BY <1>0, <1>1, <1>2, <1>3

LEMMA ApkTurns ==
  ASSUME NEW s \in Seq(Byte), NEW k, Keyed(k, s, Zero, ApkWeight), NEW i \in 1..(Len(s) + 1),
         NEW t \in Seq(Byte), NEW l, Keyed(l, t, Zero, ApkWeight), NEW j \in 1..(Len(t) + 1),
         NEW f
  PROVE  GoesOn(ApkTurn(f, s, i, t, j), f, k, l, i, j, Len(s) + 1, Len(t) + 1)
<1> SUFFICES \/ ApkTurn(f, s, i, t, j) = Compare(k[i], l[j])
             \/ \E a \in 1..(Len(s) + 1), b \in 1..(Len(t) + 1) :
                  /\ a + b > i + j /\ ApkTurn(f, s, i, t, j) = f[<<a, b>>]
                  /\ Compare(k[i], l[j]) = Compare(k[a], l[b])
  BY DEF GoesOn
<1> DEFINE e == Skip(s, i, Digit)
           g == Skip(t, j, Digit)
           n == Value(Digits(s, i))
           m == Value(Digits(t, j))
<1>1. /\ k[i] \in Seq(Int) /\ Len(s) \in Nat /\ At(s, i) \in Byte
      /\ At(k[i], 1) = IF At(s, i) \in Digit THEN Zero ELSE At(s, i)
      /\ At(s, i) \in Digit =>
           /\ i <= Len(s) /\ e \in (i + 1)..(Len(s) + 1) /\ k[e] \in Seq(Int)
           /\ \E x \in Seq(Int) : After(k[i], x) /\ At(x, 1) = n /\ After(x, k[e])
      /\ At(s, i) \notin Digit =>
           /\ Past(s, i) \in i..(Len(s) + 1) /\ (i <= Len(s) => Past(s, i) > i)
           /\ k[Past(s, i)] \in Seq(Int) /\ After(k[i], k[Past(s, i)])
  BY ApkPlace
<1>2. /\ l[j] \in Seq(Int) /\ Len(t) \in Nat /\ At(t, j) \in Byte
      /\ At(l[j], 1) = IF At(t, j) \in Digit THEN Zero ELSE At(t, j)
      /\ At(t, j) \in Digit =>
           /\ j <= Len(t) /\ g \in (j + 1)..(Len(t) + 1) /\ l[g] \in Seq(Int)
           /\ \E y \in Seq(Int) : After(l[j], y) /\ At(y, 1) = m /\ After(y, l[g])
      /\ At(t, j) \notin Digit =>
           /\ Past(t, j) \in j..(Len(t) + 1) /\ (j <= Len(t) => Past(t, j) > j)
           /\ l[Past(t, j)] \in Seq(Int) /\ After(l[j], l[Past(t, j)])
  BY ApkPlace
<1>3. Numbers(s, i, t, j) = Sign(n - m) /\ n \in Nat /\ m \in Nat
  BY NumbersAre
<1> HIDE DEF e, g, n, m
<1>4. CASE i > Len(s) /\ j > Len(t)
  <2>1. ApkTurn(f, s, i, t, j) = 0
    BY <1>1, <1>2, <1>4 DEF ApkTurn
  <2>2. k[i] = <<>> /\ l[j] = <<>>
    <3>1. k[i] = KeyAt(k, s, Zero, ApkWeight, i) /\ l[j] = KeyAt(l, t, Zero, ApkWeight, j)
      BY KeyHas
    <3> QED
      BY <1>1, <1>2, <1>4, <3>1 DEF KeyAt
  <2>3. Compare(k[i], l[j]) = 0
    BY <1>1, <2>2, CompareSame DEF Same
  <2> QED
    BY <2>1, <2>3
<1>5. CASE At(s, i) \in Digit /\ At(t, j) \in Digit
  <2>1. PICK x \in Seq(Int) : After(k[i], x) /\ At(x, 1) = n /\ After(x, k[e])
    BY <1>1, <1>5
  <2>2. PICK y \in Seq(Int) : After(l[j], y) /\ At(y, 1) = m /\ After(y, l[g])
    BY <1>2, <1>5
  <2>3. Compare(k[i], l[j]) = Compare(x, y)
    <3>1. k[i] \in Seq(Int) /\ l[j] \in Seq(Int) /\ At(k[i], 1) = At(l[j], 1)
      BY <1>1, <1>2, <1>5
    <3> QED
      BY <2>1, <2>2, <3>1, CompareStep
  <2>4. k[e] \in Seq(Int) /\ l[g] \in Seq(Int)
    BY <1>1, <1>2, <1>5
  <2>5. Compare(x, y) = IF n # m THEN Sign(n - m) ELSE Compare(k[e], l[g])
    BY <2>1, <2>2, <2>4, CompareStep
  <2>6. Sign(n - m) = 0 <=> n = m
    BY <1>3 DEF Sign
  <2>7. ~(i > Len(s) /\ j > Len(t))
    BY <1>1, <1>2, <1>5
  <2>8. CASE n # m
    <3>1. ApkTurn(f, s, i, t, j) = Sign(n - m)
      BY <1>3, <1>5, <2>6, <2>7, <2>8 DEF ApkTurn
    <3> QED
      BY <2>3, <2>5, <2>8, <3>1
  <2>9. CASE n = m
    <3>1. ApkTurn(f, s, i, t, j) = f[<<e, g>>]
      BY <1>3, <1>5, <2>6, <2>7, <2>9 DEF ApkTurn, e, g
    <3>2. e \in 1..(Len(s) + 1) /\ g \in 1..(Len(t) + 1) /\ e + g > i + j
      <4>1. /\ Len(s) \in Nat /\ e \in (i + 1)..(Len(s) + 1)
            /\ Len(t) \in Nat /\ g \in (j + 1)..(Len(t) + 1)
        BY <1>1, <1>2, <1>5
      <4> QED
        BY ONLY <4>1, i \in 1..(Len(s) + 1), j \in 1..(Len(t) + 1)
    <3> QED
      BY <2>3, <2>5, <2>9, <3>1, <3>2
  <2> QED
    BY <2>8, <2>9
<1>6. CASE /\ ~(i > Len(s) /\ j > Len(t)) /\ ~(At(s, i) \in Digit /\ At(t, j) \in Digit)
           /\ At(s, i) # At(t, j)
  <2>1. ApkTurn(f, s, i, t, j) = Sign(At(s, i) - At(t, j))
    BY <1>6 DEF ApkTurn
  <2>2. /\ At(k[i], 1) # At(l[j], 1)
        /\ Sign(At(k[i], 1) - At(l[j], 1)) = Sign(At(s, i) - At(t, j))
    <3>1. \A a, b \in Byte : a # b /\ ~(a \in Digit /\ b \in Digit) =>
            LET c == IF a \in Digit THEN Zero ELSE a
                d == IF b \in Digit THEN Zero ELSE b
            IN c # d /\ Sign(c - d) = Sign(a - b)
      BY DEF Byte, Digit, Zero, Sign
    <3> QED
      BY <1>1, <1>2, <1>6, <3>1
  <2>3. Differ(k[i], l[j], 1)
    BY <2>2 DEF Differ
  <2>4. Compare(k[i], l[j]) = Sign(At(k[i], 1) - At(l[j], 1))
    <3>1. k[i] \in Seq(Int) /\ l[j] \in Seq(Int)
      BY <1>1, <1>2
    <3> QED
      BY <2>3, <3>1, CompareDiffer
  <2> QED
    BY <2>1, <2>2, <2>4
<1>7. CASE /\ ~(i > Len(s) /\ j > Len(t)) /\ ~(At(s, i) \in Digit /\ At(t, j) \in Digit)
           /\ At(s, i) = At(t, j)
  <2>1. ApkTurn(f, s, i, t, j) = f[<<Past(s, i), Past(t, j)>>]
    BY <1>7 DEF ApkTurn
  <2>2. At(s, i) \notin Digit /\ At(t, j) \notin Digit
    BY <1>7
  <2>3. Compare(k[i], l[j]) = Compare(k[Past(s, i)], l[Past(t, j)])
    <3>1. /\ k[i] \in Seq(Int) /\ k[Past(s, i)] \in Seq(Int) /\ After(k[i], k[Past(s, i)])
          /\ l[j] \in Seq(Int) /\ l[Past(t, j)] \in Seq(Int) /\ After(l[j], l[Past(t, j)])
      BY <1>1, <1>2, <2>2
    <3>2. At(k[i], 1) = At(l[j], 1)
      BY <1>1, <1>2, <1>7, <2>2
    <3> QED
      BY <3>1, <3>2, CompareStep
  <2>4. /\ Past(s, i) \in 1..(Len(s) + 1) /\ Past(t, j) \in 1..(Len(t) + 1)
        /\ Past(s, i) + Past(t, j) > i + j
    BY <1>1, <1>2, <1>7, <2>2
  <2> QED
    BY <2>1, <2>3, <2>4
<1> QED
  BY <1>4, <1>5, <1>6, <1>7

\* So the loops compare the keys, whatever the strings.
LEMMA ApkIs ==
  ASSUME NEW s \in Seq(Byte), NEW t \in Seq(Byte)
  PROVE  /\ CompareVersionBase(s, t) = Compare(ApkKey(s), ApkKey(t))
         /\ ApkKey(s) \in Seq(Int)
<1> DEFINE P == Positions(s, t)
           N == Len(s) + 1
           M == Len(t) + 1
<1>0. Len(s) \in Nat /\ Len(t) \in Nat /\ ApkWeight \in [Byte -> Int] /\ Zero \in Int
  BY ApkWeightIs
<1>1. PICK k : Keyed(k, s, Zero, ApkWeight) /\ ApkKey(s) = k[1]
  <2>1. \E k : Keyed(k, s, Zero, ApkWeight) /\ Key(s, Zero, ApkWeight) = k[1]
    BY <1>0, KeyIs
  <2> QED
    BY <2>1 DEF ApkKey, ApkWeight
<1>2. PICK l : Keyed(l, t, Zero, ApkWeight) /\ ApkKey(t) = l[1]
  <2>1. \E l : Keyed(l, t, Zero, ApkWeight) /\ Key(t, Zero, ApkWeight) = l[1]
    BY <1>0, KeyIs
  <2> QED
    BY <2>1 DEF ApkKey, ApkWeight
<1> DEFINE h == [p \in P |-> Compare(k[p[1]], l[p[2]])]
           Run(f) == f = [p \in P |-> ApkTurn(f, s, p[1], t, p[2])]
<1>3. \A i \in 1..N, j \in 1..M : <<i, j>> \in P /\ h[<<i, j>>] = Compare(k[i], l[j])
  BY DEF Positions
<1>4. ASSUME NEW f, NEW i \in 1..N, NEW j \in 1..M
      PROVE  GoesOn(ApkTurn(f, s, i, t, j), f, k, l, i, j, N, M)
  BY <1>1, <1>2, ApkTurns
<1>5. Run(h)
  <2>1. ASSUME NEW p \in P PROVE h[p] = ApkTurn(h, s, p[1], t, p[2])
    <3>1. PICK i \in 1..N, j \in 1..M : p = <<i, j>>
      BY DEF Positions
    <3>2. p[1] = i /\ p[2] = j /\ h[p] = Compare(k[i], l[j])
      BY <1>3, <3>1
    <3> HIDE DEF h, P, N, M
    <3>3. GoesOn(ApkTurn(h, s, i, t, j), h, k, l, i, j, N, M)
      BY <1>4
    <3>4. ApkTurn(h, s, i, t, j) = Compare(k[i], l[j])
      BY <1>3, <3>3 DEF GoesOn
    <3> QED
      BY <3>2, <3>4
  <2>2. h = [p \in P |-> h[p]]
    OBVIOUS
  <2> HIDE DEF h, P
  <2> QED
    BY <2>1, <2>2
<1>6. PICK f : Run(f) /\ CompareVersionBase(s, t) = f[<<1, 1>>]
  <2> DEFINE f == CHOOSE from : Run(from)
  <2>1. Run(f)
    <3> HIDE DEF Run
    <3> QED
      BY <1>5
  <2>2. CompareVersionBase(s, t) = f[<<1, 1>>]
    BY DEF CompareVersionBase
  <2> HIDE DEF f, Run
  <2> QED
    BY <2>1, <2>2
<1>7. \A i \in 1..N, j \in 1..M : f[<<i, j>>] = ApkTurn(f, s, i, t, j)
  <2> SUFFICES ASSUME NEW i \in 1..N, NEW j \in 1..M
               PROVE  f[<<i, j>>] = ApkTurn(f, s, i, t, j)
    OBVIOUS
  <2>1. f[<<i, j>>] = ApkTurn(f, s, <<i, j>>[1], t, <<i, j>>[2])
    <3>1. <<i, j>> \in P
      BY <1>3
    <3> HIDE DEF P, h
    <3> QED
      BY <1>6, <3>1
  <2> QED
    BY <2>1
<1>8. Follow(f, h, N, M)
  <2> HIDE DEF h, P, N, M, Run
  <2>1. ASSUME NEW i \in 1..N, NEW j \in 1..M
        PROVE  \/ f[<<i, j>>] = h[<<i, j>>]
               \/ \E a \in 1..N, b \in 1..M :
                    a + b > i + j /\ f[<<i, j>>] = f[<<a, b>>] /\ h[<<i, j>>] = h[<<a, b>>]
    <3>1. GoesOn(f[<<i, j>>], f, k, l, i, j, N, M)
      BY <1>4, <1>7
    <3> QED
      BY <1>3, <3>1 DEF GoesOn
  <2> QED
    BY <2>1 DEF Follow
<1>9. f[<<1, 1>>] = h[<<1, 1>>] /\ h[<<1, 1>>] = Compare(k[1], l[1])
  <2>1. N \in Nat /\ M \in Nat /\ 1 \in 1..N /\ 1 \in 1..M
    BY <1>0
  <2> HIDE DEF h, P, N, M, Run
  <2> QED
    BY <1>3, <1>8, <2>1, FollowSame
<1>10. k[1] \in Seq(Int)
  <2>1. 1 \in 1..N
    BY <1>0
  <2> QED
    BY <1>1, <2>1, KeyHas
<1> QED
  BY <1>1, <1>2, <1>6, <1>9, <1>10

-----------------------------------------------------------------------------
(* Numbers in an int.                                                      *)

Ints == (-(MaxInt + 1))..MaxInt

LEMMA WrapIs ==
  ASSUME NEW n \in Int
  PROVE  Wrap(n) \in Ints /\ (n \in 0..MaxInt => Wrap(n) = n)
<1>1. MaxInt \in Nat
  BY VersionsAssumption
<1> DEFINE m == 2 * (MaxInt + 1)
           k == n + MaxInt + 1
<1>2. m \in Nat /\ m > 0 /\ k \in Int /\ m = MaxInt + MaxInt + 2
  BY <1>1
<1>3. k % m \in 0..(m - 1)
  <2> HIDE DEF m, k
  <2> QED
    BY <1>2
<1>4. k \in 0..(m - 1) => k % m = k
  <2> HIDE DEF m, k
  <2> QED
    BY <1>2
<1>5. Wrap(n) = (k % m) - (MaxInt + 1)
  BY DEF Wrap
<1>6. n \in 0..MaxInt => k \in 0..(m - 1) /\ k - (MaxInt + 1) = n
  BY <1>1, <1>2
<1> HIDE DEF m, k
<1>7. Wrap(n) \in Ints
  BY <1>1, <1>2, <1>3, <1>5 DEF Ints
<1> QED
  BY <1>4, <1>5, <1>6, <1>7

\* What a loop of the code makes of digits.
Counts(int, d) ==
  /\ int \in [0..Len(d) -> Ints] /\ int[0] = 0
  /\ \A n \in 1..Len(d) : int[n] = Wrap(10 * int[n - 1] + (d[n] - Zero))

LEMMA NumberCounts ==
  ASSUME NEW d \in Seq(Digit)
  PROVE  \E int : Counts(int, d) /\ Number(d) = int[Len(d)]
<1> DEFINE N == Len(d)
           turn == [n \in 1..N |-> [x \in Ints |-> Wrap(10 * x + (d[n] - Zero))]]
           Run(g) == g = [n \in 0..N |-> IF n = 0 THEN 0 ELSE Wrap(10 * g[n - 1] + (d[n] - Zero))]
<1>1. N \in Nat /\ \A n \in 1..N : d[n] \in Int /\ d[n] - Zero \in 0..9
  BY DigitIs
<1>0. 0 \in Ints /\ Ints \subseteq Int
  BY VersionsAssumption DEF Ints
<1> HIDE DEF N
<1>2. turn \in [1..N -> [Ints -> Ints]]
  <2> SUFFICES ASSUME NEW n \in 1..N, NEW x \in Ints
               PROVE  Wrap(10 * x + (d[n] - Zero)) \in Ints
    OBVIOUS
  <2>1. 10 * x + (d[n] - Zero) \in Int
    <3>1. d[n] - Zero \in 0..9 /\ x \in Int
      BY <1>0, <1>1
    <3> QED
      BY ONLY <3>1
  <2> QED
    BY <2>1, WrapIs
<1>3. PICK g \in [0..N -> Ints] : g[0] = 0 /\ \A n \in 1..N : g[n] = turn[n][g[n - 1]]
  <2> HIDE DEF turn
  <2>1. \E g : Looped(g, N, Ints, 0, turn)
    BY <1>0, <1>1, <1>2, Loop
  <2> QED
    BY <2>1 DEF Looped
<1>4. ASSUME NEW n \in 1..N PROVE g[n] = Wrap(10 * g[n - 1] + (d[n] - Zero))
  <2>1. n - 1 \in 0..N
    BY <1>1
  <2>2. g[n - 1] \in Ints
    BY <1>3, <2>1
  <2> QED
    BY <1>3, <2>1, <2>2
<1>5. Run(g)
  <2>1. ASSUME NEW n \in 0..N
        PROVE  g[n] = IF n = 0 THEN 0 ELSE Wrap(10 * g[n - 1] + (d[n] - Zero))
    <3>1. n # 0 => n \in 1..N
      BY <1>1
    <3> QED
      BY <1>3, <1>4, <3>1
  <2>2. g = [n \in 0..N |-> g[n]]
    BY <1>3
  <2> QED
    BY <2>1, <2>2
<1>6. PICK h : Run(h) /\ Number(d) = h[N]
  <2> DEFINE h == CHOOSE int : Run(int)
  <2>1. Run(h)
    <3> HIDE DEF Run
    <3> QED
      BY <1>5
  <2>2. Number(d) = h[N]
    BY DEF Number, N
  <2> HIDE DEF h, Run
  <2> QED
    BY <2>1, <2>2
<1>7. \A n \in 0..N : h[n] = g[n]
  <2> DEFINE T == {n \in 0..N : h[n] = g[n]}
  <2>0. /\ h[0] = 0
        /\ \A n \in 1..N : n - 1 \in 0..N /\ h[n] = Wrap(10 * h[n - 1] + (d[n] - Zero))
    BY <1>1, <1>6
  <2>1. 0 \in T
    BY <1>1, <1>3, <2>0
  <2>2. ASSUME NEW n \in 1..N, n - 1 \in T PROVE n \in T
    <3>1. n \in 0..N /\ h[n - 1] = g[n - 1]
      BY <1>1, <2>2
    <3> QED
      BY <1>4, <2>0, <3>1
  <2>3. \A n \in 0..N : n \in T
    <3> HIDE DEF T
    <3> QED
      BY <1>1, <2>1, <2>2, UpTo
  <2> QED
    BY <2>3
<1>8. N \in 0..N
  BY <1>1
<1> QED
  BY <1>3, <1>4, <1>6, <1>7, <1>8 DEF Counts, N

\* It stays within the width, and what an int can hold it reads as it is.
LEMMA NumberIs ==
  ASSUME NEW d \in Seq(Digit)
  PROVE  Number(d) \in Int /\ (Value(d) <= MaxInt => Number(d) = Value(d))
<1> DEFINE N == Len(d)
<1>1. PICK g : Counts(g, d) /\ Number(d) = g[N]
  BY NumberCounts
<1>2. PICK v : Reads(v, d) /\ Value(d) = v[N]
  BY ValueReads
<1>3. /\ N \in Nat /\ v[0] = 0 /\ \A n \in 0..N : v[n] \in Nat
      /\ \A n \in 1..N : /\ n - 1 \in 0..N /\ v[n - 1] \in Nat /\ d[n] - Zero \in 0..9
                         /\ v[n] = 10 * v[n - 1] + (d[n] - Zero)
  BY <1>2, ReadsAre
<1>4. /\ g[0] = 0 /\ \A n \in 0..N : g[n] \in Int
      /\ \A n \in 1..N : g[n] = Wrap(10 * g[n - 1] + (d[n] - Zero))
  BY <1>1, VersionsAssumption DEF Counts, Ints
<1>5. MaxInt \in Nat
  BY VersionsAssumption
<1> HIDE DEF N
<1>6. N \in 0..N
  BY <1>3
<1>7. \A n \in 1..N : v[n - 1] <= v[n]
  <2> SUFFICES ASSUME NEW n \in 1..N PROVE v[n - 1] <= v[n]
    OBVIOUS
  <2>1. /\ v[n - 1] \in Nat /\ d[n] - Zero \in 0..9
        /\ v[n] = 10 * v[n - 1] + (d[n] - Zero)
    BY <1>3
  <2> QED
    BY ONLY <2>1, SMTT(30)
<1>8. ASSUME v[N] <= MaxInt PROVE g[N] = v[N]
  <2>1. \A n \in 0..N : v[n] <= MaxInt
    <3> DEFINE B == {k \in 0..N : v[N - k] <= MaxInt}
    <3>1. 0 \in B
      BY <1>3, <1>8
    <3>2. ASSUME NEW k \in 1..N, k - 1 \in B PROVE k \in B
      <4>1. /\ k \in 0..N /\ N - (k - 1) \in 1..N /\ N - k \in 0..N /\ N - (k - 1) \in 0..N
            /\ (N - (k - 1)) - 1 = N - k
        BY <1>3
      <4>2. v[N - k] <= v[N - (k - 1)] /\ v[N - (k - 1)] <= MaxInt
        BY <1>7, <3>2, <4>1
      <4>3. v[N - k] \in Nat /\ v[N - (k - 1)] \in Nat
        BY <1>3, <4>1
      <4>4. v[N - k] <= MaxInt
        BY ONLY <1>5, <4>2, <4>3
      <4> QED
        BY <4>1, <4>4
    <3>3. \A k \in 0..N : k \in B
      <4> HIDE DEF B
      <4> QED
        BY <1>3, <3>1, <3>2, UpTo
    <3>4. \A n \in 0..N : N - n \in 0..N /\ N - (N - n) = n
      BY <1>3
    <3> QED
      BY <3>3, <3>4
  <2> DEFINE T == {n \in 0..N : g[n] = v[n]}
  <2>2. 0 \in T
    BY <1>3, <1>4
  <2>3. ASSUME NEW n \in 1..N, n - 1 \in T PROVE n \in T
    <3>1. n \in 0..N /\ g[n - 1] = v[n - 1]
      BY <1>3, <2>3
    <3>2. v[n] \in 0..MaxInt
      <4>1. v[n] \in Nat /\ v[n] <= MaxInt
        BY <1>3, <2>1, <3>1
      <4> QED
        BY ONLY <1>5, <4>1
    <3>3. g[n] = Wrap(v[n])
      BY <1>3, <1>4, <3>1
    <3>4. Wrap(v[n]) = v[n]
      <4>1. v[n] \in Int
        BY <3>2, <1>5
      <4> QED
        BY <3>2, <4>1, WrapIs
    <3> QED
      BY <3>1, <3>3, <3>4
  <2>4. \A n \in 0..N : n \in T
    <3> HIDE DEF T
    <3> QED
      BY <1>3, <2>2, <2>3, UpTo
  <2> QED
    BY <1>6, <2>4
<1> QED
  BY <1>1, <1>2, <1>4, <1>6, <1>8

-----------------------------------------------------------------------------
(* What the comparisons read of a version is what was written.             *)

\* A string with a byte in it, cut at that byte.
LEMMA Parts ==
  ASSUME NEW a \in Seq(Byte), NEW b \in Byte, NEW c \in Seq(Byte),
         NEW w, w = a \o (<<b>> \o c)
  PROVE  /\ w \in Seq(Byte) /\ Len(a) \in Nat /\ Len(c) \in Nat
         /\ Len(w) = Len(a) + 1 + Len(c) /\ w[Len(a) + 1] = b
         /\ \A k \in 1..Len(a) : w[k] = a[k]
         /\ \A k \in (Len(a) + 2)..Len(w) :
              k - Len(a) - 1 \in 1..Len(c) /\ w[k] = c[k - Len(a) - 1]
         /\ SubSeq(w, 1, Len(a)) = a /\ SubSeq(w, Len(a) + 2, Len(w)) = c
<1> DEFINE d == <<b>>
           u == d \o c
           n == Len(a)
           m == Len(c)
<1>1. d \in Seq(Byte) /\ Len(d) = 1 /\ d[1] = b /\ n \in Nat /\ m \in Nat
  OBVIOUS
<1> HIDE DEF d
<1>2. /\ u \in Seq(Byte) /\ Len(u) = 1 + m
      /\ \A k \in 1..(1 + m) : u[k] = IF k <= 1 THEN d[k] ELSE c[k - 1]
  <2>1. /\ d \o c \in Seq(Byte) /\ Len(d \o c) = Len(d) + Len(c)
        /\ \A k \in 1..(Len(d) + Len(c)) :
             (d \o c)[k] = IF k <= Len(d) THEN d[k] ELSE c[k - Len(d)]
    BY ONLY <1>1, c \in Seq(Byte), ConcatProperties
  <2> QED
    BY <1>1, <2>1
<1> HIDE DEF u
<1>3. w = a \o u
  BY DEF u, d
<1>4. /\ w \in Seq(Byte) /\ Len(w) = n + Len(u)
      /\ \A k \in 1..(n + Len(u)) : w[k] = IF k <= n THEN a[k] ELSE u[k - n]
  BY <1>2, <1>3, ConcatProperties
<1>5. Len(w) = n + 1 + m
  BY <1>1, <1>2, <1>4
<1> HIDE DEF n, m
<1>6. \A k \in 1..n : w[k] = a[k]
  BY <1>1, <1>2, <1>4
<1>7. w[n + 1] = b
  <2>1. n + 1 \in 1..(n + Len(u)) /\ ~(n + 1 <= n) /\ (n + 1) - n = 1 /\ 1 \in 1..(1 + m)
    BY <1>1, <1>2
  <2> QED
    BY <1>1, <1>2, <1>4, <2>1, SMTT(30)
<1>8. ASSUME NEW k \in (n + 2)..Len(w)
      PROVE  k - n - 1 \in 1..m /\ w[k] = c[k - n - 1]
  <2>1. /\ k \in 1..(n + Len(u)) /\ ~(k <= n) /\ k - n \in 1..(1 + m) /\ ~(k - n <= 1)
        /\ k - n - 1 \in 1..m
    BY <1>1, <1>2, <1>5
  <2> QED
    BY <1>2, <1>4, <2>1
<1>9. SubSeq(w, 1, n) = a
  <2>1. \A k \in 1..n : w[k] \in Byte
    BY <1>1, <1>4, <1>5
  <2>2. /\ SubSeq(w, 1, n) \in Seq(Byte)
        /\ Len(SubSeq(w, 1, n)) = IF 1 <= n THEN n - 1 + 1 ELSE 0
        /\ \A k \in 1..(n - 1 + 1) : SubSeq(w, 1, n)[k] = w[1 + k - 1]
    <3>1. 1 \in Int /\ n \in Int
      BY <1>1
    <3> QED
      BY ONLY <2>1, <3>1, SubSeqProperties
  <2>3. Len(SubSeq(w, 1, n)) = Len(a)
    BY <1>1, <2>2 DEF n
  <2>4. \A k \in 1..Len(a) : k \in 1..(n - 1 + 1) /\ 1 + k - 1 = k
    BY <1>1 DEF n
  <2>5. \A k \in 1..Len(a) : SubSeq(w, 1, n)[k] = a[k]
    BY <1>6, <2>2, <2>4 DEF n
  <2> QED
    BY <2>2, <2>3, <2>5, SeqEqual
<1>10. SubSeq(w, n + 2, Len(w)) = c
  <2> DEFINE r == SubSeq(w, n + 2, Len(w))
  <2>1. /\ n + 2 \in Int /\ Len(w) \in Int
        /\ \A k \in (n + 2)..Len(w) : w[k] \in Byte
    <3>1. \A k \in (n + 2)..Len(w) : k \in 1..Len(w)
      BY <1>1, <1>5
    <3>2. \A k \in 1..Len(w) : w[k] \in Byte
      BY <1>4
    <3> QED
      BY <1>1, <1>5, <3>1, <3>2
  <2>2. /\ r \in Seq(Byte)
        /\ Len(r) = IF n + 2 <= Len(w) THEN Len(w) - (n + 2) + 1 ELSE 0
        /\ \A k \in 1..(Len(w) - (n + 2) + 1) : r[k] = w[n + 2 + k - 1]
    BY ONLY <2>1, SubSeqProperties
  <2> HIDE DEF r
  <2>3. Len(r) = m
    BY <1>1, <1>5, <2>2, SMTT(30)
  <2>4. \A k \in 1..m : /\ k \in 1..(Len(w) - (n + 2) + 1) /\ n + 2 + k - 1 \in (n + 2)..Len(w)
                        /\ (n + 2 + k - 1) - n - 1 = k
    BY <1>1, <1>5
  <2>5. \A k \in 1..m : r[k] = c[k]
    BY <1>8, <2>2, <2>4
  <2> QED
    BY <2>2, <2>3, <2>5, SeqEqual DEF m, r
<1> QED
  BY <1>1, <1>4, <1>5, <1>6, <1>7, <1>8, <1>9, <1>10 DEF n, m

LEMMA Cut ==
  ASSUME NEW a \in Seq(Byte), NEW b \in Byte, NEW c \in Seq(Byte),
         NEW w, w = a \o (<<b>> \o c)
  PROVE  /\ Len(a) \in Nat /\ SubSeq(w, 1, Len(a)) = a
         /\ SubSeq(w, Len(a) + 2, Len(w)) = c
BY Parts

LEMMA Lacks ==
  ASSUME NEW a \in Seq(Byte), NEW b \in Byte, NEW c \in Seq(Byte),
         NEW o \in Byte, o # b, Places(a, o) = {}, Places(c, o) = {}
  PROVE  Places(a \o (<<b>> \o c), o) = {}
<1> DEFINE w == a \o (<<b>> \o c)
<1>1. /\ Len(a) \in Nat /\ Len(c) \in Nat /\ Len(w) = Len(a) + 1 + Len(c) /\ w[Len(a) + 1] = b
      /\ \A k \in 1..Len(a) : w[k] = a[k]
      /\ \A k \in (Len(a) + 2)..Len(w) : k - Len(a) - 1 \in 1..Len(c) /\ w[k] = c[k - Len(a) - 1]
  BY Parts
<1> HIDE DEF w
<1>2. ASSUME NEW k \in 1..Len(w) PROVE w[k] # o
  <2>1. CASE k \in 1..Len(a)
    BY <1>1, <2>1 DEF Places
  <2>2. CASE k = Len(a) + 1
    BY <1>1, <2>2
  <2>3. CASE k \in (Len(a) + 2)..Len(w)
    BY <1>1, <2>3 DEF Places
  <2> QED
    BY <1>1, <2>1, <2>2, <2>3
<1> QED
  BY <1>2 DEF Places, w

\* Only the byte that divides the parts is where it is looked for.
LEMMA Divides ==
  ASSUME NEW a \in Seq(Byte), NEW b \in Byte, NEW c \in Seq(Byte),
         NEW w, w = a \o (<<b>> \o c)
  PROVE  /\ Places(w, b) \in SUBSET Nat /\ Len(a) + 1 \in Places(w, b)
         /\ Places(a, b) = {} => First(Places(w, b)) = Len(a) + 1
         /\ Places(c, b) = {} => Last(Places(w, b)) = Len(a) + 1
<1> DEFINE n == Len(a) + 1
           T == Places(w, b)
<1>1. /\ Len(a) \in Nat /\ Len(c) \in Nat /\ Len(w) = Len(a) + 1 + Len(c) /\ w[n] = b
      /\ \A k \in 1..Len(a) : w[k] = a[k]
      /\ \A k \in (Len(a) + 2)..Len(w) : k - Len(a) - 1 \in 1..Len(c) /\ w[k] = c[k - Len(a) - 1]
  BY Parts
<1>2. T \in SUBSET Nat /\ n \in T
  BY <1>1 DEF Places
<1>3. ASSUME Places(a, b) = {} PROVE First(T) = n
  <2>1. \A k \in 1..Len(a) : a[k] # b
    BY <1>3 DEF Places
  <2>2. ASSUME NEW k \in T PROVE n <= k
    <3>1. k \in 1..Len(w) /\ w[k] = b
      BY DEF Places
    <3>2. k \notin 1..Len(a)
      BY <1>1, <2>1, <3>1
    <3> QED
      BY <1>1, <3>1, <3>2
  <2> HIDE DEF T, n
  <2> QED
    BY <1>2, <2>2, FirstUnique
<1>4. ASSUME Places(c, b) = {} PROVE Last(T) = n
  <2>1. \A k \in 1..Len(c) : c[k] # b
    BY <1>4 DEF Places
  <2>2. ASSUME NEW k \in T PROVE k <= n
    <3>1. k \in 1..Len(w) /\ w[k] = b
      BY DEF Places
    <3>2. k \notin (Len(a) + 2)..Len(w)
      BY <1>1, <2>1, <3>1
    <3> QED
      BY <1>1, <3>1, <3>2
  <2> HIDE DEF T, n
  <2> QED
    BY <1>2, <2>2, LastUnique
<1> QED
  BY <1>2, <1>3, <1>4

\* Digits in front of another byte are all the digits that are read.
LEMMA DigitsBefore ==
  ASSUME NEW a \in Seq(Digit), NEW b \in Byte \ Digit, NEW c \in Seq(Byte),
         NEW w, w = a \o (<<b>> \o c)
  PROVE  Digits(w, 1) = a
<1>0. a \in Seq(Byte) /\ b \in Byte /\ \A k \in 1..Len(a) : a[k] \in Digit
  BY BytesAreInts
<1>1. /\ Len(a) \in Nat /\ Len(c) \in Nat /\ Len(w) = Len(a) + 1 + Len(c) /\ w[Len(a) + 1] = b
      /\ \A k \in 1..Len(a) : w[k] = a[k]
      /\ SubSeq(w, 1, Len(a)) = a
  BY <1>0, Parts
<1>2. Len(w) \in Nat /\ 1 \in 1..(Len(w) + 1) /\ (Len(a) + 1) - 1 = Len(a)
  BY <1>1
<1>3. Stops(w, 1, Digit, Len(a) + 1)
  BY <1>0, <1>1, <1>2 DEF Stops
<1>4. Skip(w, 1, Digit) = Len(a) + 1
  BY <1>2, <1>3, SkipUnique
<1> QED
  BY <1>1, <1>2, <1>4 DEF Digits

\* A string of digits has no others in it and nothing behind them.
LEMMA AllDigits ==
  ASSUME NEW a \in Seq(Digit)
  PROVE  Skip(a, 1, Digit) = Len(a) + 1
<1>1. Len(a) \in Nat /\ \A k \in 1..Len(a) : a[k] \in Digit
  OBVIOUS
<1>2. Stops(a, 1, Digit, Len(a) + 1)
  BY <1>1 DEF Stops
<1> QED
  BY <1>1, <1>2, SkipUnique

\* The part behind a dash, as it is written; none is read as 0.
Suffix(revision) == IF revision = <<>> THEN <<>> ELSE <<Dash>> \o revision
Revision(revision) == IF revision = <<>> THEN <<Zero>> ELSE revision

SuffixRead(rest, text, revision) ==
  LET dashes == Places(rest, Dash)
  IN /\ text = IF dashes = {} THEN rest ELSE SubSeq(rest, 1, Last(dashes) - 1)
     /\ Revision(revision) = IF dashes = {} THEN <<Zero>>
                             ELSE SubSeq(rest, Last(dashes) + 1, Len(rest))

LEMMA SuffixReads ==
  ASSUME NEW text \in Seq(Byte), NEW revision \in Seq(Byte), Places(revision, Dash) = {},
         revision = <<>> => Places(text, Dash) = {},
         NEW rest, rest = text \o Suffix(revision)
  PROVE  SuffixRead(rest, text, revision)
<1> DEFINE dashes == Places(rest, Dash)
<1> SUFFICES /\ text = IF dashes = {} THEN rest ELSE SubSeq(rest, 1, Last(dashes) - 1)
             /\ Revision(revision) = IF dashes = {} THEN <<Zero>>
                                     ELSE SubSeq(rest, Last(dashes) + 1, Len(rest))
  BY DEF SuffixRead
<1>1. CASE revision = <<>>
  <2>1. rest = text
    BY <1>1, ConcatEmptySeq DEF Suffix
  <2> QED
    BY <1>1, <2>1 DEF Revision
<1>2. CASE revision # <<>>
  <2>1. rest = text \o (<<Dash>> \o revision) /\ Dash \in Byte
    BY <1>2 DEF Suffix, Dash, Byte
  <2>2. dashes # {} /\ Last(dashes) = Len(text) + 1
    BY <2>1, Divides
  <2>3. /\ SubSeq(rest, 1, Len(text)) = text /\ SubSeq(rest, Len(text) + 2, Len(rest)) = revision
        /\ Len(text) \in Nat
    BY <2>1, Parts
  <2>4. (Len(text) + 1) - 1 = Len(text) /\ (Len(text) + 1) + 1 = Len(text) + 2
    BY <2>3
  <2> HIDE DEF dashes
  <2>5. /\ text = SubSeq(rest, 1, Last(dashes) - 1)
        /\ revision = SubSeq(rest, Last(dashes) + 1, Len(rest))
    BY <2>2, <2>3, <2>4
  <2> QED
    BY <1>2, <2>2, <2>5 DEF Revision, dashes
<1> QED
  BY <1>1, <1>2

LEMMA ByteIs ==
  /\ Colon \in Byte \ Digit /\ Dash \in Byte \ Digit /\ Letter_r \in Byte \ Digit
  /\ Dash # Colon /\ Dash # Letter_r /\ Zero \in Digit
BY DEF Colon, Dash, Letter_r, Byte, Digit, Zero

LEMMA NoNumber == Value(<<>>) = 0 /\ <<>> \in Seq(Digit)
<1>1. <<>> \in Seq(Digit) /\ Len(<<>>) = 0
  OBVIOUS
<1>2. PICK v : Reads(v, <<>>) /\ Value(<<>>) = v[Len(<<>>)]
  BY <1>1, ValueReads
<1> QED
  BY <1>1, <1>2 DEF Reads

LEMMA Joined ==
  ASSUME NEW a \in Seq(Byte), NEW b \in Seq(Byte), NEW c \in Seq(Byte)
  PROVE  (a \o b) \o c = a \o (b \o c)
BY ConcatAssociative

\* A version in Debian's form is split into what it was made of.
LEMMA DebianParts ==
  ASSUME NEW epoch \in Seq(Digit), NEW text \in Seq(Byte), NEW revision \in Seq(Byte),
         NEW v, v = [epoch |-> epoch, text |-> text, revision |-> revision], OfDebian(v)
  PROVE  SplitDebianVersion(InDebian(v))
           = [epoch |-> Value(epoch), upstream |-> text, revision |-> Revision(revision)]
<1> DEFINE w == InDebian(v)
           rest == text \o Suffix(revision)
           colons == Places(w, Colon)
<1>0. /\ epoch \in Seq(Digit) /\ text \in Seq(Byte) /\ revision \in Seq(Byte)
      /\ Suffix(revision) \in Seq(Byte)
  <2>1. epoch \in Seq(Digit) /\ text \in Seq(Byte) /\ revision \in Seq(Byte)
    OBVIOUS
  <2>2. <<Dash>> \in Seq(Byte) /\ <<>> \in Seq(Byte)
    BY ByteIs
  <2>3. <<Dash>> \o revision \in Seq(Byte)
    BY <2>1, <2>2, ConcatProperties
  <2> QED
    BY <2>1, <2>2, <2>3 DEF Suffix
<1>1. rest \in Seq(Byte)
  BY <1>0, ConcatProperties
<1>2. SuffixRead(rest, text, revision)
  <2>1. Places(revision, Dash) = {} /\ (revision = <<>> => Places(text, Dash) = {})
    BY DEF OfDebian
  <2> QED
    BY <1>0, <2>1, SuffixReads
<1>3. CASE epoch = <<>>
  <2>1. w = rest
    <3>1. <<>> \o text = text
      BY <1>0, ConcatEmptySeq
    <3> QED
      BY <1>3, <3>1 DEF InDebian, Suffix
  <2>2. colons = {}
    <3>1. Places(text, Colon) = {} /\ Places(revision, Colon) = {}
      BY <1>3 DEF OfDebian
    <3>2. CASE revision = <<>>
      <4>1. rest = text
        BY <1>0, <3>2, ConcatEmptySeq DEF Suffix
      <4> QED
        BY <2>1, <3>1, <4>1
    <3>3. CASE revision # <<>>
      <4>1. rest = text \o (<<Dash>> \o revision) /\ Dash \in Byte /\ Dash # Colon
        BY <3>3, ByteIs DEF Suffix
      <4>3. Colon # Dash /\ Colon \in Byte
        BY <4>1, ByteIs
      <4> HIDE DEF rest
      <4>2. Places(rest, Colon) = {}
        BY ONLY <1>0, <3>1, <4>1, <4>3, Lacks
      <4> QED
        BY <2>1, <4>2
    <3> QED
      BY <3>2, <3>3
  <2>3. Value(epoch) = 0
    BY <1>3, NoNumber
  <2> HIDE DEF w, rest, colons
  <2> QED
    BY <1>2, <2>1, <2>2, <2>3 DEF SplitDebianVersion, SuffixRead, w, colons
<1>4. CASE epoch # <<>>
  <2>1. w = epoch \o (<<Colon>> \o rest)
    <3>1. <<Colon>> \in Seq(Byte) /\ epoch \in Seq(Byte)
      BY <1>0, ByteIs, BytesAreInts
    <3> DEFINE c == <<Colon>>
               s == Suffix(revision)
    <3>2. w = ((epoch \o c) \o text) \o s
      BY <1>4 DEF InDebian, Suffix
    <3>3. c \in Seq(Byte) /\ s \in Seq(Byte)
      BY <1>0, <3>1
    <3> HIDE DEF c, s
    <3>4. c \o (text \o s) \in Seq(Byte) /\ text \o s \in Seq(Byte)
      BY <1>0, <3>3, ConcatProperties
    <3> DEFINE f == epoch \o c
               g == text \o s
    <3>5. w = (f \o text) \o s
      BY <3>2
    <3>6. f \in Seq(Byte) /\ f \o g = epoch \o (c \o g)
      <4> DEFINE e == epoch
      <4>1. e \in Seq(Byte) /\ c \in Seq(Byte) /\ g \in Seq(Byte)
        BY <3>1, <3>3, <3>4
      <4> HIDE DEF e, g
      <4>2. e \o c \in Seq(Byte)
        BY ONLY <4>1, ConcatProperties
      <4>3. (e \o c) \o g = e \o (c \o g)
        BY ONLY <4>1, Joined, SMTT(30)
      <4> QED
        BY <4>2, <4>3 DEF e
    <3> HIDE DEF f, w
    <3>7. (f \o text) \o s = f \o g
      BY <3>3, <3>6, Joined DEF g
    <3> QED
      BY <3>5, <3>6, <3>7 DEF c, s
  <2>2. epoch \in Seq(Byte) /\ Colon \in Byte \ Digit /\ Places(epoch, Colon) = {}
    <3>1. \A k \in 1..Len(epoch) : epoch[k] \in Digit
      BY <1>0
    <3> QED
      BY <1>0, <3>1, ByteIs, BytesAreInts DEF Places
  <2> HIDE DEF w, rest
  <2>3. colons # {} /\ First(colons) = Len(epoch) + 1
    BY <1>1, <2>1, <2>2, Divides
  <2>4. SubSeq(w, Len(epoch) + 2, Len(w)) = rest /\ Len(epoch) \in Nat
    BY <1>1, <2>1, <2>2, Cut
  <2>5. (Len(epoch) + 1) + 1 = Len(epoch) + 2
    BY <2>4
  <2>6. Digits(w, 1) = epoch
    BY <1>0, <1>1, <2>1, <2>2, DigitsBefore
  <2>7. Number(epoch) = Value(epoch)
    BY <1>0, NumberIs DEF OfDebian
  <2> HIDE DEF colons
  <2>8. SubSeq(w, First(colons) + 1, Len(w)) = rest
    BY <2>3, <2>4, <2>5
  <2>9. SplitDebianVersion(w)
          = [epoch    |-> Number(Digits(w, 1)),
             upstream |-> IF Places(rest, Dash) = {} THEN rest
                          ELSE SubSeq(rest, 1, Last(Places(rest, Dash)) - 1),
             revision |-> IF Places(rest, Dash) = {} THEN <<Zero>>
                          ELSE SubSeq(rest, Last(Places(rest, Dash)) + 1, Len(rest))]
    BY <2>3, <2>8 DEF SplitDebianVersion, colons
  <2> QED
    BY <1>2, <2>6, <2>7, <2>9 DEF SuffixRead, w
<1> QED
  BY <1>3, <1>4

LEMMA DebianSplits ==
  ASSUME NEW v \in Written, OfDebian(v)
  PROVE  /\ v.text \in Seq(Byte) /\ v.revision \in Seq(Byte) /\ Value(v.epoch) \in Nat
         /\ SplitDebianVersion(InDebian(v)).epoch = Value(v.epoch)
         /\ SplitDebianVersion(InDebian(v)).upstream = v.text
         /\ SplitDebianVersion(InDebian(v)).revision = Revision(v.revision)
<1>1. /\ v.epoch \in Seq(Digit) /\ v.text \in Seq(Byte) /\ v.revision \in Seq(Byte)
      /\ v = [epoch |-> v.epoch, text |-> v.text, revision |-> v.revision]
  BY VersionsAssumption
<1> DEFINE e == v.epoch
           t == v.text
           r == v.revision
<1>2. /\ e \in Seq(Digit) /\ t \in Seq(Byte) /\ r \in Seq(Byte)
      /\ v = [epoch |-> e, text |-> t, revision |-> r]
  BY <1>1
<1> HIDE DEF e, t, r
<1>3. SplitDebianVersion(InDebian(v)) = [epoch |-> Value(e), upstream |-> t, revision |-> Revision(r)]
  BY <1>2, DebianParts
<1>4. Value(e) \in Nat
  BY <1>2, ValueIs
<1> QED
  BY <1>2, <1>3, <1>4 DEF e, t, r

\* A version in Alpine's form, with a revision: it is behind the last marker.
Marked(w, text, revision) ==
  /\ Markers(w) # {} /\ SubSeq(w, 1, Last(Markers(w)) - 1) = text
  /\ SubSeq(w, Last(Markers(w)) + 2, Len(w)) = revision

LEMMA ApkMarked ==
  ASSUME NEW text \in Seq(Byte), NEW revision \in Seq(Digit),
         NEW w, w = text \o (<<Dash, Letter_r>> \o revision)
  PROVE  Marked(w, text, revision)
<1> DEFINE d == <<Dash>>
           r == <<Letter_r>>
           a == text \o d
           c == r \o revision
           n == Len(text) + 1
<1>1. /\ revision \in Seq(Byte) /\ \A k \in 1..Len(revision) : revision[k] \in Digit
      /\ Dash \in Byte /\ Letter_r \in Byte /\ Dash # Letter_r /\ Dash \notin Digit
  BY BytesAreInts, ByteIs
<1>2. d \in Seq(Byte) /\ r \in Seq(Byte) /\ Len(d) = 1 /\ Len(text) \in Nat
  BY <1>1
<1>3. w = text \o (d \o c)
  <2>1. Dash \in Int /\ Letter_r \in Int /\ revision \in Seq(Int)
    BY BytesAreInts DEF Dash, Letter_r
  <2>2. <<Dash, Letter_r>> \o revision = <<Dash>> \o (<<Letter_r>> \o revision)
    BY <2>1, ConsTwo
  <2> QED
    BY <2>2
<1> HIDE DEF d, r
<1>4. c \in Seq(Byte)
  BY <1>1, <1>2, ConcatProperties
<1>5. a \in Seq(Byte) /\ Len(a) = n
  <2>1. a \in Seq(Byte) /\ Len(a) = Len(text) + Len(d)
    BY ONLY text \in Seq(Byte), <1>2, ConcatProperties
  <2> QED
    BY <1>2, <2>1
<1>6. a \o c = text \o (d \o c)
  <2> HIDE DEF c
  <2> QED
    BY <1>2, <1>4, Joined
<1> HIDE DEF a, c
<1>7. w = text \o (<<Dash>> \o c) /\ w = a \o (<<Letter_r>> \o revision)
  BY <1>3, <1>6 DEF d, c, r
<1>8. w[n] = Dash /\ SubSeq(w, 1, Len(text)) = text
  BY <1>1, <1>4, <1>7, Parts
<1>9. /\ Len(w) = Len(a) + 1 + Len(revision) /\ w[Len(a) + 1] = Letter_r
      /\ Len(revision) \in Nat
      /\ \A k \in (Len(a) + 2)..Len(w) :
           k - Len(a) - 1 \in 1..Len(revision) /\ w[k] = revision[k - Len(a) - 1]
  BY <1>1, <1>5, <1>7, Parts, SMTT(30)
<1>10. SubSeq(w, Len(a) + 2, Len(w)) = revision
  BY <1>1, <1>5, <1>7, Cut
<1>11. n \in Markers(w) /\ Markers(w) \in SUBSET Nat
  BY <1>2, <1>5, <1>8, <1>9 DEF Markers
<1>12. ASSUME NEW i \in Markers(w) PROVE i <= n
  <2>1. i \in Nat /\ i <= Len(w) /\ w[i] = Dash
    BY <1>2, <1>5, <1>9 DEF Markers
  <2>2. i # Len(a) + 1
    BY <1>1, <1>9, <2>1
  <2>3. i \notin (Len(a) + 2)..Len(w)
    BY <1>1, <1>9, <2>1
  <2> QED
    BY <1>2, <1>5, <1>9, <2>1, <2>2, <2>3
<1>13. Last(Markers(w)) = n
  <2> HIDE DEF n
  <2> QED
    BY <1>11, <1>12, LastUnique
<1>14. n - 1 = Len(text) /\ n + 2 = Len(a) + 2
  BY <1>2, <1>5
<1> QED
  BY <1>8, <1>10, <1>11, <1>13, <1>14 DEF Marked

LEMMA ApkSplits ==
  ASSUME NEW v \in Written, OfApk(v)
  PROVE  /\ v.text \in Seq(Byte) /\ Value(v.revision) \in Nat
         /\ SplitVersion(InApk(v)).base = v.text
         /\ SplitVersion(InApk(v)).revision = Value(v.revision)
<1> DEFINE t == v.text
           r == v.revision
           w == InApk(v)
<1>1. t \in Seq(Byte) /\ r \in Seq(Digit) /\ Value(r) <= MaxInt
  BY VersionsAssumption DEF OfApk
<1>2. Value(r) \in Nat
  BY <1>1, ValueIs
<1>3. CASE r = <<>>
  <2>1. w = t
    BY <1>1, <1>3, ConcatEmptySeq DEF InApk
  <2>2. Markers(w) = {}
    BY <1>3, <2>1 DEF OfApk
  <2>3. Value(r) = 0
    BY <1>3, NoNumber
  <2> HIDE DEF w, t, r
  <2>4. SplitVersion(w) = [base |-> w, revision |-> 0]
    BY <2>2 DEF SplitVersion
  <2> QED
    BY <1>1, <1>2, <2>1, <2>3, <2>4 DEF w, t, r
<1>4. CASE r # <<>>
  <2>1. w = t \o (<<Dash, Letter_r>> \o r)
    BY <1>4 DEF InApk
  <2> HIDE DEF w, t, r
  <2>2. /\ Markers(w) # {}
        /\ SubSeq(w, 1, Last(Markers(w)) - 1) = t
        /\ SubSeq(w, Last(Markers(w)) + 2, Len(w)) = r
    <3>1. Marked(w, t, r)
      BY ONLY <1>1, <2>1, ApkMarked
    <3> QED
      BY <3>1 DEF Marked
  <2>3. Skip(r, 1, Digit) > Len(r)
    <3>1. Len(r) \in Nat
      BY <1>1
    <3> QED
      BY <1>1, <3>1, AllDigits
  <2>4. Number(r) = Value(r)
    BY <1>1, NumberIs
  <2>5. SplitVersion(w) = [base |-> t, revision |-> Number(r)]
    BY <2>2, <2>3 DEF SplitVersion
  <2> QED
    BY <1>1, <1>2, <2>4, <2>5 DEF w, t, r
<1> QED
  BY <1>3, <1>4

\* A revision that is not written is as good as 0.
LEMMA RevisionKey ==
  ASSUME NEW revision \in Seq(Byte)
  PROVE  /\ Revision(revision) \in Seq(Byte)
         /\ Compare(DebianKey(Revision(revision)), DebianKey(revision)) = 0
<1>1. CASE revision # <<>>
  BY <1>1, DebianIs, CompareOrders DEF Revision
<1>2. CASE revision = <<>>
  <2> DEFINE z == <<Zero>>
             o == <<>>
  <2>1. z \in Seq(Digit) /\ z \in Seq(Byte) /\ Len(z) = 1 /\ z[1] = Zero /\ Zero \in Digit
    <3>1. z \in Seq(Digit)
      BY ByteIs
    <3> QED
      BY <3>1, ByteIs, BytesAreInts
  <2>2. o \in Seq(Digit) /\ o \in Seq(Byte) /\ Len(o) = 0 /\ Value(o) = 0
    BY NoNumber, BytesAreInts
  <2> HIDE DEF z, o
  <2>3. /\ DebianWeight \in [Byte -> Int] /\ 0 \in Int
        /\ 1 \in 1..(Len(z) + 1) /\ 2 \in 1..(Len(z) + 1) /\ 1 \in 1..(Len(o) + 1)
    BY <2>1, <2>2, DebianWeightIs
  <2>4. PICK k : Keyed(k, z, 0, DebianWeight) /\ DebianKey(z) = k[1]
    <3>1. \E k : Keyed(k, z, 0, DebianWeight) /\ Key(z, 0, DebianWeight) = k[1]
      BY <2>1, <2>3, KeyIs
    <3> QED
      BY <3>1 DEF DebianKey
  <2>5. PICK l : Keyed(l, o, 0, DebianWeight) /\ DebianKey(o) = l[1]
    <3>1. \E l : Keyed(l, o, 0, DebianWeight) /\ Key(o, 0, DebianWeight) = l[1]
      BY <2>2, <2>3, KeyIs
    <3> QED
      BY <3>1 DEF DebianKey
  <2>6. l[1] = <<>> /\ l[1] \in Seq(Int)
    <3>1. l[1] = KeyAt(l, o, 0, DebianWeight, 1) /\ l[1] \in Seq(Int)
      BY <2>3, <2>5, KeyHas
    <3> QED
      BY <2>2, <3>1 DEF KeyAt
  <2>7. k[2] = <<>> /\ k[2] \in Seq(Int)
    <3>1. k[2] = KeyAt(k, z, 0, DebianWeight, 2) /\ k[2] \in Seq(Int)
      BY <2>3, <2>4, KeyHas
    <3> QED
      BY <2>1, <3>1 DEF KeyAt
  <2>8. Skip(z, 1, Digit) = 2 /\ Digits(z, 1) = z
    <3>1. Skip(z, 1, Digit) = Len(z) + 1
      BY <2>1, AllDigits
    <3>2. Digits(z, 1) \in Seq(Digit) /\ Len(Digits(z, 1)) = 1 /\ Digits(z, 1)[1] = z[1]
      <4>1. /\ Digits(z, 1) \in Seq(Digit)
            /\ Len(Digits(z, 1)) = Skip(z, 1, Digit) - 1
            /\ \A j \in 1..(Skip(z, 1, Digit) - 1) : Digits(z, 1)[j] = z[1 + j - 1]
        BY <2>1, <2>3, DigitsAre
      <4> QED
        BY <2>1, <3>1, <4>1
    <3> QED
      BY <2>1, <3>1, <3>2, SeqEqual
  <2>9. Value(z) = 0
    <3>1. Len(z) = Len(o) + 1 /\ \A j \in 1..1 : z[j] = Zero
      BY <2>1, <2>2
    <3>2. \A j \in 1..Len(o) : z[j + 1] = o[j]
      BY <2>2
    <3> QED
      BY <2>1, <2>2, <3>1, <3>2, ValueZeros
  <2>10. /\ k[1] \in Seq(Int) /\ At(k[1], 1) = 0
         /\ \E x \in Seq(Int) : After(k[1], x) /\ At(x, 1) = 0 /\ After(x, k[2])
    <3>1. 1 <= Len(z) /\ z[1] \in Digit
      BY <2>1
    <3>2. /\ k[1] \in Seq(Int) /\ At(k[1], 1) = 0
          /\ \E x \in Seq(Int) : /\ After(k[1], x) /\ At(x, 1) = Value(Digits(z, 1))
                                 /\ After(x, k[Skip(z, 1, Digit)])
      BY <2>1, <2>3, <2>4, <3>1, KeyNumber
    <3> QED
      BY <2>8, <2>9, <3>2
  <2>11. PICK x \in Seq(Int) : After(k[1], x) /\ At(x, 1) = 0 /\ After(x, k[2])
    BY <2>10
  <2>12. ASSUME NEW i \in Nat \ {0} PROVE At(<<>>, i) = 0
    BY DEF At
  <2>13. ASSUME NEW i \in Nat \ {0} PROVE At(x, i) = 0
    <3>1. CASE i = 1
      BY <2>11, <3>1
    <3>2. CASE i # 1
      <4>1. i - 1 \in Nat \ {0} /\ (i - 1) + 1 = i
        BY <3>2
      <4>2. At(x, (i - 1) + 1) = At(k[2], i - 1)
        BY ONLY <2>11, <4>1 DEF After
      <4> QED
        BY <2>7, <2>12, <4>1, <4>2
    <3> QED
      BY <3>1, <3>2
  <2>14. ASSUME NEW i \in Nat \ {0} PROVE At(k[1], i) = 0
    <3>1. CASE i = 1
      BY <2>10, <3>1
    <3>2. CASE i # 1
      <4>1. i - 1 \in Nat \ {0} /\ (i - 1) + 1 = i
        BY <3>2
      <4> QED
        BY <2>11, <2>13, <4>1 DEF After
    <3> QED
      BY <3>1, <3>2
  <2>15. Compare(k[1], l[1]) = 0
    BY <2>6, <2>10, <2>12, <2>14, CompareSame DEF Same
  <2> QED
    BY <1>2, <2>1, <2>4, <2>5, <2>15 DEF Revision, z, o
<1> QED
  BY <1>1, <1>2

-----------------------------------------------------------------------------
(* The theorems.                                                           *)

LEMMA WrittenStays == PairSpec => [](left \in Written /\ right \in Written)
<1> DEFINE I == left \in Written /\ right \in Written
<1>1. PairInit => I
  BY DEF PairInit
<1>2. I /\ [PairNext]_<<left, right>> => I'
  BY DEF PairNext
<1> QED
  BY <1>1, <1>2, PTL DEF PairSpec

\* On versions that have Debian's form debianVersionCompare is Debian's order:
\* epochs as numbers, then texts and then revisions by their keys, a revision that
\* is missing counting as 0.  This is for versions of every length, with epochs
\* that an int can hold.
THEOREM DebianIsExact == PairSpec => []DebianExact
<1>1. ASSUME left \in Written, right \in Written PROVE DebianExact
  <2> SUFFICES ASSUME OfDebian(left), OfDebian(right) PROVE DebianExact
    BY DEF DebianExact
  <2> DEFINE l == SplitDebianVersion(InDebian(left))
             r == SplitDebianVersion(InDebian(right))
             x == Revision(left.revision)
             y == Revision(right.revision)
  <2>1. /\ left.text \in Seq(Byte) /\ left.revision \in Seq(Byte)
        /\ l.epoch = Value(left.epoch) /\ l.upstream = left.text /\ l.revision = x
    BY <1>1, DebianSplits
  <2>2. /\ right.text \in Seq(Byte) /\ right.revision \in Seq(Byte)
        /\ r.epoch = Value(right.epoch) /\ r.upstream = right.text /\ r.revision = y
    BY <1>1, DebianSplits
  <2>3. CompareDebianPart(left.text, right.text)
          = Compare(DebianKey(left.text), DebianKey(right.text))
    BY <2>1, <2>2, DebianIs
  <2>4. /\ x \in Seq(Byte) /\ Compare(DebianKey(x), DebianKey(left.revision)) = 0
        /\ y \in Seq(Byte) /\ Compare(DebianKey(y), DebianKey(right.revision)) = 0
    BY <2>1, <2>2, RevisionKey
  <2>5. CompareDebianPart(x, y) = Compare(DebianKey(left.revision), DebianKey(right.revision))
    <3> DEFINE kx == DebianKey(x)
               ky == DebianKey(y)
               kl == DebianKey(left.revision)
               kr == DebianKey(right.revision)
    <3>1. kx \in Seq(Int) /\ ky \in Seq(Int) /\ kl \in Seq(Int) /\ kr \in Seq(Int)
      BY <2>1, <2>2, <2>4, DebianIs
    <3>2. CompareDebianPart(x, y) = Compare(kx, ky)
      BY <2>4, DebianIs
    <3>3. Compare(kx, kl) = 0 /\ Compare(ky, kr) = 0
      BY <2>4
    <3> HIDE DEF kx, ky, kl, kr
    <3>4. Compare(kx, ky) = Compare(kl, kr)
      BY <3>1, <3>3, CompareEqual
    <3> QED
      BY <3>2, <3>4 DEF kl, kr
  <2>6. DebianVersionCompare(InDebian(left), InDebian(right))
          = IF l.epoch # r.epoch THEN Sign(l.epoch - r.epoch)
            ELSE IF CompareDebianPart(l.upstream, r.upstream) # 0
                 THEN CompareDebianPart(l.upstream, r.upstream)
            ELSE CompareDebianPart(l.revision, r.revision)
    BY DEF DebianVersionCompare
  <2> HIDE DEF l, r, x, y
  <2> QED
    BY <2>1, <2>2, <2>3, <2>5, <2>6 DEF DebianExact
<1> QED
  BY <1>1, WrittenStays, PTL

\* On versions that have the form its comment names apkVersionCompare is an order
\* too: texts by their keys, then the numbers behind -r, a missing one counting as
\* 0.  This is for versions of every length, with revisions that an int can hold.
THEOREM ApkIsExact == PairSpec => []ApkExact
<1>1. ASSUME left \in Written, right \in Written PROVE ApkExact
  <2> SUFFICES ASSUME OfApk(left), OfApk(right) PROVE ApkExact
    BY DEF ApkExact
  <2> DEFINE l == SplitVersion(InApk(left))
             r == SplitVersion(InApk(right))
  <2>1. left.text \in Seq(Byte) /\ l.base = left.text /\ l.revision = Value(left.revision)
    BY <1>1, ApkSplits
  <2>2. right.text \in Seq(Byte) /\ r.base = right.text /\ r.revision = Value(right.revision)
    BY <1>1, ApkSplits
  <2>3. CompareVersionBase(left.text, right.text) = Compare(ApkKey(left.text), ApkKey(right.text))
    BY <2>1, <2>2, ApkIs
  <2>4. ApkVersionCompare(InApk(left), InApk(right))
          = IF CompareVersionBase(l.base, r.base) # 0 THEN CompareVersionBase(l.base, r.base)
            ELSE Sign(l.revision - r.revision)
    BY DEF ApkVersionCompare
  <2> HIDE DEF l, r
  <2> QED
    BY <2>1, <2>2, <2>3, <2>4 DEF ApkExact
<1> QED
  BY <1>1, WrittenStays, PTL

\* What a comparison of three things must be for any of them to be the greatest,
\* whatever the order in which they come: a total preorder.
Ordered(uu, uv, vu, vw, uw) ==
  /\ uu = 0 /\ uv \in {-1, 0, 1} /\ vw \in {-1, 0, 1} /\ uw \in {-1, 0, 1} /\ vu = -uv
  /\ uv = 0 => uw = vw
  /\ uv < 0 /\ vw <= 0 => uw < 0

LEMMA KeysOrdered ==
  ASSUME NEW u \in Seq(Int), NEW v \in Seq(Int), NEW w \in Seq(Int)
  PROVE  Ordered(Compare(u, u), Compare(u, v), Compare(v, u), Compare(v, w), Compare(u, w))
BY CompareOrders DEF Ordered

LEMMA NumbersOrdered ==
  ASSUME NEW u \in Int, NEW v \in Int, NEW w \in Int
  PROVE  Ordered(Sign(u - u), Sign(u - v), Sign(v - u), Sign(v - w), Sign(u - w))
BY DEF Ordered, Sign

\* One order after another is an order.
LEMMA ThenOrdered ==
  ASSUME NEW a, NEW b, NEW c, NEW d, NEW e, Ordered(a, b, c, d, e),
         NEW p, NEW q, NEW r, NEW s, NEW t, Ordered(p, q, r, s, t)
  PROVE  Ordered(IF a # 0 THEN a ELSE p, IF b # 0 THEN b ELSE q, IF c # 0 THEN c ELSE r,
                 IF d # 0 THEN d ELSE s, IF e # 0 THEN e ELSE t)
BY DEF Ordered

LEMMA PartIs ==
  ASSUME NEW s \in Seq(Byte), NEW m \in Int, NEW n \in Int, 1 <= m, n <= Len(s)
  PROVE  SubSeq(s, m, n) \in Seq(Byte)
<1>1. \A i \in m..n : s[i] \in Byte
  OBVIOUS
<1> QED
  BY <1>1, SubSeqProperties

LEMMA PlacesAre ==
  ASSUME NEW s \in Seq(Byte), NEW b, Places(s, b) # {}
  PROVE  First(Places(s, b)) \in 1..Len(s) /\ Last(Places(s, b)) \in 1..Len(s)
<1> DEFINE T == Places(s, b)
<1>1. T \subseteq 1..Len(s) /\ Len(s) \in Nat
  BY DEF Places
<1>2. IsFiniteSet(T) /\ T \in SUBSET Nat
  <2>1. IsFiniteSet(1..Len(s))
    BY <1>1, FS_Interval
  <2>2. T \in SUBSET (1..Len(s)) /\ 1..Len(s) \subseteq Nat
    BY <1>1
  <2> HIDE DEF T
  <2> QED
    BY <2>1, <2>2, FS_Subset
<1>3. T # {}
  OBVIOUS
<1> HIDE DEF T
<1> QED
  BY <1>1, <1>2, <1>3, FirstIs, LastIs DEF T

\* The parts of any string whatever.
LEMMA DebianSplitIs ==
  ASSUME NEW v \in Seq(Byte)
  PROVE  /\ SplitDebianVersion(v).epoch \in Int
         /\ SplitDebianVersion(v).upstream \in Seq(Byte)
         /\ SplitDebianVersion(v).revision \in Seq(Byte)
<1> DEFINE colons == Places(v, Colon)
           rest == IF colons = {} THEN v ELSE SubSeq(v, First(colons) + 1, Len(v))
           dashes == Places(rest, Dash)
           epoch == IF colons = {} THEN 0 ELSE Number(Digits(v, 1))
           upstream == IF dashes = {} THEN rest ELSE SubSeq(rest, 1, Last(dashes) - 1)
           revision == IF dashes = {} THEN <<Zero>> ELSE SubSeq(rest, Last(dashes) + 1, Len(rest))
<1>1. SplitDebianVersion(v) = [epoch |-> epoch, upstream |-> upstream, revision |-> revision]
  BY DEF SplitDebianVersion
<1>2. epoch \in Int
  <2>1. 1 \in 1..(Len(v) + 1)
    OBVIOUS
  <2>2. Digits(v, 1) \in Seq(Digit)
    BY <2>1, DigitsAre
  <2> QED
    BY <2>2, NumberIs
<1>3. rest \in Seq(Byte)
  <2>1. CASE colons # {}
    <3>1. First(colons) \in 1..Len(v)
      BY <2>1, PlacesAre
    <3> HIDE DEF colons
    <3>2. First(colons) + 1 \in Int /\ 1 <= First(colons) + 1 /\ Len(v) \in Int /\ Len(v) <= Len(v)
      BY <3>1
    <3>3. SubSeq(v, First(colons) + 1, Len(v)) \in Seq(Byte)
      BY <3>2, PartIs
    <3> QED
      BY <2>1, <3>3
  <2> QED
    BY <2>1
<1> HIDE DEF rest
<1>4. upstream \in Seq(Byte) /\ revision \in Seq(Byte)
  <2>1. CASE dashes = {}
    <3>1. <<Zero>> \in Seq(Byte)
      BY DEF Zero, Byte
    <3> QED
      BY <1>3, <2>1, <3>1
  <2>2. CASE dashes # {}
    <3>1. Last(dashes) \in 1..Len(rest)
      BY <1>3, <2>2, PlacesAre
    <3> HIDE DEF dashes
    <3>2. /\ Last(dashes) - 1 \in Int /\ Last(dashes) - 1 <= Len(rest) /\ Len(rest) \in Int
          /\ Last(dashes) + 1 \in Int /\ 1 <= Last(dashes) + 1
      BY <1>3, <3>1
    <3>3. /\ SubSeq(rest, 1, Last(dashes) - 1) \in Seq(Byte)
          /\ SubSeq(rest, Last(dashes) + 1, Len(rest)) \in Seq(Byte)
      <4>1. SubSeq(rest, 1, Last(dashes) - 1) \in Seq(Byte)
        BY <1>3, <3>2, PartIs
      <4>2. SubSeq(rest, Last(dashes) + 1, Len(rest)) \in Seq(Byte)
        BY <1>3, <3>2, PartIs
      <4> QED
        BY <4>1, <4>2
    <3> QED
      BY <2>2, <3>3
  <2> QED
    BY <2>1, <2>2
<1> HIDE DEF epoch, upstream, revision
<1> QED
  BY <1>1, <1>2, <1>4

LEMMA ApkSplitIs ==
  ASSUME NEW v \in Seq(Byte)
  PROVE  SplitVersion(v).base \in Seq(Byte) /\ SplitVersion(v).revision \in Int
<1> DEFINE marker == Last(Markers(v))
           suffix == SubSeq(v, marker + 2, Len(v))
<1>1. CASE Markers(v) # {} /\ Skip(suffix, 1, Digit) > Len(suffix)
  <2>1. Markers(v) \subseteq 1..(Len(v) - 1) /\ Len(v) \in Nat
    BY DEF Markers
  <2>2. IsFiniteSet(Markers(v)) /\ Markers(v) \in SUBSET Nat
    <3>1. IsFiniteSet(1..(Len(v) - 1))
      BY <2>1, FS_Interval
    <3> QED
      BY <2>1, <3>1, FS_Subset
  <2>3. marker \in 1..(Len(v) - 1)
    BY <1>1, <2>1, <2>2, LastIs
  <2> HIDE DEF marker
  <2>4. SubSeq(v, 1, marker - 1) \in Seq(Byte)
    <3>1. marker - 1 \in Int /\ marker - 1 <= Len(v)
      BY <2>1, <2>3
    <3> QED
      BY <3>1, PartIs
  <2>5. suffix \in Seq(Byte)
    <3>1. marker + 2 \in Int /\ 1 <= marker + 2 /\ Len(v) \in Int /\ Len(v) <= Len(v)
      BY <2>1, <2>3
    <3> QED
      BY <3>1, PartIs
  <2> HIDE DEF suffix
  <2>6. suffix \in Seq(Digit)
    <3>1. Len(suffix) \in Nat /\ 1 \in 1..(Len(suffix) + 1)
      BY <2>5
    <3>2. Stops(suffix, 1, Digit, Skip(suffix, 1, Digit))
      BY <3>1, SkipStops
    <3>3. \A k \in 1..Len(suffix) : suffix[k] \in Digit
      BY <1>1, <3>1, <3>2 DEF Stops
    <3>4. suffix = [k \in 1..Len(suffix) |-> suffix[k]]
      BY <2>5
    <3>5. [k \in 1..Len(suffix) |-> suffix[k]] \in [1..Len(suffix) -> Digit]
      BY <3>3
    <3> QED
      BY <3>1, <3>4, <3>5, SeqDef
  <2>7. Number(suffix) \in Int
    BY <2>6, NumberIs
  <2>8. SplitVersion(v) = [base |-> SubSeq(v, 1, marker - 1), revision |-> Number(suffix)]
    BY <1>1 DEF SplitVersion, marker, suffix
  <2> QED
    BY <2>4, <2>7, <2>8
<1>2. CASE ~(Markers(v) # {} /\ Skip(suffix, 1, Digit) > Len(suffix))
  <2>1. SplitVersion(v) = [base |-> v, revision |-> 0]
    BY <1>2 DEF SplitVersion
  <2> QED
    BY <2>1
<1> QED
  BY <1>1, <1>2

\* debianVersionCompare is a total preorder of all strings, well formed or not, and
\* with epochs of any length: which of several versions is kept as the newest does
\* not depend on the order in which an index lists them, up to equal ones.
THEOREM DebianOrders ==
  ASSUME NEW u \in Seq(Byte), NEW v \in Seq(Byte), NEW w \in Seq(Byte)
  PROVE  Ordered(DebianVersionCompare(u, u), DebianVersionCompare(u, v), DebianVersionCompare(v, u),
                 DebianVersionCompare(v, w), DebianVersionCompare(u, w))
<1> DEFINE E(s) == SplitDebianVersion(s).epoch
           P(s) == SplitDebianVersion(s).upstream
           R(s) == SplitDebianVersion(s).revision
           e(s, t) == Sign(E(s) - E(t))
           p(s, t) == Compare(DebianKey(P(s)), DebianKey(P(t)))
           r(s, t) == Compare(DebianKey(R(s)), DebianKey(R(t)))
           pr(s, t) == IF p(s, t) # 0 THEN p(s, t) ELSE r(s, t)
           epr(s, t) == IF e(s, t) # 0 THEN e(s, t) ELSE pr(s, t)
<1>1. ASSUME NEW s \in Seq(Byte), NEW t \in Seq(Byte)
      PROVE  DebianVersionCompare(s, t) = epr(s, t)
  <2>1. E(s) \in Int /\ P(s) \in Seq(Byte) /\ R(s) \in Seq(Byte)
    BY DebianSplitIs
  <2>2. E(t) \in Int /\ P(t) \in Seq(Byte) /\ R(t) \in Seq(Byte)
    BY DebianSplitIs
  <2>3. DebianVersionCompare(s, t)
          = IF E(s) # E(t) THEN Sign(E(s) - E(t))
            ELSE IF CompareDebianPart(P(s), P(t)) # 0 THEN CompareDebianPart(P(s), P(t))
            ELSE CompareDebianPart(R(s), R(t))
    BY DEF DebianVersionCompare
  <2>4. /\ CompareDebianPart(P(s), P(t)) = p(s, t)
        /\ CompareDebianPart(R(s), R(t)) = r(s, t)
    BY <2>1, <2>2, DebianIs
  <2>5. e(s, t) # 0 <=> E(s) # E(t)
    BY <2>1, <2>2 DEF Sign
  <2> HIDE DEF E, P, R, p, r
  <2> QED
    BY <2>3, <2>4, <2>5
<1>2. Ordered(e(u, u), e(u, v), e(v, u), e(v, w), e(u, w))
  <2>1. E(u) \in Int /\ E(v) \in Int /\ E(w) \in Int
    BY DebianSplitIs
  <2> HIDE DEF E
  <2> QED
    BY <2>1, NumbersOrdered
<1>3. Ordered(p(u, u), p(u, v), p(v, u), p(v, w), p(u, w))
  <2>1. P(u) \in Seq(Byte) /\ P(v) \in Seq(Byte) /\ P(w) \in Seq(Byte)
    BY DebianSplitIs
  <2> HIDE DEF P
  <2>2. /\ DebianKey(P(u)) \in Seq(Int) /\ DebianKey(P(v)) \in Seq(Int)
        /\ DebianKey(P(w)) \in Seq(Int)
    BY <2>1, DebianIs
  <2> QED
    BY <2>2, KeysOrdered
<1>4. Ordered(r(u, u), r(u, v), r(v, u), r(v, w), r(u, w))
  <2>1. R(u) \in Seq(Byte) /\ R(v) \in Seq(Byte) /\ R(w) \in Seq(Byte)
    BY DebianSplitIs
  <2> HIDE DEF R
  <2>2. /\ DebianKey(R(u)) \in Seq(Int) /\ DebianKey(R(v)) \in Seq(Int)
        /\ DebianKey(R(w)) \in Seq(Int)
    BY <2>1, DebianIs
  <2> QED
    BY <2>2, KeysOrdered
<1> HIDE DEF e, p, r
<1>5. Ordered(pr(u, u), pr(u, v), pr(v, u), pr(v, w), pr(u, w))
  BY <1>3, <1>4, ThenOrdered
<1> HIDE DEF pr
<1>6. Ordered(epr(u, u), epr(u, v), epr(v, u), epr(v, w), epr(u, w))
  BY <1>2, <1>5, ThenOrdered
<1> HIDE DEF epr
<1> QED
  BY <1>1, <1>6

\* And so is apkVersionCompare.
THEOREM ApkOrders ==
  ASSUME NEW u \in Seq(Byte), NEW v \in Seq(Byte), NEW w \in Seq(Byte)
  PROVE  Ordered(ApkVersionCompare(u, u), ApkVersionCompare(u, v), ApkVersionCompare(v, u),
                 ApkVersionCompare(v, w), ApkVersionCompare(u, w))
<1> DEFINE B(s) == SplitVersion(s).base
           R(s) == SplitVersion(s).revision
           b(s, t) == Compare(ApkKey(B(s)), ApkKey(B(t)))
           r(s, t) == Sign(R(s) - R(t))
           br(s, t) == IF b(s, t) # 0 THEN b(s, t) ELSE r(s, t)
<1>1. ASSUME NEW s \in Seq(Byte), NEW t \in Seq(Byte)
      PROVE  ApkVersionCompare(s, t) = br(s, t)
  <2>1. B(s) \in Seq(Byte) /\ B(t) \in Seq(Byte)
    BY ApkSplitIs
  <2>2. CompareVersionBase(B(s), B(t)) = b(s, t)
    BY <2>1, ApkIs
  <2>3. ApkVersionCompare(s, t)
          = IF CompareVersionBase(B(s), B(t)) # 0 THEN CompareVersionBase(B(s), B(t)) ELSE r(s, t)
    BY DEF ApkVersionCompare
  <2> HIDE DEF B, b, r
  <2> QED
    BY <2>2, <2>3
<1>2. Ordered(b(u, u), b(u, v), b(v, u), b(v, w), b(u, w))
  <2>1. B(u) \in Seq(Byte) /\ B(v) \in Seq(Byte) /\ B(w) \in Seq(Byte)
    BY ApkSplitIs
  <2> HIDE DEF B
  <2>2. ApkKey(B(u)) \in Seq(Int) /\ ApkKey(B(v)) \in Seq(Int) /\ ApkKey(B(w)) \in Seq(Int)
    BY <2>1, ApkIs
  <2> QED
    BY <2>2, KeysOrdered
<1>3. Ordered(r(u, u), r(u, v), r(v, u), r(v, w), r(u, w))
  <2>1. R(u) \in Int /\ R(v) \in Int /\ R(w) \in Int
    BY ApkSplitIs
  <2> HIDE DEF R
  <2> QED
    BY <2>1, NumbersOrdered
<1> HIDE DEF b, r
<1>4. Ordered(br(u, u), br(u, v), br(v, u), br(v, w), br(u, w))
  BY <1>2, <1>3, ThenOrdered
<1> HIDE DEF br
<1> QED
  BY <1>1, <1>4
=============================================================================
