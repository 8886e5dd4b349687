------------------------------- MODULE Orders -------------------------------
(***************************************************************************)
(* Facts about numbers, finite sets and their orders that the selections   *)
(* of Pypi and Catalog and the comparisons of Versions rest on: least and  *)
(* greatest elements, loops over a sequence, that a finite set has exactly *)
(* one sequence in a given order, one that begins with a given part, and   *)
(* functions defined from the end.  An order R is a set of pairs, with     *)
(* <<x, y>> \in R when x comes before y.                                   *)
(***************************************************************************)
EXTENDS FiniteSetTheorems, FunctionTheorems, TLAPS

\* A non-empty finite set of integers has a greatest element.
LEMMA Greatest ==
  ASSUME NEW T, IsFiniteSet(T), T # {}, T \subseteq Int
  PROVE  \E t \in T : \A u \in T : u <= t
<1> DEFINE above(x) == {y \in T : y > x}
           G == {above(x) : x \in T}
<1>1. IsWellFoundedOn(StrictSubsetOrdering(T), SUBSET T)
  BY FS_StrictSubsetOrderingWellFounded, FS_FiniteSubsetsOfFinite
<1>2. G \subseteq SUBSET T /\ G # {}
  OBVIOUS
<1>3. PICK A \in G : \A B \in G : ~(<<B, A>> \in StrictSubsetOrdering(T))
  <2> HIDE DEF G
  <2> QED
    BY <1>1, <1>2, WFMin
<1>4. PICK t \in T : A = above(t)
  OBVIOUS
<1>5. ASSUME NEW u \in T, u > t PROVE FALSE
  <2>1. \A y \in T : y \in Int
    OBVIOUS
  <2>2. \A y \in above(u) : y \in above(t)
    BY <1>5, <2>1
  <2>3. u \in above(t) /\ u \notin above(u)
    BY <1>5, <2>1
  <2>4. above(u) \subseteq T /\ above(t) \subseteq T
    OBVIOUS
  <2>5. <<above(u), above(t)>> \in StrictSubsetOrdering(T)
    <3> HIDE DEF above
    <3> QED
      BY <2>2, <2>3, <2>4 DEF StrictSubsetOrdering
  <2> QED
    BY <1>3, <1>4, <2>5
<1> QED
  BY <1>5

\* A non-empty set of natural numbers has a least element.
LEMMA Least ==
  ASSUME NEW T, T # {}, T \subseteq Nat
  PROVE  \E t \in T : \A u \in T : t <= u
<1>1. PICK b \in T : TRUE
  OBVIOUS
<1> DEFINE U == {-x : x \in {y \in T : y <= b}}
<1>2. IsFiniteSet({y \in T : y <= b})
  <2>1. IsFiniteSet(0..b)
    BY FS_Interval
  <2>2. {y \in T : y <= b} \in SUBSET (0..b)
    <3>1. \A y \in T : y <= b => y \in 0..b
      OBVIOUS
    <3> QED
      BY <3>1
  <2> QED
    BY <2>1, <2>2, FS_Subset
<1>3. IsFiniteSet(U)
  <2> DEFINE f == [y \in {z \in T : z <= b} |-> -y]
  <2>1. f \in Surjection({y \in T : y <= b}, U)
    BY DEF Surjection
  <2> QED
    BY <1>2, <2>1, FS_Surjection
<1>4. U # {} /\ U \subseteq Int
  OBVIOUS
<1>5. PICK m \in U : \A u \in U : u <= m
  <2> HIDE DEF U
  <2> QED
    BY <1>3, <1>4, Greatest
<1>6. PICK t \in T : t <= b /\ m = -t
  OBVIOUS
<1>7. ASSUME NEW u \in T PROVE t <= u
  <2>1. CASE u <= b
    <3>1. -u \in U
      BY <2>1
    <3> QED
      BY <1>5, <1>6, <3>1
  <2>2. CASE u > b
    BY <1>6, <2>2
  <2>3. u <= b \/ u > b
    <3>1. u \in Int /\ b \in Int
      OBVIOUS
    <3> QED
      BY ONLY <3>1
  <2> QED
    BY ONLY <2>1, <2>2, <2>3
<1> QED
  BY <1>7

\* What holds at 0 and stays true from one number to the next holds up to N:
\* no number is the least of those outside T.
LEMMA UpTo ==
  ASSUME NEW N \in Nat, NEW T, 0 \in T, \A n \in 1..N : n - 1 \in T => n \in T
  PROVE  \A n \in 0..N : n \in T
<1> DEFINE F == {n \in 0..N : n \notin T}
<1>1. CASE F # {}
  <2>1. F \subseteq Nat
    OBVIOUS
  <2>2. PICK n \in F : \A m \in F : n <= m
    <3> HIDE DEF F
    <3> QED
      BY <1>1, <2>1, Least
  <2>3. n # 0 /\ n \in 1..N
    OBVIOUS
  <2>4. n - 1 \in 0..N /\ ~(n <= n - 1)
    BY <2>3
  <2>5. n - 1 \in T
    BY <2>2, <2>4
  <2> QED
    BY <2>3, <2>5
<1> QED
  BY <1>1

\* The values of a variable over the N turns of a loop.
Looped(g, N, S, start, turn) ==
  g \in [0..N -> S] /\ g[0] = start /\ \A n \in 1..N : g[n] = turn[n][g[n - 1]]

\* A loop whose turns stay in S goes through such values.
LEMMA Loop ==
  ASSUME NEW N \in Nat, NEW S, NEW start \in S, NEW turn \in [1..N -> [S -> S]]
  PROVE  \E g : Looped(g, N, S, start, turn)
<1> DEFINE Runs(k) == {g \in [0..k -> S] : /\ g[0] = start
                                          /\ \A n \in 1..k : g[n] = turn[n][g[n - 1]]}
           T == {k \in 0..N : Runs(k) # {}}
<1>1. 0 \in T
  <2>1. [n \in 0..0 |-> start] \in Runs(0)
    OBVIOUS
  <2> QED
    BY <2>1
<1>2. ASSUME NEW k \in 1..N, k - 1 \in T PROVE k \in T
  <2>1. PICK g \in Runs(k - 1) : TRUE
    BY <1>2
  <2> DEFINE h == [n \in 0..k |-> IF n = k THEN turn[k][g[k - 1]] ELSE g[n]]
  <2>2. g \in [0..(k - 1) -> S] /\ g[k - 1] \in S
    OBVIOUS
  <2>3. turn[k][g[k - 1]] \in S
    BY <2>2
  <2>4. h \in [0..k -> S]
    BY <2>2, <2>3
  <2>5. h[0] = start
    OBVIOUS
  <2>6. ASSUME NEW n \in 1..k PROVE h[n] = turn[n][h[n - 1]]
    <3>1. n - 1 \in 0..k /\ n - 1 # k /\ h[n - 1] = g[n - 1]
      OBVIOUS
    <3>2. CASE n = k
      BY <3>1, <3>2
    <3>3. CASE n # k
      <4>1. n \in 1..(k - 1) /\ h[n] = g[n]
        BY <3>3
      <4> QED
        BY <3>1, <4>1
    <3> QED
      BY <3>2, <3>3
  <2> HIDE DEF h
  <2>7. h \in Runs(k)
    BY <2>4, <2>5, <2>6
  <2>8. k \in 0..N
    OBVIOUS
  <2> HIDE DEF Runs
  <2> QED
    BY <2>7, <2>8
<1>3. N \in T
  <2> HIDE DEF T, Runs
  <2>1. \A n \in 1..N : n - 1 \in T => n \in T
    BY <1>2
  <2>2. \A n \in 0..N : n \in T
    BY ONLY N \in Nat, <1>1, <2>1, UpTo
  <2> QED
    BY <2>2
<1>4. PICK g \in Runs(N) : TRUE
  BY <1>3
<1>5. g \in [0..N -> S] /\ g[0] = start /\ \A n \in 1..N : g[n] = turn[n][g[n - 1]]
  OBVIOUS
<1> QED
  BY <1>5 DEF Looped

\* Functions are told apart by their values.
LEMMA SameFunction ==
  ASSUME NEW D, NEW S, NEW f \in [D -> S], NEW g \in [D -> S], \A i \in D : f[i] = g[i]
  PROVE  f = g
OBVIOUS

\* Each value of a function is made of the later ones, and such a function.
Backward(turn, N, S) ==
  /\ turn \in [1..N -> [[1..N -> S] -> S]]
  /\ \A i \in 1..N : \A f, g \in [1..N -> S] :
       (\A k \in (i + 1)..N : f[k] = g[k]) => turn[i][f] = turn[i][g]

Recurs(f, turn, N, S) == f \in [1..N -> S] /\ \A i \in 1..N : f[i] = turn[i][f]

\* It exists.
LEMMA Recursion ==
  ASSUME NEW N \in Nat, NEW S, S # {}, NEW turn, Backward(turn, N, S)
  PROVE  \E f : Recurs(f, turn, N, S)
<1> USE DEF Backward
<1> DEFINE Good(f, n) == \A i \in (N - n + 1)..N : f[i] = turn[i][f]
           T == {n \in 0..N : \E f \in [1..N -> S] : Good(f, n)}
<1>1. 0 \in T
  <2>1. PICK x \in S : TRUE
    OBVIOUS
  <2> DEFINE f == [i \in 1..N |-> x]
  <2>2. f \in [1..N -> S]
    OBVIOUS
  <2>3. \A i \in (N - 0 + 1)..N : FALSE
    OBVIOUS
  <2>4. Good(f, 0) /\ 0 \in 0..N
    BY <2>3
  <2> HIDE DEF f, Good
  <2> QED
    BY <2>2, <2>4
<1>2. ASSUME NEW n \in 1..N, n - 1 \in T PROVE n \in T
  <2>1. PICK f \in [1..N -> S] : Good(f, n - 1)
    BY <1>2
  <2> DEFINE i == N - n + 1
             g == [f EXCEPT ![i] = turn[i][f]]
  <2>2. i \in 1..N /\ turn[i][f] \in S
    OBVIOUS
  <2>3. /\ g \in [1..N -> S] /\ g[i] = turn[i][f]
        /\ \A k \in 1..N : k # i => g[k] = f[k]
    BY <2>2
  <2> HIDE DEF g
  <2>4. ASSUME NEW k \in i..N PROVE g[k] = turn[k][g]
    <3>1. k \in 1..N
      BY <2>2
    <3>2. \A m \in (k + 1)..N : m \in 1..N /\ m # i
      BY <2>2
    <3>3. turn[k][g] = turn[k][f]
      BY <2>3, <3>1, <3>2
    <3>4. CASE k = i
      BY <2>3, <3>3, <3>4
    <3>5. CASE k # i
      <4>1. k \in (N - (n - 1) + 1)..N
        BY <2>2, <3>5
      <4>2. f[k] = turn[k][f]
        BY <2>1, <4>1
      <4> QED
        BY <2>3, <3>1, <3>3, <3>5, <4>2
    <3> QED
      BY <3>4, <3>5
  <2>5. Good(g, n)
    BY <2>4
  <2>6. n \in 0..N
    OBVIOUS
  <2> HIDE DEF Good
  <2> QED
    BY <2>3, <2>5, <2>6
<1>3. N \in T
  <2> HIDE DEF T, Good
  <2>1. \A n \in 0..N : n \in T
    BY <1>1, <1>2, UpTo
  <2> QED
    BY <2>1
<1>4. PICK f \in [1..N -> S] : Good(f, N)
  BY <1>3
<1>5. \A i \in 1..N : i \in (N - N + 1)..N
  OBVIOUS
<1> QED
  BY <1>4, <1>5 DEF Recurs

-----------------------------------------------------------------------------
(* A set in order.                                                         *)

StrictOrder(R, S) ==
  /\ \A x \in S : <<x, x>> \notin R
  /\ \A x, y, z \in S : <<x, y>> \in R /\ <<y, z>> \in R => <<x, z>> \in R
  /\ \A x, y \in S : x # y => <<x, y>> \in R \/ <<y, x>> \in R

\* What comes before x, and the sequences of S in the order R.
Ahead(R, S, x) == {y \in S : <<y, x>> \in R}

InOrder(R, S) ==
  {s \in [1..Cardinality(S) -> S] : \A i, j \in 1..Cardinality(S) : i < j => <<s[i], s[j]>> \in R}

LEMMA AheadCounts ==
  ASSUME NEW S, IsFiniteSet(S), NEW R, StrictOrder(R, S), NEW x \in S
  PROVE  /\ IsFiniteSet(Ahead(R, S, x))
         /\ Cardinality(Ahead(R, S, x)) \in 0..(Cardinality(S) - 1)
<1>1. Ahead(R, S, x) \in SUBSET (S \ {x})
  BY DEF Ahead, StrictOrder
<1>2. IsFiniteSet(S \ {x}) /\ Cardinality(S \ {x}) = Cardinality(S) - 1
  BY FS_RemoveElement
<1> QED
  BY <1>1, <1>2, FS_Subset, FS_CardinalityType

\* Of two elements the later has more before it.
LEMMA AheadGrows ==
  ASSUME NEW S, IsFiniteSet(S), NEW R, StrictOrder(R, S),
         NEW x \in S, NEW y \in S, <<x, y>> \in R
  PROVE  Cardinality(Ahead(R, S, x)) < Cardinality(Ahead(R, S, y))
<1>1. /\ Ahead(R, S, x) \in SUBSET Ahead(R, S, y)
      /\ x \in Ahead(R, S, y) /\ x \notin Ahead(R, S, x)
  BY DEF Ahead, StrictOrder
<1>2. IsFiniteSet(Ahead(R, S, y)) /\ Cardinality(Ahead(R, S, y)) \in Nat
  BY AheadCounts, FS_CardinalityType
<1> QED
  BY <1>1, <1>2, AheadCounts, FS_Subset, FS_CardinalityType

\* Such a sequence has every element, and each once.
LEMMA OrderCovers ==
  ASSUME NEW S, IsFiniteSet(S), NEW R, StrictOrder(R, S), NEW s \in InOrder(R, S)
  PROVE  /\ s \in Injection(1..Cardinality(S), S)
         /\ \A x \in S : \E i \in 1..Cardinality(S) : s[i] = x
<1> DEFINE n == Cardinality(S)
<1>1. n \in Nat /\ s \in [1..n -> S] /\ \A j, k \in 1..n : j < k => <<s[j], s[k]>> \in R
  BY FS_CardinalityType DEF InOrder
<1>2. s \in Injection(1..n, S)
  <2>1. ASSUME NEW j \in 1..n, NEW k \in 1..n, s[j] = s[k] PROVE j = k
    <3>1. ~(j < k) /\ ~(k < j)
      BY <1>1, <2>1 DEF StrictOrder
    <3> QED
      BY <1>1, <3>1
  <2> QED
    BY <1>1, <2>1, Fun_IsInj
<1>3. s \in Surjection(1..n, S)
  <2>1. Cardinality(1..n) = n
    BY <1>1, FS_Interval
  <2> QED
    BY <1>2, <2>1, FS_Injection
<1> QED
  BY <1>2, <1>3 DEF Surjection

\* The element at place i has i - 1 before it.
LEMMA PlaceInOrder ==
  ASSUME NEW S, IsFiniteSet(S), NEW R, StrictOrder(R, S),
         NEW s \in InOrder(R, S), NEW i \in 1..Cardinality(S)
  PROVE  Cardinality(Ahead(R, S, s[i])) = i - 1
<1> DEFINE n == Cardinality(S)
<1>1. n \in Nat /\ s \in [1..n -> S] /\ \A j, k \in 1..n : j < k => <<s[j], s[k]>> \in R
  BY FS_CardinalityType DEF InOrder
<1>2. s \in Injection(1..n, S) /\ \A x \in S : \E j \in 1..n : s[j] = x
  BY OrderCovers
<1>0. \A j \in 1..(i - 1) : j \in 1..n /\ j < i
  BY <1>1
<1> DEFINE f == [j \in 1..(i - 1) |-> s[j]]
<1>4. f \in Bijection(1..(i - 1), Ahead(R, S, s[i]))
  <2>1. \A j \in 1..(i - 1) : f[j] = s[j]
    OBVIOUS
  <2>2. f \in [1..(i - 1) -> Ahead(R, S, s[i])]
    BY <1>0, <1>1, <2>1 DEF Ahead
  <2>3. \A j, k \in 1..(i - 1) : f[j] = f[k] => j = k
    <3>1. \A j, k \in 1..n : s[j] = s[k] => j = k
      BY <1>2, Fun_InjectionProperties
    <3> QED
      BY <1>0, <2>1, <3>1
  <2>4. ASSUME NEW y \in Ahead(R, S, s[i])
        PROVE  \E j \in 1..(i - 1) : f[j] = y
    <3>1. y \in S /\ <<y, s[i]>> \in R
      BY DEF Ahead
    <3>2. PICK j \in 1..n : s[j] = y
      BY <1>2, <3>1
    <3>3. ~(i < j) /\ j # i
      BY <1>1, <3>1, <3>2 DEF StrictOrder
    <3>4. j \in 1..(i - 1)
      BY <1>1, <3>3
    <3> QED
      BY <2>1, <3>2, <3>4
  <2> QED
    BY <2>2, <2>3, <2>4, Fun_IsBij
<1>5. IsFiniteSet(1..(i - 1)) /\ Cardinality(1..(i - 1)) = i - 1
  <2>1. 1 \in Int /\ i - 1 \in Int /\ i - 1 >= 0
    BY <1>1
  <2> QED
    BY <2>1, FS_Interval
<1>6. ExistsBijection(1..(i - 1), Ahead(R, S, s[i]))
  BY <1>4 DEF ExistsBijection
<1> QED
  BY <1>5, <1>6, FS_Bijection

LEMMA SameOrder ==
  ASSUME NEW S, IsFiniteSet(S), NEW R, StrictOrder(R, S),
         NEW s \in InOrder(R, S), NEW q \in InOrder(R, S)
  PROVE  q = s
<1> DEFINE n == Cardinality(S)
<1>1. q \in [1..n -> S] /\ s \in [1..n -> S] /\ n \in Nat
  BY FS_CardinalityType DEF InOrder
<1>2. ASSUME NEW i \in 1..n PROVE q[i] = s[i]
  <2>1. Cardinality(Ahead(R, S, q[i])) = i - 1 /\ Cardinality(Ahead(R, S, s[i])) = i - 1
    BY PlaceInOrder
  <2>2. q[i] \in S /\ s[i] \in S
    BY <1>1
  <2>3. ~(<<q[i], s[i]>> \in R) /\ ~(<<s[i], q[i]>> \in R)
    BY <1>1, <2>1, <2>2, AheadGrows
  <2> QED
    BY <2>2, <2>3 DEF StrictOrder
<1> HIDE DEF n
<1> QED
  BY <1>1, <1>2, SameFunction

\* There is exactly one such sequence.
LEMMA OneOrder ==
  ASSUME NEW S, IsFiniteSet(S), NEW R, StrictOrder(R, S)
  PROVE  \E s \in InOrder(R, S) : InOrder(R, S) = {s}
<1> DEFINE n == Cardinality(S)
           place == [x \in S |-> Cardinality(Ahead(R, S, x)) + 1]
<1>1. n \in Nat
  BY FS_CardinalityType
<1>2. place \in Injection(S, 1..n)
  <2>1. place \in [S -> 1..n]
    BY <1>1, AheadCounts
  <2>2. \A x, y \in S : place[x] = place[y] => x = y
    <3> SUFFICES ASSUME NEW x \in S, NEW y \in S, x # y, <<x, y>> \in R
                 PROVE  place[x] # place[y]
      BY DEF StrictOrder
    <3>1. Cardinality(Ahead(R, S, x)) < Cardinality(Ahead(R, S, y))
      BY AheadGrows
    <3> QED
      BY <3>1, AheadCounts
  <2> QED
    BY <2>1, <2>2, Fun_IsInj
<1>3. place \in Surjection(S, 1..n)
  <2>1. IsFiniteSet(1..n) /\ Cardinality(1..n) = n
    BY <1>1, FS_Interval
  <2> QED
    BY <1>2, <2>1, FS_Injection
<1> DEFINE s == [i \in 1..n |-> CHOOSE x \in S : place[x] = i]
<1>4. s \in [1..n -> S] /\ \A i \in 1..n : place[s[i]] = i
  <2> HIDE DEF place
  <2>1. \A i \in 1..n : \E x \in S : place[x] = i
    BY <1>3, Fun_SurjectionProperties
  <2> QED
    BY <2>1
<1>5. ASSUME NEW i \in 1..n, NEW j \in 1..n, i < j PROVE <<s[i], s[j]>> \in R
  <2>1. s[i] \in S /\ s[j] \in S /\ place[s[i]] = i /\ place[s[j]] = j
    BY <1>4
  <2>2. s[i] # s[j]
    BY <1>1, <1>5, <2>1
  <2>3. CASE <<s[j], s[i]>> \in R
    <3> HIDE DEF s
    <3>1. Cardinality(Ahead(R, S, s[j])) < Cardinality(Ahead(R, S, s[i]))
      BY <2>1, <2>3, AheadGrows
    <3>2. Cardinality(Ahead(R, S, s[j])) + 1 = j /\ Cardinality(Ahead(R, S, s[i])) + 1 = i
      BY <2>1
    <3>3. Cardinality(Ahead(R, S, s[j])) \in Nat /\ Cardinality(Ahead(R, S, s[i])) \in Nat
      BY <1>1, <2>1, AheadCounts
    <3> QED
      BY <1>1, <1>5, <3>1, <3>2, <3>3
  <2> QED
    BY <2>1, <2>2, <2>3 DEF StrictOrder
<1>6. s \in InOrder(R, S)
  BY <1>4, <1>5 DEF InOrder
<1>7. InOrder(R, S) = {s}
  <2> HIDE DEF s
  <2> QED
    BY <1>6, SameOrder
<1> QED
  BY <1>6, <1>7

-----------------------------------------------------------------------------
(* Sequences of a whole set.                                               *)

\* A finite set can be listed with a given part of it first.
LEMMA PartFirst ==
  ASSUME NEW R, IsFiniteSet(R), NEW P \in SUBSET R
  PROVE  \E s \in [1..Cardinality(R) -> R] :
           /\ \A x \in R : \E i \in 1..Cardinality(R) : s[i] = x
           /\ \A i, j \in 1..Cardinality(R) : s[i] \in P /\ s[j] \notin P => i < j
<1> DEFINE n == Cardinality(R)
           Q == R \ P
           c == Cardinality(P)
           d == Cardinality(Q)
<1>1. IsFiniteSet(P) /\ IsFiniteSet(Q) /\ n \in Nat /\ c \in Nat /\ d \in Nat
  BY FS_Subset, FS_CardinalityType
<1>2. n = c + d
  <2>1. P \cup Q = R /\ P \cap Q = {}
    OBVIOUS
  <2>2. Cardinality(P \cup Q) = c + d - Cardinality(P \cap Q)
    BY <1>1, FS_Union
  <2>3. Cardinality(P \cap Q) = 0
    BY <2>1, FS_EmptySet
  <2>4. n = Cardinality(P \cup Q)
    BY <2>1
  <2> HIDE DEF n, c, d, Q
  <2> QED
    BY <1>1, <2>2, <2>3, <2>4
<1>3. PICK e \in Bijection(1..c, P) : TRUE
  BY <1>1, FS_CardinalityType DEF ExistsBijection
<1>4. PICK f \in Bijection(1..d, Q) : TRUE
  BY <1>1, FS_CardinalityType DEF ExistsBijection
<1>5. /\ e \in [1..c -> P] /\ \A x \in P : \E i \in 1..c : e[i] = x
      /\ f \in [1..d -> Q] /\ \A x \in Q : \E i \in 1..d : f[i] = x
  <2> HIDE DEF n, c, d, Q
  <2>1. e \in [1..c -> P] /\ \A x \in P : \E i \in 1..c : e[i] = x
    BY <1>3 DEF Bijection, Injection, Surjection, IsInjective
  <2>2. f \in [1..d -> Q] /\ \A x \in Q : \E i \in 1..d : f[i] = x
    BY <1>4 DEF Bijection, Injection, Surjection, IsInjective
  <2> QED
    BY <2>1, <2>2
<1> HIDE DEF n, c, d
<1> DEFINE s == [i \in 1..n |-> IF i <= c THEN e[i] ELSE f[i - c]]
<1>6. ASSUME NEW i \in 1..n
      PROVE  IF i <= c THEN i \in 1..c /\ s[i] = e[i] /\ s[i] \in P
                       ELSE i - c \in 1..d /\ s[i] = f[i - c] /\ s[i] \in Q
  <2>1. CASE i <= c
    <3>1. i \in 1..c
      BY <1>1, <2>1
    <3> QED
      BY <1>5, <2>1, <3>1
  <2>2. CASE ~(i <= c)
    <3>1. i - c \in 1..d
      BY <1>1, <1>2, <2>2
    <3> QED
      BY <1>5, <2>2, <3>1
  <2> QED
    BY <2>1, <2>2
<1>7. s \in [1..n -> R]
  BY <1>6
<1>8. ASSUME NEW x \in R PROVE \E i \in 1..n : s[i] = x
  <2>1. CASE x \in P
    <3>1. PICK i \in 1..c : e[i] = x
      BY <1>5, <2>1
    <3>2. i \in 1..n /\ i <= c
      BY <1>1, <1>2
    <3>3. s[i] = e[i]
      BY <1>6, <3>2
    <3> QED
      BY <3>1, <3>2, <3>3
  <2>2. CASE x \in Q
    <3>1. PICK i \in 1..d : f[i] = x
      BY <1>5, <2>2
    <3>2. PICK j \in Int : j = i + c
      BY <1>1
    <3>3. j \in 1..n /\ ~(j <= c) /\ j - c = i
      BY <1>1, <1>2, <3>2
    <3>4. s[j] = f[j - c]
      BY <1>6, <3>3
    <3> QED
      BY <3>1, <3>3, <3>4
  <2> QED
    BY <2>1, <2>2
<1>9. ASSUME NEW i \in 1..n, NEW j \in 1..n, s[i] \in P, s[j] \notin P PROVE i < j
  <2>1. i <= c /\ ~(j <= c)
    BY <1>6, <1>9
  <2> QED
    BY <1>1, <2>1
<1> HIDE DEF s
<1> QED
  BY <1>7, <1>8, <1>9 DEF n
=============================================================================
