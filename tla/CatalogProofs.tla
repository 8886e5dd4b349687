--------------------------- MODULE CatalogProofs ---------------------------
(***************************************************************************)
(* The safety of the package catalog, for every number of indexes,         *)
(* packages, architectures, clients and moments.                           *)
(***************************************************************************)
EXTENDS Catalog, Orders

(***************************************************************************)
(* What the handlers and the worker make of one another's state.           *)
(***************************************************************************)

\* Whatever selectRecords chooses from the rows of a package is an artifact of
\* that package and fits the architecture it was called with.
LEMMA SelectionFits ==
  ASSUME NEW p, NEW arch, NEW S, Selection(S, Rows(p), arch), NEW a \in S
  PROVE  a \in Artifacts /\ About[a].package = p /\ Compatible(a, arch)
  BY DEF Selection, Rows

\* The architecture of an artifact is one of Archs.
LEMMA ArchOfArtifact ==
  ASSUME NEW a \in Artifacts
  PROVE  About[a].arch \in Archs /\ About[a].package \in Packages
  BY CatalogAssumption DEF Archs

-----------------------------------------------------------------------------
(* selectRecords: what its loop computes, whatever the order of the rows.  *)

\* The map at the start of the loop and after each turn over the first N rows.
Turns(map, rows, N, arch) ==
  /\ map \in [0..N -> [Versions -> SUBSET Artifacts]]
  /\ map[0] = [v \in Versions |-> {}]
  /\ \A n \in 1..N : map[n] = Merge(map[n - 1], rows[n], arch)

\* The rows met in n turns that byVersion may keep for version v.
Met(rows, n, v, arch) ==
  {a \in Artifacts : /\ Compatible(a, arch) /\ About[a].version = v
                     /\ \E i \in 1..n : rows[i] = a}

\* A turn with row a adds it, if it fits.
Grown(met, a, v, arch) ==
  IF Compatible(a, arch) /\ About[a].version = v THEN met \cup {a} ELSE met

\* ... and replaces the entry of its version, if that may be replaced.
EntryAfter(entry, a, v, arch) ==
  IF /\ Compatible(a, arch) /\ About[a].version = v
     /\ \A prior \in entry : ReplacesPrior(a, prior, arch)
  THEN {a} ELSE entry

\* The entry is one of them, if there are any, and one of the very
\* architecture if there is such a one.
Kept(entry, met, arch) ==
  /\ entry \subseteq met /\ (entry = {} => met = {})
  /\ \A a, b \in entry : a = b
  /\ (\E b \in met : About[b].arch = arch)
       => \A a \in entry : About[a].arch = arch \/ About[a].arch # AnyArch

\* A turn of the loop changes the entry of the row's version only.
LEMMA MergeAt ==
  ASSUME NEW map \in [Versions -> SUBSET Artifacts], NEW a \in Artifacts, NEW arch
  PROVE  /\ Merge(map, a, arch) \in [Versions -> SUBSET Artifacts]
         /\ \A v \in Versions : Merge(map, a, arch)[v] = EntryAfter(map[v], a, v, arch)
<1>1. About[a].version \in Versions
  BY DEF Versions
<1> QED
  BY <1>1 DEF Merge, EntryAfter

\* The map after each turn of the loop.
LEMMA RowLoop ==
  ASSUME NEW R \in SUBSET Artifacts, NEW rows \in Enumerations(R), NEW arch
  PROVE  /\ Cardinality(R) \in Nat
         /\ \E g : /\ Turns(g, rows, Cardinality(R), arch)
                  /\ ByVersion(rows, arch) = g[Cardinality(R)]
<1> DEFINE N == Cardinality(R)
           S == [Versions -> SUBSET Artifacts]
           start == [v \in Versions |-> {}]
           turn == [n \in 1..N |-> [map \in S |-> Merge(map, rows[n], arch)]]
           Run(g) == g = [n \in 0..N |-> IF n = 0 THEN start
                                         ELSE Merge(g[n - 1], rows[n], arch)]
<1>1. N \in Nat
  BY ArtifactsAssumption, FS_Subset, FS_CardinalityType
<1>2. rows \in [1..N -> R] /\ Len(rows) = N
  <2>1. rows \in [1..N -> R]
    BY DEF Enumerations
  <2> HIDE DEF N
  <2> QED
    BY <1>1, <2>1
<1> HIDE DEF N
<1>3. \A n \in 1..N : rows[n] \in Artifacts
  BY <1>2
<1>4. start \in S
  OBVIOUS
<1>5. turn \in [1..N -> [S -> S]]
  <2> SUFFICES ASSUME NEW n \in 1..N, NEW map \in S PROVE Merge(map, rows[n], arch) \in S
    OBVIOUS
  <2> QED
    BY <1>3, MergeAt
<1>6. PICK g \in [0..N -> S] :
         g[0] = start /\ \A n \in 1..N : g[n] = turn[n][g[n - 1]]
  <2> HIDE DEF S, start, turn
  <2>1. \E g : Looped(g, N, S, start, turn)
    BY <1>1, <1>4, <1>5, Loop
  <2> QED
    BY <2>1 DEF Looped
<1>7. Run(g)
  <2>1. ASSUME NEW n \in 0..N
        PROVE  g[n] = IF n = 0 THEN start ELSE Merge(g[n - 1], rows[n], arch)
    <3>1. CASE n = 0
      BY <1>6, <3>1
    <3>2. CASE n # 0
      <4>1. n \in 1..N /\ n - 1 \in 0..N
        BY <1>1, <3>2
      <4>2. g[n - 1] \in S /\ g[n] = turn[n][g[n - 1]]
        <5> HIDE DEF S, start, turn
        <5> QED
          BY <1>6, <3>2, <4>1
      <4> QED
        BY <3>2, <4>1, <4>2
    <3> QED
      BY <3>1, <3>2
  <2>2. g = [n \in 0..N |-> g[n]]
    BY <1>6
  <2> HIDE DEF start, S
  <2> QED
    BY <2>1, <2>2
<1>8. PICK h : Run(h) /\ ByVersion(rows, arch) = h[N]
  <2> DEFINE h == CHOOSE map : Run(map)
  <2>1. Run(h)
    <3> HIDE DEF Run
    <3> QED
      BY <1>7
  <2>2. ByVersion(rows, arch) = h[N]
    BY <1>2 DEF ByVersion
  <2> HIDE DEF h, Run
  <2> QED
    BY <2>1, <2>2
<1>9. /\ h[0] = start
      /\ \A n \in 1..N : n - 1 \in 0..N /\ h[n] = Merge(h[n - 1], rows[n], arch)
  <2> HIDE DEF start
  <2> QED
    BY <1>1, <1>8
<1>10. \A n \in 0..N : h[n] \in S
  <2> DEFINE T == {n \in 0..N : h[n] \in S}
  <2>1. 0 \in T
    BY <1>1, <1>4, <1>9
  <2>2. ASSUME NEW n \in 1..N, n - 1 \in T PROVE n \in T
    <3>1. h[n - 1] \in S /\ rows[n] \in Artifacts /\ h[n] = Merge(h[n - 1], rows[n], arch)
      BY <1>3, <1>9, <2>2
    <3>2. h[n] \in S
      <4> DEFINE map == h[n - 1]
      <4>1. map \in [Versions -> SUBSET Artifacts]
        BY <3>1
      <4>2. Merge(map, rows[n], arch) \in [Versions -> SUBSET Artifacts]
        <5> HIDE DEF map
        <5> QED
          BY <3>1, <4>1, MergeAt
      <4> QED
        BY <3>1, <4>2
    <3>3. n \in 0..N
      BY <1>1
    <3> QED
      BY <3>2, <3>3
  <2>3. \A n \in 0..N : n \in T
    <3> HIDE DEF T
    <3> QED
      BY <1>1, <2>1, <2>2, UpTo
  <2> QED
    BY <2>3
<1>11. h \in [0..N -> S]
  <2>1. h = [n \in 0..N |-> h[n]]
    <3> HIDE DEF start
    <3> QED
      BY <1>8
  <2> HIDE DEF S
  <2> QED
    BY <1>10, <2>1
<1> HIDE DEF Run
<1> QED
  BY <1>1, <1>8, <1>9, <1>11 DEF N, Turns

\* What has been met grows by the row of the turn, if it fits.
LEMMA MetGrows ==
  ASSUME NEW n \in Nat \ {0}, NEW rows, rows[n] \in Artifacts, NEW v, NEW arch
  PROVE  Met(rows, n, v, arch) = Grown(Met(rows, n - 1, v, arch), rows[n], v, arch)
<1>1. \A a \in Artifacts : (\E i \in 1..n : rows[i] = a)
                             <=> (a = rows[n] \/ \E i \in 1..(n - 1) : rows[i] = a)
  <2>1. \A i \in 1..n : i = n \/ i \in 1..(n - 1)
    OBVIOUS
  <2>2. \A i \in 1..(n - 1) : i \in 1..n
    OBVIOUS
  <2>3. n \in 1..n
    OBVIOUS
  <2> QED
    BY <2>1, <2>2, <2>3
<1>2. \A a \in Artifacts :
        a \in Met(rows, n, v, arch) <=>
          \/ a \in Met(rows, n - 1, v, arch)
          \/ a = rows[n] /\ Compatible(a, arch) /\ About[a].version = v
  BY <1>1 DEF Met
<1>3. Met(rows, n, v, arch) \subseteq Artifacts /\ Met(rows, n - 1, v, arch) \subseteq Artifacts
  BY DEF Met
<1> QED
  BY <1>2, <1>3 DEF Grown

\* A turn keeps what Kept says of the entry of a version.
LEMMA MergeKept ==
  ASSUME NEW map \in [Versions -> SUBSET Artifacts], NEW a \in Artifacts, NEW arch,
         NEW v \in Versions, NEW met, Kept(map[v], met, arch)
  PROVE  Kept(Merge(map, a, arch)[v], Grown(met, a, v, arch), arch)
<1> DEFINE fits == Compatible(a, arch) /\ About[a].version = v
           replaces == \A prior \in map[v] : ReplacesPrior(a, prior, arch)
<1>1. Merge(map, a, arch)[v] = IF fits /\ replaces THEN {a} ELSE map[v]
  BY MergeAt DEF EntryAfter
<1>2. CASE ~fits
  BY <1>1, <1>2 DEF Grown
<1>3. CASE fits /\ replaces
  <2>1. CASE map[v] = {}
    BY <1>1, <1>3, <2>1 DEF Kept, Grown
  <2>2. CASE map[v] # {}
    <3>1. About[a].arch = arch
      BY <1>3, <2>2 DEF ReplacesPrior
    <3> QED
      BY <1>1, <1>3, <3>1 DEF Kept, Grown
  <2> QED
    BY <2>1, <2>2
<1>4. CASE fits /\ ~replaces
  <2>1. PICK p \in map[v] : ~ReplacesPrior(a, p, arch)
    BY <1>4
  <2>2. \A b \in map[v] : b = p
    BY <2>1 DEF Kept
  <2> QED
    BY <1>1, <1>4, <2>1, <2>2 DEF Kept, Grown, ReplacesPrior
<1> QED
  BY <1>2, <1>3, <1>4

\* So it holds after each turn.
LEMMA LoopKept ==
  ASSUME NEW N \in Nat, NEW rows \in [1..N -> Artifacts], NEW arch,
         NEW g, Turns(g, rows, N, arch), NEW v \in Versions
  PROVE  \A n \in 0..N : Kept(g[n][v], Met(rows, n, v, arch), arch)
<1> DEFINE T == {n \in 0..N : Kept(g[n][v], Met(rows, n, v, arch), arch)}
<1>1. 0 \in T
  <2>1. g[0][v] = {} /\ Met(rows, 0, v, arch) = {}
    BY DEF Met, Turns
  <2> QED
    BY <2>1 DEF Kept
<1>2. ASSUME NEW n \in 1..N, n - 1 \in T PROVE n \in T
  <2>1. n - 1 \in 0..N /\ n \in 0..N /\ n \in Nat \ {0} /\ rows[n] \in Artifacts
    OBVIOUS
  <2>2. g[n - 1] \in [Versions -> SUBSET Artifacts] /\ g[n] = Merge(g[n - 1], rows[n], arch)
    BY <2>1 DEF Turns
  <2>3. Kept(g[n - 1][v], Met(rows, n - 1, v, arch), arch)
    BY <1>2
  <2>4. Kept(Merge(g[n - 1], rows[n], arch)[v],
             Grown(Met(rows, n - 1, v, arch), rows[n], v, arch), arch)
    BY <2>1, <2>2, <2>3, MergeKept
  <2>5. Met(rows, n, v, arch) = Grown(Met(rows, n - 1, v, arch), rows[n], v, arch)
    BY ONLY <2>1, MetGrows
  <2>6. Kept(g[n][v], Met(rows, n, v, arch), arch)
    BY <2>2, <2>4, <2>5
  <2> QED
    BY <2>1, <2>6
<1>3. \A n \in 1..N : n - 1 \in T => n \in T
  BY <1>2
<1>4. \A n \in 0..N : n \in T
  <2> HIDE DEF T
  <2> QED
    BY ONLY N \in Nat, <1>1, <1>3, UpTo
<1> QED
  BY <1>4

\* The rows that byVersion may keep for version v.
Best(R, v, arch) ==
  LET fit == {a \in R : Compatible(a, arch)} IN {a \in fit : About[a].version = v}

\* The versions it yields.
NewestOf(R, arch) == Newest({About[a].version : a \in {b \in R : Compatible(b, arch)}})

\* byVersion keeps one of the best for each version there is.
LEMMA ByVersionKeeps ==
  ASSUME NEW R \in SUBSET Artifacts, NEW rows \in Enumerations(R), NEW arch
  PROVE  /\ ByVersion(rows, arch) \in [Versions -> SUBSET Artifacts]
         /\ \A v \in Versions : Kept(ByVersion(rows, arch)[v], Best(R, v, arch), arch)
<1> DEFINE N == Cardinality(R)
<1>1. PICK g : Turns(g, rows, N, arch) /\ ByVersion(rows, arch) = g[N]
  BY RowLoop
<1>2. N \in Nat
  BY RowLoop
<1>3. rows \in [1..N -> R] /\ \A a \in R : \E i \in 1..N : rows[i] = a
  BY DEF Enumerations
<1> HIDE DEF N
<1>4. rows \in [1..N -> Artifacts]
  BY <1>3
<1>5. ASSUME NEW v \in Versions PROVE Met(rows, N, v, arch) = Best(R, v, arch)
  BY <1>3 DEF Met, Best
<1>6. ASSUME NEW v \in Versions PROVE Kept(g[N][v], Best(R, v, arch), arch)
  <2>1. \A n \in 0..N : Kept(g[n][v], Met(rows, n, v, arch), arch)
    BY ONLY <1>1, <1>2, <1>4, v \in Versions, LoopKept
  <2> QED
    BY <1>2, <1>5, <2>1
<1>7. g[N] \in [Versions -> SUBSET Artifacts]
  BY <1>1, <1>2 DEF Turns
<1> QED
  BY <1>1, <1>6, <1>7

\* What it makes of such a map depends on the entries of the newest versions.
LEMMA NewestEntries ==
  ASSUME NEW R \in SUBSET Artifacts, NEW rows \in Enumerations(R), NEW arch
  PROVE  \A a : a \in SelectRecords(rows, arch) <=>
               \E v \in NewestOf(R, arch) : a \in ByVersion(rows, arch)[v]
<1> DEFINE map == ByVersion(rows, arch)
           fit == {b \in R : Compatible(b, arch)}
<1>1. \A v \in Versions : map[v] # {} <=> v \in {About[a].version : a \in fit}
  <2>1. \A v \in Versions : map[v] \subseteq Best(R, v, arch) /\ (map[v] = {} => Best(R, v, arch) = {})
    BY ByVersionKeeps DEF Kept
  <2> HIDE DEF map
  <2> QED
    BY <2>1 DEF Best
<1>2. {About[a].version : a \in fit} \subseteq Versions
  BY DEF Versions
<1>3. {w \in Versions : map[w] # {}} = {About[a].version : a \in fit}
  <2> HIDE DEF map
  <2> QED
    BY <1>1, <1>2
<1> QED
  BY <1>3 DEF SelectRecords, NewestOf

\* Whatever the order of the rows, selectRecords yields a selection.
LEMMA SelectsSelection ==
  ASSUME NEW R \in SUBSET Artifacts, NEW rows \in Enumerations(R), NEW arch
  PROVE  Selection(SelectRecords(rows, arch), R, arch)
<1> DEFINE map == ByVersion(rows, arch)
           fit == {a \in R : Compatible(a, arch)}
           newest == NewestOf(R, arch)
           S == SelectRecords(rows, arch)
<1>1. \A a : a \in S <=> \E v \in newest : a \in map[v]
  BY NewestEntries
<1>2. newest \subseteq Versions /\ newest \subseteq {About[a].version : a \in fit}
  BY DEF NewestOf, Newest, Versions
<1>3. \A v \in Versions : Kept(map[v], Best(R, v, arch), arch)
  BY ByVersionKeeps
<1> HIDE DEF map, S, newest
<1>4. ASSUME NEW a \in S
      PROVE  a \in fit /\ About[a].version \in newest /\ a \in map[About[a].version]
  <2>1. PICK v \in newest : a \in map[v]
    BY <1>1
  <2>2. a \in Best(R, v, arch)
    BY <1>2, <1>3, <2>1 DEF Kept
  <2> QED
    BY <2>1, <2>2 DEF Best
<1>5. ASSUME NEW v \in newest
      PROVE  \E a \in S \cap Best(R, v, arch) :
               /\ S \cap Best(R, v, arch) = {a}
               /\ (\E b \in Best(R, v, arch) : About[b].arch = arch)
                    => About[a].arch = arch \/ About[a].arch # AnyArch
  <2>1. Kept(map[v], Best(R, v, arch), arch)
    BY <1>2, <1>3
  <2>2. Best(R, v, arch) # {}
    BY <1>2 DEF Best
  <2>3. PICK a \in map[v] : TRUE
    BY <2>1, <2>2 DEF Kept
  <2>4. a \in S /\ a \in Best(R, v, arch)
    BY <1>1, <2>1, <2>3 DEF Kept
  <2>5. \A b \in S \cap Best(R, v, arch) : b = a
    <3>1. \A b \in S \cap Best(R, v, arch) : b \in map[v]
      BY <1>4 DEF Best
    <3> QED
      BY <2>1, <2>3, <3>1 DEF Kept
  <2> QED
    BY <2>1, <2>4, <2>5 DEF Kept
<1> QED
  BY <1>4, <1>5 DEF Selection, newest, S, NewestOf, Best

\* Whatever row of version v could take the place of p comes after it, and may not.
FirstMet(p, rows, N, v, arch) ==
  \A n \in 1..N : Compatible(rows[n], arch) /\ About[rows[n]].version = v /\ rows[n] # p
                    => /\ p \in Met(rows, n - 1, v, arch)
                       /\ ~ReplacesPrior(rows[n], p, arch)

\* No row of version v for any architecture comes after p.
LastMet(p, rows, N, v) ==
  \A n \in 1..N : Compatible(rows[n], AnyArch) /\ About[rows[n]].version = v /\ rows[n] # p
                    => p \notin Met(rows, n, v, AnyArch)

\* If one row of a version is met before the others that fit, it stays, unless
\* it is for any architecture and there is one for the very architecture.
LEMMA FirstStays ==
  ASSUME NEW N \in Nat, NEW rows \in [1..N -> Artifacts], NEW arch,
         NEW map, Turns(map, rows, N, arch), NEW v \in Versions, NEW p,
         FirstMet(p, rows, N, v, arch)
  PROVE  map[N][v] \subseteq {p}
<1> DEFINE T == {n \in 0..N : map[n][v] \subseteq {p}}
<1>1. 0 \in T
  BY DEF Turns
<1>2. ASSUME NEW n \in 1..N, n - 1 \in T PROVE n \in T
  <2>1. n - 1 \in 0..N /\ n \in 0..N /\ rows[n] \in Artifacts
    OBVIOUS
  <2>2. map[n - 1] \in [Versions -> SUBSET Artifacts] /\ map[n] = Merge(map[n - 1], rows[n], arch)
    BY <2>1 DEF Turns
  <2>3. map[n - 1][v] \subseteq {p}
    BY <1>2
  <2>4. map[n][v] = EntryAfter(map[n - 1][v], rows[n], v, arch)
    BY ONLY <2>1, <2>2, v \in Versions, MergeAt
  <2>5. Kept(map[n - 1][v], Met(rows, n - 1, v, arch), arch)
    <3>1. \A m \in 0..N : Kept(map[m][v], Met(rows, m, v, arch), arch)
      BY LoopKept
    <3> QED
      BY <2>1, <3>1
  <2>6. CASE Compatible(rows[n], arch) /\ About[rows[n]].version = v /\ rows[n] # p
    <3>1. p \in Met(rows, n - 1, v, arch) /\ ~ReplacesPrior(rows[n], p, arch)
      BY <2>6 DEF FirstMet
    <3>2. p \in map[n - 1][v]
      BY <2>3, <2>5, <3>1 DEF Kept
    <3>3. map[n][v] \subseteq {p}
      BY ONLY <2>3, <2>4, <3>1, <3>2 DEF EntryAfter
    <3> QED
      BY <2>1, <3>3
  <2>7. CASE ~(Compatible(rows[n], arch) /\ About[rows[n]].version = v /\ rows[n] # p)
    <3>1. map[n][v] \subseteq {p}
      BY ONLY <2>3, <2>4, <2>7 DEF EntryAfter
    <3> QED
      BY <2>1, <3>1
  <2> QED
    BY <2>6, <2>7
<1>3. \A n \in 1..N : n - 1 \in T => n \in T
  BY <1>2
<1>4. \A n \in 0..N : n \in T
  <2> HIDE DEF T
  <2> QED
    BY ONLY N \in Nat, <1>1, <1>3, UpTo
<1> QED
  BY <1>4

\* Among rows for any architecture the last one wins, if that is asked for.
LEMMA LastStays ==
  ASSUME NEW N \in Nat, NEW rows \in [1..N -> Artifacts],
         NEW map, Turns(map, rows, N, AnyArch), NEW v \in Versions, NEW p,
         Compatible(p, AnyArch), About[p].version = v, LastMet(p, rows, N, v)
  PROVE  p \in Met(rows, N, v, AnyArch) => map[N][v] = {p}
<1> DEFINE T == {n \in 0..N : p \in Met(rows, n, v, AnyArch) => map[n][v] = {p}}
<1>1. 0 \in T
  BY DEF Met
<1>2. ASSUME NEW n \in 1..N, n - 1 \in T PROVE n \in T
  <2>1. n - 1 \in 0..N /\ n \in 0..N /\ n \in Nat \ {0} /\ rows[n] \in Artifacts
    OBVIOUS
  <2>2. map[n - 1] \in [Versions -> SUBSET Artifacts]
        /\ map[n] = Merge(map[n - 1], rows[n], AnyArch)
    BY <2>1 DEF Turns
  <2>3. p \in Met(rows, n - 1, v, AnyArch) => map[n - 1][v] = {p}
    BY <1>2
  <2>4. map[n][v] = EntryAfter(map[n - 1][v], rows[n], v, AnyArch)
    BY ONLY <2>1, <2>2, v \in Versions, MergeAt
  <2>5. \A prior \in map[n - 1][v] : About[prior].arch = AnyArch
    <3>1. \A m \in 0..N : Kept(map[m][v], Met(rows, m, v, AnyArch), AnyArch)
      BY LoopKept
    <3>2. Kept(map[n - 1][v], Met(rows, n - 1, v, AnyArch), AnyArch)
      BY <2>1, <3>1
    <3> QED
      BY ONLY <3>2, ArtifactsAssumption DEF Kept, Met, Compatible
  <2>6. Met(rows, n, v, AnyArch) = Grown(Met(rows, n - 1, v, AnyArch), rows[n], v, AnyArch)
    BY ONLY <2>1, MetGrows
  <2>7. CASE Compatible(rows[n], AnyArch) /\ About[rows[n]].version = v
    <3>1. map[n][v] = {rows[n]}
      BY ONLY <2>4, <2>5, <2>7, ArtifactsAssumption DEF EntryAfter, ReplacesPrior, Compatible
    <3>2. rows[n] # p => p \notin Met(rows, n, v, AnyArch)
      BY <2>7 DEF LastMet
    <3> QED
      BY <2>1, <3>1, <3>2
  <2>8. CASE ~(Compatible(rows[n], AnyArch) /\ About[rows[n]].version = v)
    <3>1. map[n][v] = map[n - 1][v] /\ Met(rows, n, v, AnyArch) = Met(rows, n - 1, v, AnyArch)
      BY ONLY <2>4, <2>6, <2>8 DEF EntryAfter, Grown
    <3> QED
      BY <2>1, <2>3, <3>1
  <2> QED
    BY <2>7, <2>8
<1>3. \A n \in 1..N : n - 1 \in T => n \in T
  BY <1>2
<1>4. \A n \in 0..N : n \in T
  <2> HIDE DEF T
  <2> QED
    BY ONLY N \in Nat, <1>1, <1>3, UpTo
<1> QED
  BY <1>4

\* The row that a selection has of version v.
Chosen(p, S, R, v, arch) ==
  /\ S \cap Best(R, v, arch) = {p}
  /\ (\E b \in Best(R, v, arch) : About[b].arch = arch)
       => About[p].arch = arch \/ About[p].arch # AnyArch

\* A selection of the rows, by version.
LEMMA SelectionByVersion ==
  ASSUME NEW R \in SUBSET Artifacts, NEW arch, NEW S, Selection(S, R, arch)
  PROVE  /\ S \subseteq R /\ NewestOf(R, arch) \subseteq Versions
         /\ \A a \in S : About[a].version \in NewestOf(R, arch)
                           /\ a \in Best(R, About[a].version, arch)
         /\ \A v \in NewestOf(R, arch) : \E p : Chosen(p, S, R, v, arch)
<1>1. S \subseteq {a \in R : Compatible(a, arch)}
  BY DEF Selection
<1>2. \A a \in S : About[a].version \in NewestOf(R, arch)
  BY DEF Selection, NewestOf
<1>3. NewestOf(R, arch) \subseteq Versions
  BY DEF NewestOf, Newest, Versions
<1>4. \A v \in NewestOf(R, arch) : \E p : Chosen(p, S, R, v, arch)
  BY DEF Selection, NewestOf, Best, Chosen
<1>5. \A a \in S : a \in Best(R, About[a].version, arch)
  BY <1>1 DEF Best
<1> QED
  BY <1>1, <1>2, <1>3, <1>4, <1>5

\* An order of the rows in which the loop keeps those of S yields S.
LEMMA OrderReaches ==
  ASSUME NEW R \in SUBSET Artifacts, NEW arch, NEW S, Selection(S, R, arch),
         NEW rows \in Enumerations(R),
         \A v \in NewestOf(R, arch) : \A p \in S \cap Best(R, v, arch) :
           ByVersion(rows, arch)[v] = {p}
  PROVE  SelectRecords(rows, arch) = S
<1>1. ASSUME NEW a \in S PROVE a \in SelectRecords(rows, arch)
  <2> DEFINE v == About[a].version
  <2>1. v \in NewestOf(R, arch) /\ a \in S \cap Best(R, v, arch)
    BY SelectionByVersion
  <2>2. a \in ByVersion(rows, arch)[v]
    BY <2>1
  <2> QED
    BY <2>1, <2>2, NewestEntries
<1>2. ASSUME NEW a \in SelectRecords(rows, arch) PROVE a \in S
  <2>1. PICK v \in NewestOf(R, arch) : a \in ByVersion(rows, arch)[v]
    BY NewestEntries
  <2>2. PICK p : Chosen(p, S, R, v, arch)
    BY SelectionByVersion
  <2>3. p \in S \cap Best(R, v, arch)
    BY <2>2 DEF Chosen
  <2> QED
    BY <2>1, <2>3
<1> QED
  BY <1>1, <1>2

\* selectRecords can yield every selection: where the rows of the very
\* architecture come first if they are to be kept, and last if any is asked for.
LEMMA SelectionReached ==
  ASSUME NEW R \in SUBSET Artifacts, NEW arch, NEW S, Selection(S, R, arch)
  PROVE  \E rows \in Enumerations(R) : SelectRecords(rows, arch) = S
<1> DEFINE N == Cardinality(R)
<1>1. IsFiniteSet(R) /\ N \in Nat /\ S \in SUBSET R /\ R \ S \in SUBSET R
  BY ArtifactsAssumption, FS_Subset, FS_CardinalityType, SelectionByVersion
<1>2. CASE arch # AnyArch
  <2>1. PICK rows \in [1..N -> R] :
          /\ \A x \in R : \E i \in 1..N : rows[i] = x
          /\ \A i, j \in 1..N : rows[i] \in S /\ rows[j] \notin S => i < j
    BY <1>1, PartFirst
  <2>2. rows \in Enumerations(R)
    BY <2>1 DEF Enumerations
  <2>3. PICK map : Turns(map, rows, N, arch) /\ ByVersion(rows, arch) = map[N]
    BY <2>2, RowLoop
  <2> HIDE DEF N
  <2>4. rows \in [1..N -> Artifacts]
    BY <2>1
  <2>5. ASSUME NEW v \in NewestOf(R, arch), NEW p \in S \cap Best(R, v, arch)
        PROVE  ByVersion(rows, arch)[v] = {p}
    <3>1. /\ v \in Versions /\ S \cap Best(R, v, arch) = {p} /\ p \in R
          /\ (\E b \in Best(R, v, arch) : About[b].arch = arch)
               => About[p].arch = arch \/ About[p].arch # AnyArch
      <4>1. PICK q : Chosen(q, S, R, v, arch)
        BY SelectionByVersion
      <4>2. p = q
        BY <4>1 DEF Chosen
      <4>3. v \in Versions
        BY SelectionByVersion
      <4> QED
        BY <1>1, <4>1, <4>2, <4>3 DEF Chosen
    <3>2. ASSUME NEW n \in 1..N, Compatible(rows[n], arch), About[rows[n]].version = v,
                 rows[n] # p
          PROVE  p \in Met(rows, n - 1, v, arch) /\ ~ReplacesPrior(rows[n], p, arch)
      <4>1. rows[n] \in Best(R, v, arch)
        BY <2>1, <3>2 DEF Best
      <4>2. rows[n] \notin S
        BY <3>1, <3>2, <4>1
      <4>3. PICK k \in 1..N : rows[k] = p
        BY <2>1, <3>1
      <4>4. k < n
        BY <2>1, <4>2, <4>3
      <4>5. k \in 1..(n - 1)
        BY <1>1, <4>4
      <4>6. p \in Met(rows, n - 1, v, arch)
        BY <4>3, <4>5 DEF Met, Best
      <4>7. ~ReplacesPrior(rows[n], p, arch)
        BY <1>2, <3>1, <4>1 DEF ReplacesPrior
      <4> QED
        BY <4>6, <4>7
    <3>3. map[N][v] \subseteq {p}
      <4>1. FirstMet(p, rows, N, v, arch)
        BY <3>2 DEF FirstMet
      <4> QED
        BY ONLY <1>1, <2>3, <2>4, <3>1, <4>1, FirstStays
    <3>4. Kept(ByVersion(rows, arch)[v], Best(R, v, arch), arch)
      BY <2>2, <3>1, ByVersionKeeps
    <3> QED
      BY <2>3, <3>3, <3>4 DEF Kept
  <2>6. SelectRecords(rows, arch) = S
    BY <2>2, <2>5, OrderReaches
  <2> QED
    BY <2>2, <2>6
<1>3. CASE arch = AnyArch
  <2>1. PICK rows \in [1..N -> R] :
          /\ \A x \in R : \E i \in 1..N : rows[i] = x
          /\ \A i, j \in 1..N : rows[i] \in R \ S /\ rows[j] \notin R \ S => i < j
    BY <1>1, PartFirst
  <2>2. rows \in Enumerations(R)
    BY <2>1 DEF Enumerations
  <2>3. PICK map : Turns(map, rows, N, AnyArch) /\ ByVersion(rows, AnyArch) = map[N]
    BY <2>2, RowLoop
  <2> HIDE DEF N
  <2>4. rows \in [1..N -> Artifacts]
    BY <2>1
  <2>5. ASSUME NEW v \in NewestOf(R, arch), NEW p \in S \cap Best(R, v, arch)
        PROVE  ByVersion(rows, arch)[v] = {p}
    <3>1. /\ v \in Versions /\ S \cap Best(R, v, AnyArch) = {p} /\ p \in R
          /\ Compatible(p, AnyArch) /\ About[p].version = v
      <4>1. PICK q : Chosen(q, S, R, v, arch)
        BY SelectionByVersion
      <4>2. v \in Versions
        BY SelectionByVersion
      <4> QED
        BY <1>1, <1>3, <4>1, <4>2 DEF Best, Chosen
    <3>2. ASSUME NEW n \in 1..N, Compatible(rows[n], AnyArch), About[rows[n]].version = v,
                 rows[n] # p
          PROVE  p \notin Met(rows, n, v, AnyArch)
      <4>1. rows[n] \in Best(R, v, AnyArch)
        BY <2>1, <3>2 DEF Best
      <4>2. rows[n] \in R \ S
        BY <2>1, <3>1, <3>2, <4>1
      <4>3. ASSUME NEW k \in 1..n, rows[k] = p PROVE FALSE
        <5>1. k \in 1..N
          BY <1>1
        <5>2. n < k
          BY <2>1, <4>2, <4>3, <5>1
        <5> QED
          BY <1>1, <5>2
      <4> QED
        BY <4>3 DEF Met
    <3>3. p \in Met(rows, N, v, AnyArch)
      BY <2>1, <3>1 DEF Met
    <3>4. map[N][v] = {p}
      <4>1. LastMet(p, rows, N, v)
        BY <3>2 DEF LastMet
      <4> QED
        BY ONLY <1>1, <2>3, <2>4, <3>1, <3>3, <4>1, LastStays
    <3> QED
      BY <1>3, <2>3, <3>4
  <2>6. SelectRecords(rows, arch) = S
    BY <2>2, <2>5, OrderReaches
  <2> QED
    BY <2>2, <2>6
<1> QED
  BY <1>2, <1>3

\* selectRecords yields, over the orders of the rows, just the selections.
LEMMA SelectRecordsExact ==
  ASSUME NEW R \in SUBSET Artifacts, NEW arch
  PROVE  {SelectRecords(rows, arch) : rows \in Enumerations(R)}
           = {S \in SUBSET R : Selection(S, R, arch)}
<1>1. \A rows \in Enumerations(R) :
        Selection(SelectRecords(rows, arch), R, arch) /\ SelectRecords(rows, arch) \in SUBSET R
  BY SelectsSelection DEF Selection
<1>2. \A S \in SUBSET R : Selection(S, R, arch)
        => \E rows \in Enumerations(R) : SelectRecords(rows, arch) = S
  BY SelectionReached
<1> QED
  BY <1>1, <1>2

-----------------------------------------------------------------------------
(* The first states.                                                       *)

\* The first state of a new database satisfies the invariant.
THEOREM InitiallyInductive ==
  ASSUME Init
  PROVE  Inductive
<1>1. TypeOK
  <2>1. NoWatch \in WatchType
    BY DEF NoWatch, WatchType
  <2>2. TableType
    BY <2>1, CatalogAssumption DEF Init, TableType
  <2>3. ActorType
    BY DEF Init, ActorType, Idle, Asleep
  <2> QED
    BY <2>2, <2>3 DEF TypeOK
<1>2. Handling /\ Wanted
  BY DEF Init, Handling, Wanted, NoWatch, Idle, Asleep
<1>3. RowsListed /\ OnlyRequested
  BY DEF Init, RowsListed, OnlyRequested
<1> QED
  BY <1>1, <1>2, <1>3 DEF Inductive

-----------------------------------------------------------------------------
(* The handlers.                                                           *)

\* A handler that turns to a legal state keeps the types of the actors.
LEMMA TurnKeepsType ==
  ASSUME TypeOK, NEW c \in Clients, NEW from, NEW fields, Turn(c, from, fields),
         fields \in [pc : {"idle", "replace", "watch"}, index : Indexes \cup {"none"},
                     list : SUBSET Artifacts, artifact : Artifacts \cup {"none"}],
         UNCHANGED worker
  PROVE  ActorType'
  BY DEF TypeOK, ActorType, Turn

\* Whatever step a handler takes, the invariant survives it.
LEMMA HandlerKeeps ==
  ASSUME Inductive, NEW c \in Clients, Handler(c)
  PROVE  Inductive'
<1> USE DEF Inductive
<1>0. Idle \in [pc : {"idle", "replace", "watch"}, index : Indexes \cup {"none"},
                list : SUBSET Artifacts, artifact : Artifacts \cup {"none"}]
  BY DEF Idle
<1>1. ASSUME NEW i \in Indexes, OpenCached(c, i)
      PROVE  Inductive'
  <2>1. PICK list \in Editions :
          Turn(c, "idle", [Idle EXCEPT !.pc = "replace", !.index = i, !.list = list])
    BY <1>1 DEF OpenCached
  <2>2. list \in SUBSET Artifacts
    BY CatalogAssumption
  <2>3. TypeOK'
    <3>1. ActorType'
      BY <1>1, <2>1, <2>2, TurnKeepsType DEF OpenCached, Idle
    <3> QED
      BY <1>1, <3>1 DEF OpenCached, TypeOK, TableType
  <2>4. Handling'
    BY <1>1, <2>1 DEF OpenCached, Handling, Turn, Idle, TypeOK, ActorType
  <2>5. Wanted' /\ RowsListed' /\ OnlyRequested'
    BY <1>1 DEF OpenCached, Wanted, RowsListed, OnlyRequested
  <2> QED
    BY <2>3, <2>4, <2>5
<1>2. CASE ReplaceCatalog(c)
  <2> DEFINE i == client[c].index
  <2>1. i \in Indexes /\ client[c].list \in SUBSET Artifacts
    BY <1>2 DEF ReplaceCatalog, Turn, Handling, TypeOK, ActorType
  <2>2. TypeOK'
    <3>1. ActorType'
      BY <1>2, <1>0, TurnKeepsType DEF ReplaceCatalog
    <3>2. row' \in [Artifacts -> Indexes \cup {"none"}]
      BY <1>2, <2>1 DEF ReplaceCatalog, TypeOK, TableType
    <3>3. listed' \in [Indexes -> SUBSET Artifacts]
      BY <1>2, <2>1 DEF ReplaceCatalog, TypeOK, TableType
    <3> QED
      BY <1>2, <3>1, <3>2, <3>3 DEF ReplaceCatalog, TypeOK, TableType
  <2>3. Handling'
    BY <1>2 DEF ReplaceCatalog, Handling, Turn, Idle, TypeOK, ActorType
  <2>4. RowsListed'
    <3> SUFFICES ASSUME NEW a \in Artifacts, row'[a] # "none"
                 PROVE  a \in listed'[row'[a]]
      BY DEF RowsListed
    <3>1. listed' = [listed EXCEPT ![i] = client[c].list]
      BY <1>2 DEF ReplaceCatalog
    <3>2. row'[a] = IF a \in client[c].list THEN i
                    ELSE IF row[a] = i THEN "none" ELSE row[a]
      BY <1>2 DEF ReplaceCatalog
    <3>3. row[a] \in Indexes \cup {"none"} /\ listed \in [Indexes -> SUBSET Artifacts]
      BY DEF TypeOK, TableType
    <3>4. CASE a \in client[c].list
      BY <2>1, <3>1, <3>2, <3>3, <3>4
    <3>5. CASE a \notin client[c].list
      <4>1. row'[a] = row[a] /\ row[a] # i /\ row[a] # "none"
        BY <3>2, <3>5
      <4>2. a \in listed[row[a]]
        BY <4>1 DEF RowsListed
      <4> QED
        BY <3>1, <3>3, <4>1, <4>2
    <3> QED
      BY <3>4, <3>5
  <2>5. Wanted' /\ OnlyRequested'
    BY <1>2 DEF ReplaceCatalog, Wanted, OnlyRequested
  <2> QED
    BY <2>2, <2>3, <2>4, <2>5
<1>3. CASE StoreFails(c)
  <2>0. client' = [client EXCEPT ![c] = Idle]
    BY <1>3 DEF StoreFails, Turn
  <2>1. TypeOK'
    <3>1. ActorType'
      BY <1>3, <2>0, <1>0 DEF StoreFails, TypeOK, ActorType
    <3> QED
      BY <1>3, <3>1 DEF StoreFails, TypeOK, TableType
  <2>2. Handling'
    BY <1>3, <2>0 DEF StoreFails, Handling, Idle, TypeOK, ActorType
  <2>3. Wanted' /\ RowsListed' /\ OnlyRequested'
    BY <1>3 DEF StoreFails, Wanted, RowsListed, OnlyRequested
  <2> QED
    BY <2>1, <2>2, <2>3
<1>4. ASSUME NEW a \in Artifacts, RecordForArtifact(c, a)
      PROVE  Inductive'
  <2>1. asked' = [asked EXCEPT ![About[a].package] = @ \cup {About[a].arch}]
    BY <1>4 DEF RecordForArtifact
  <2>2. asked \in [Packages -> SUBSET Archs]
    BY DEF TypeOK, TableType
  <2>3. asked' \in [Packages -> SUBSET Archs] /\ About[a].arch \in asked'[About[a].package]
    BY <2>1, <2>2, ArchOfArtifact
  <2>4. \A p \in Packages : asked[p] \subseteq asked'[p]
    BY <2>1, <2>2
  <2>5. TypeOK'
    <3>1. ActorType'
      BY <1>4, TurnKeepsType DEF RecordForArtifact, Idle
    <3> QED
      BY <1>4, <2>3, <3>1 DEF RecordForArtifact, TypeOK, TableType
  <2>6. Handling'
    <3> SUFFICES ASSUME NEW d \in Clients
                 PROVE  /\ client'[d].pc = "replace" => client'[d].index \in Indexes
                        /\ client'[d].pc = "watch" =>
                             LET b == client'[d].artifact
                             IN b \in Artifacts /\ About[b].arch \in asked'[About[b].package]
      BY DEF Handling
    <3>1. CASE d = c
      BY <1>4, <2>3, <3>1 DEF RecordForArtifact, Turn, Idle, TypeOK, ActorType
    <3>2. CASE d # c
      <4>1. client'[d] = client[d]
        BY <1>4, <3>2 DEF RecordForArtifact, Turn, TypeOK, ActorType
      <4> QED
        BY <4>1, <2>4, ArchOfArtifact DEF Handling
    <3> QED
      BY <3>1, <3>2
  <2>7. Wanted'
    <3>1. \A p \in Packages : watch[p].on => watch[p].variant \in asked'[p]
      BY <2>4 DEF Wanted
    <3>2. \A e \in worker.todo : e.variant \in asked'[e.package]
      BY <2>4 DEF Wanted, TypeOK, ActorType
    <3>3. \A b \in worker.wanted : \E arch \in asked'[About[b].package] :
             arch = "" \/ About[b].arch \in {arch, AnyArch}
      BY <2>4, ArchOfArtifact DEF Wanted, TypeOK, ActorType
    <3> QED
      BY <1>4, <3>1, <3>2, <3>3 DEF RecordForArtifact, Wanted
  <2>8. OnlyRequested'
    BY <1>4, <2>4, ArchOfArtifact DEF RecordForArtifact, OnlyRequested, TypeOK, TableType
  <2>9. RowsListed'
    BY <1>4 DEF RecordForArtifact, RowsListed
  <2> QED
    BY <2>5, <2>6, <2>7, <2>8, <2>9
<1>5. CASE WatchPackageVariant(c)
  <2> DEFINE a    == client[c].artifact
             p    == About[a].package
             arch == About[a].arch
             new  == [on |-> TRUE, variant |-> arch, requested |-> now,
                      checked |-> IF watch[p].on THEN watch[p].checked ELSE LongAgo]
  <2>1. /\ a \in Artifacts /\ arch \in asked[p]
        /\ client[c].pc = "watch"
    BY <1>5 DEF WatchPackageVariant, Turn, Handling
  <2>2. p \in Packages /\ arch \in Archs
    BY <2>1, ArchOfArtifact
  <2>3. watch' = [watch EXCEPT ![p] = new]
    BY <1>5 DEF WatchPackageVariant
  <2>4. new \in WatchType
    <3>1. LongAgo \in Int /\ now \in Nat
      BY CatalogAssumption DEF LongAgo, TypeOK, TableType
    <3>2. watch[p].checked \in Int
      BY <2>2 DEF TypeOK, TableType, WatchType
    <3> QED
      BY <2>2, <3>1, <3>2 DEF WatchType
  <2> HIDE DEF new
  <2>5. TypeOK'
    <3>1. ActorType'
      BY <1>5, <1>0, TurnKeepsType DEF WatchPackageVariant
    <3>2. watch' \in [Packages -> WatchType]
      BY <2>3, <2>4 DEF TypeOK, TableType
    <3> QED
      BY <1>5, <3>1, <3>2 DEF WatchPackageVariant, TypeOK, TableType
  <2>6. Handling'
    BY <1>5 DEF WatchPackageVariant, Handling, Turn, Idle, TypeOK, ActorType
  <2>7. Wanted'
    <3>1. \A q \in Packages : watch'[q].on => watch'[q].variant \in asked[q]
      <4>1. new.variant = arch
        BY DEF new
      <4> QED
        BY <2>1, <2>2, <2>3, <4>1 DEF Wanted, TypeOK, TableType
    <3> QED
      BY <1>5, <3>1 DEF WatchPackageVariant, Wanted
  <2>8. RowsListed' /\ OnlyRequested'
    BY <1>5 DEF WatchPackageVariant, RowsListed, OnlyRequested
  <2> QED
    BY <2>5, <2>6, <2>7, <2>8
<1> QED
  BY <1>1, <1>2, <1>3, <1>4, <1>5 DEF Handler

-----------------------------------------------------------------------------
(* The worker.                                                             *)

\* CheckedPackageWatch leaves everything but the stamp.
LEMMA StampKeeps ==
  ASSUME TypeOK, NEW p \in Packages, watch' = [watch EXCEPT ![p].checked = now]
  PROVE  /\ watch' \in [Packages -> WatchType]
         /\ \A q \in Packages : watch'[q].on = watch[q].on /\ watch'[q].variant = watch[q].variant
<1>1. watch \in [Packages -> WatchType] /\ now \in Int
  BY CatalogAssumption DEF TypeOK, TableType
<1>2. ASSUME NEW q \in Packages
      PROVE  /\ watch'[q] \in WatchType
             /\ watch'[q].on = watch[q].on /\ watch'[q].variant = watch[q].variant
  <2>1. watch[q] \in WatchType
    BY <1>1
  <2>2. watch'[q] = IF q = p THEN [watch[p] EXCEPT !.checked = now] ELSE watch[q]
    BY <1>1
  <2> QED
    BY <1>1, <2>1, <2>2 DEF WatchType
<1>3. watch' = [q \in Packages |-> watch'[q]]
  BY <1>1
<1> QED
  BY <1>2, <1>3

\* DeleteInactivePackageWatches leaves the watches that it does not delete.
LEMMA ExpireKeeps ==
  ASSUME TypeOK, Expire
  PROVE  /\ watch' \in [Packages -> WatchType]
         /\ \A p \in Packages : watch'[p].on => watch'[p] = watch[p]
<1>1. NoWatch \in WatchType /\ ~NoWatch.on
  BY DEF NoWatch, WatchType
<1>2. watch' = [p \in Packages |-> IF watch[p].requested < now - Retention
                                   THEN NoWatch ELSE watch[p]]
  BY DEF Expire
<1> QED
  BY <1>1, <1>2 DEF TypeOK, TableType

\* Whatever step the worker takes, the invariant survives it.
LEMMA WorkerKeeps ==
  ASSUME Inductive, Worker
  PROVE  Inductive'
<1> USE DEF Inductive
<1> DEFINE Entries == [package : Packages, variant : Archs \cup {""}, checked : Int]
           Workers == [pc : {"idle", "due", "pick", "fetch"}, began : Nat,
                       todo : SUBSET Entries, at : Packages \cup {"none"},
                       wanted : SUBSET Artifacts]
<1>0. now \in Nat /\ worker \in Workers /\ worker.began \in Nat
  <2>1. worker \in Workers
    BY DEF TypeOK, ActorType
  <2>2. now \in Nat
    BY CatalogAssumption DEF TypeOK, TableType
  <2> QED
    BY <2>1, <2>2
<1>1. CASE DeleteInactive
  <2>1. worker' = [pc |-> "due", began |-> now, todo |-> {}, at |-> "none", wanted |-> {}]
    BY <1>1 DEF DeleteInactive, Work, Asleep
  <2>2. /\ watch' \in [Packages -> WatchType]
        /\ \A p \in Packages : watch'[p].on => watch'[p] = watch[p]
    BY <1>1, ExpireKeeps DEF DeleteInactive
  <2>3. TypeOK'
    <3>1. worker' \in Workers
      BY <1>0, <2>1
    <3> QED
      BY <1>1, <2>2, <3>1 DEF DeleteInactive, Aside, TypeOK, TableType, ActorType
  <2>4. Wanted'
    BY <1>1, <2>1, <2>2 DEF DeleteInactive, Aside, Wanted
  <2>5. Handling' /\ RowsListed' /\ OnlyRequested'
    BY <1>1 DEF DeleteInactive, Aside, Handling, RowsListed, OnlyRequested
  <2> QED
    BY <2>3, <2>4, <2>5
<1>2. CASE WatchesDue
  <2> DEFINE due  == {p \in Packages : /\ watch[p].on
                                       /\ watch[p].requested >= worker.began - Retention
                                       /\ watch[p].checked < worker.began - Interval}
             list == {[package |-> p, variant |-> watch[p].variant,
                       checked |-> watch[p].checked] : p \in due}
  <2>1. worker' = [pc |-> "pick", began |-> 0, todo |-> list, at |-> "none", wanted |-> {}]
    BY <1>2 DEF WatchesDue, Work, Asleep
  <2>2. \A e \in list : e \in Entries /\ e.variant \in asked[e.package]
    <3>1. \A p \in due : p \in Packages /\ watch[p].on
      OBVIOUS
    <3> HIDE DEF due
    <3>2. \A p \in due : watch[p] \in WatchType /\ watch[p].variant \in asked[p]
      BY <3>1 DEF Wanted, TypeOK, TableType
    <3> SUFFICES ASSUME NEW e \in list
                 PROVE  e \in Entries /\ e.variant \in asked[e.package]
      OBVIOUS
    <3>3. PICK p \in due : e = [package |-> p, variant |-> watch[p].variant,
                               checked |-> watch[p].checked]
      OBVIOUS
    <3>4. e.package = p /\ e.variant = watch[p].variant
      BY <3>3
    <3>5. e \in Entries
      BY <3>1, <3>2, <3>3 DEF WatchType
    <3> QED
      BY <3>2, <3>4, <3>5
  <2>3. UNCHANGED <<now, row, client, listed, asked, watch, begun>>
    BY <1>2 DEF WatchesDue, Aside
  <2> HIDE DEF list
  <2>4. TypeOK'
    <3>1. worker' \in Workers
      BY <2>1, <2>2
    <3> QED
      BY <2>3, <3>1 DEF TypeOK, TableType, ActorType
  <2>5. Wanted'
    BY <2>1, <2>2, <2>3 DEF Wanted
  <2>6. Handling' /\ RowsListed' /\ OnlyRequested'
    BY <2>3 DEF Handling, RowsListed, OnlyRequested
  <2> QED
    BY <2>4, <2>5, <2>6
<1>3. CASE Select
  <2>0. PICK e \in worker.todo : \E S \in SUBSET Rows(e.package) :
          /\ Selection(S, Rows(e.package), e.variant)
          /\ worker.pc = "pick"
          /\ worker' = [worker EXCEPT !.pc = "fetch", !.todo = @ \ {e},
                                      !.at = e.package, !.wanted = S]
    BY <1>3 DEF Select, Work
  <2>1. PICK S \in SUBSET Rows(e.package) :
          /\ Selection(S, Rows(e.package), e.variant)
          /\ worker.pc = "pick"
          /\ worker' = [worker EXCEPT !.pc = "fetch", !.todo = @ \ {e},
                                      !.at = e.package, !.wanted = S]
    BY <2>0
  <2>2. /\ e.package \in Packages /\ worker.todo \in SUBSET Entries
        /\ e.variant \in asked[e.package]
    BY <1>0, <2>1 DEF Wanted
  <2>3. /\ worker'.pc = "fetch" /\ worker'.began = worker.began
        /\ worker'.todo = worker.todo \ {e} /\ worker'.at = e.package
        /\ worker'.wanted = S
    BY <1>0, <2>1
  <2>4. UNCHANGED <<now, row, client, listed, asked, watch, begun>>
    BY <1>3 DEF Select, Aside
  <2>5. S \subseteq Artifacts
    BY <2>1 DEF Rows
  <2>6. TypeOK'
    <3>1. worker' \in Workers
      BY <1>0, <2>1, <2>2, <2>5
    <3> QED
      BY <2>4, <3>1 DEF TypeOK, TableType, ActorType
  <2>7. \A a \in S : \E arch \in asked[About[a].package] :
           arch = "" \/ About[a].arch \in {arch, AnyArch}
    <3> SUFFICES ASSUME NEW a \in S
                 PROVE  \E arch \in asked[About[a].package] :
                           arch = "" \/ About[a].arch \in {arch, AnyArch}
      OBVIOUS
    <3>1. About[a].package = e.package /\ Compatible(a, e.variant)
      BY <2>1, SelectionFits
    <3> QED
      BY <2>2, <3>1 DEF Compatible
  <2>8. Wanted'
    BY <2>2, <2>3, <2>4, <2>7 DEF Wanted
  <2>9. Handling' /\ RowsListed' /\ OnlyRequested'
    BY <2>4 DEF Handling, RowsListed, OnlyRequested
  <2> QED
    BY <2>6, <2>8, <2>9
<1>4. CASE RecordsFail
  <2>1. PICK e \in worker.todo : /\ worker.pc = "pick"
                                 /\ worker' = [worker EXCEPT !.todo = @ \ {e}]
    BY <1>4 DEF RecordsFail, Work
  <2>2. UNCHANGED <<now, row, client, listed, asked, watch, begun>>
    BY <1>4 DEF RecordsFail, Aside
  <2>3. /\ worker'.pc = "pick" /\ worker'.todo = worker.todo \ {e}
        /\ worker'.wanted = worker.wanted /\ worker' \in Workers
    BY <1>0, <2>1
  <2>4. TypeOK'
    BY <2>2, <2>3 DEF TypeOK, TableType, ActorType
  <2>5. Wanted'
    BY <2>2, <2>3 DEF Wanted
  <2>6. Handling' /\ RowsListed' /\ OnlyRequested'
    BY <2>2 DEF Handling, RowsListed, OnlyRequested
  <2> QED
    BY <2>4, <2>5, <2>6
<1>5. CASE Prefetch
  <2>1. PICK a \in worker.wanted : /\ worker.pc = "fetch"
                                   /\ worker' = [worker EXCEPT !.wanted = @ \ {a}]
                                   /\ begun' = begun \cup {a}
    BY <1>5 DEF Prefetch, Work
  <2>2. UNCHANGED <<now, row, client, listed, asked, watch>>
    BY <1>5 DEF Prefetch, Aside
  <2>3. /\ worker'.pc = "fetch" /\ worker'.todo = worker.todo /\ worker'.at = worker.at
        /\ worker'.wanted = worker.wanted \ {a} /\ worker' \in Workers
    BY <1>0, <2>1
  <2>4. a \in Artifacts
    BY <1>0, <2>1
  <2>5. TypeOK'
    BY <2>1, <2>2, <2>3, <2>4 DEF TypeOK, TableType, ActorType
  <2>6. Wanted'
    BY <2>1, <2>2, <2>3 DEF Wanted
  <2>7. OnlyRequested'
    BY <2>1, <2>2 DEF Wanted, OnlyRequested
  <2>8. Handling' /\ RowsListed'
    BY <2>2 DEF Handling, RowsListed
  <2> QED
    BY <2>5, <2>6, <2>7, <2>8
<1>6. CASE CheckedPackageWatch
  <2> DEFINE p == worker.at
  <2>1. UNCHANGED <<now, row, client, listed, asked, begun>>
    BY <1>6 DEF CheckedPackageWatch, Aside
  <2>2. worker.pc = "fetch" /\ p \in Packages
    BY <1>6 DEF CheckedPackageWatch, Work, Wanted
  <2>3. \/ worker' = [worker EXCEPT !.pc = "pick", !.at = "none"]
        \/ worker' = Asleep
    BY <1>6 DEF CheckedPackageWatch, Work
  <2>4. /\ worker' \in Workers /\ worker'.pc # "fetch"
        /\ worker'.todo \subseteq worker.todo /\ worker'.wanted \subseteq worker.wanted
    <3>1. CASE worker' = [worker EXCEPT !.pc = "pick", !.at = "none"]
      BY <1>0, <3>1
    <3>2. CASE worker' = Asleep
      <4>1. worker' = [pc |-> "idle", began |-> 0, todo |-> {}, at |-> "none", wanted |-> {}]
        BY <3>2 DEF Asleep
      <4> QED
        BY <4>1
    <3> QED
      BY <2>3, <3>1, <3>2
  <2>5. \/ watch' = watch
        \/ watch[p].on /\ watch' = [watch EXCEPT ![p].checked = now]
    BY <1>6 DEF CheckedPackageWatch
  <2>6. watch' \in [Packages -> WatchType]
    BY <2>2, <2>5, StampKeeps DEF TypeOK, TableType
  <2>7. TypeOK'
    BY <2>1, <2>4, <2>6 DEF TypeOK, TableType, ActorType
  <2>8. Wanted'
    <3>1. \A q \in Packages : watch'[q].on => watch[q].on /\ watch'[q].variant = watch[q].variant
      BY <2>2, <2>5, StampKeeps
    <3> QED
      BY <2>1, <2>4, <3>1 DEF Wanted
  <2>9. Handling' /\ RowsListed' /\ OnlyRequested'
    BY <2>1 DEF Handling, RowsListed, OnlyRequested
  <2> QED
    BY <2>7, <2>8, <2>9
<1>7. CASE PassEnds
  <2>1. worker' = Asleep /\ UNCHANGED <<now, row, client, listed, asked, watch, begun>>
    BY <1>7 DEF PassEnds, Work, Aside
  <2>2. TypeOK'
    BY <2>1 DEF TypeOK, TableType, ActorType, Asleep
  <2>3. Wanted'
    BY <2>1 DEF Wanted, Asleep
  <2>4. Handling' /\ RowsListed' /\ OnlyRequested'
    BY <2>1 DEF Handling, RowsListed, OnlyRequested
  <2> QED
    BY <2>2, <2>3, <2>4
<1> QED
  BY <1>1, <1>2, <1>3, <1>4, <1>5, <1>6, <1>7 DEF Worker

-----------------------------------------------------------------------------
(* The theorems.                                                           *)

\* Every step preserves the invariant, whoever takes it.
LEMMA StepKeeps ==
  ASSUME Inductive, [Next]_vars
  PROVE  Inductive'
<1> USE DEF Inductive
<1>1. ASSUME NEW c \in Clients, Handler(c)
      PROVE  Inductive'
  BY <1>1, HandlerKeeps
<1>2. CASE Worker
  BY <1>2, WorkerKeeps
<1>3. CASE Tick
  <2>1. now' \in 0..MaxTime
    BY <1>3, CatalogAssumption DEF Tick, TypeOK, TableType
  <2>2. TypeOK'
    BY <1>3, <2>1 DEF Tick, TypeOK, TableType, ActorType
  <2>3. Handling' /\ Wanted' /\ RowsListed' /\ OnlyRequested'
    BY <1>3 DEF Tick, Handling, Wanted, RowsListed, OnlyRequested
  <2> QED
    BY <2>2, <2>3
<1>4. CASE Crash
  <2>1. TypeOK'
    BY <1>4 DEF Crash, TypeOK, TableType, ActorType, Idle, Asleep
  <2>2. Handling' /\ Wanted'
    BY <1>4 DEF Crash, Handling, Wanted, Idle, Asleep
  <2>3. RowsListed' /\ OnlyRequested'
    BY <1>4 DEF Crash, RowsListed, OnlyRequested
  <2> QED
    BY <2>1, <2>2, <2>3
<1>5. CASE DeleteElsewhere
  <2>1. /\ watch' \in [Packages -> WatchType]
        /\ \A p \in Packages : watch'[p].on => watch'[p] = watch[p]
    BY <1>5, ExpireKeeps DEF DeleteElsewhere
  <2>2. UNCHANGED <<now, row, client, worker, listed, asked, begun>>
    BY <1>5 DEF DeleteElsewhere, Aside
  <2>3. TypeOK'
    BY <2>1, <2>2 DEF TypeOK, TableType, ActorType
  <2>4. Wanted'
    BY <2>1, <2>2 DEF Wanted
  <2>5. Handling' /\ RowsListed' /\ OnlyRequested'
    BY <2>2 DEF Handling, RowsListed, OnlyRequested
  <2> QED
    BY <2>3, <2>4, <2>5
<1>6. CASE UNCHANGED vars
  BY <1>6 DEF vars, TypeOK, TableType, ActorType, Handling, Wanted, RowsListed, OnlyRequested
<1> QED
  BY <1>1, <1>2, <1>3, <1>4, <1>5, <1>6 DEF Next

\* The invariant holds throughout: what handlers and the worker carry with them
\* stays consistent with the tables, whatever happens in between.
THEOREM InductiveInvariant == Spec => []Inductive
<1>1. Init => Inductive
  BY InitiallyInductive
<1>2. Inductive /\ [Next]_vars => Inductive'
  BY StepKeeps
<1> QED
  BY <1>1, <1>2, PTL DEF Spec

\* The variables keep their types.
THEOREM TypeCorrect == Spec => []TypeOK
<1>1. Inductive => TypeOK
  BY DEF Inductive
<1> QED
  BY <1>1, InductiveInvariant, PTL

\* ReplaceAPTCatalog and ReplaceAPKCatalog: a row belongs to an index that
\* lists its artifact, although indexes take over each other's rows.
THEOREM RowsAreListed == Spec => []RowsListed
<1>1. Inductive => RowsListed
  BY DEF Inductive
<1> QED
  BY <1>1, InductiveInvariant, PTL

\* RefreshPackageWatches prefetches for no architecture that nobody asked for,
\* by whatever list of watches it goes.
THEOREM PrefetchesRequested == Spec => []OnlyRequested
<1>1. Inductive => OnlyRequested
  BY DEF Inductive
<1> QED
  BY <1>1, InductiveInvariant, PTL

\* selectRecords: for every listed watch and every set of its rows, the orders in
\* which the query may return them lead to the selections and to nothing else.
THEOREM SelectsExactly == Spec => []SelectionExact
<1>1. SelectionExact
  <2>1. \A p : Rows(p) \in SUBSET Artifacts
    BY DEF Rows
  <2> QED
    BY <2>1, SelectRecordsExact DEF SelectionExact
<1> QED
  BY <1>1, PTL
=============================================================================
