----------------------------- MODULE PypiProofs -----------------------------
(***************************************************************************)
(* Proofs about module Pypi.  A project enters the table of watches only   *)
(* with an artifact that a client got, and from there the worker's list    *)
(* and its hands, whatever the table does in the meantime; a selection is  *)
(* of usable files of the document it is made from.                        *)
(***************************************************************************)
EXTENDS Pypi, Orders

IInv == PypiInductive /\ PrefetchesAsked

-----------------------------------------------------------------------------
(* Selections.                                                             *)

\* A document has finitely many releases.
LEMMA Releases ==
  ASSUME NEW doc \in Seq(Files)
  PROVE  IsFiniteSet(Available(doc)) /\ Cardinality(Available(doc)) \in Nat
<1> DEFINE J == {j \in DOMAIN doc : Unyanked(doc[j])}
           version == [j \in J |-> Facts[doc[j]].version]
<1>1. IsFiniteSet(J)
  <2>1. IsFiniteSet(1..Len(doc)) /\ J \subseteq 1..Len(doc)
    BY FS_Interval
  <2> QED
    BY <2>1, FS_Subset
<1>2. version \in Surjection(J, Available(doc))
  BY DEF Available, Surjection
<1>3. IsFiniteSet(Available(doc))
  BY <1>1, <1>2, FS_Surjection
<1> QED
  BY <1>3, FS_CardinalityType

\* Whatever the order of the releases: a selection is a sequence of files that
\* the document lists and that are not yanked.
LEMMA Selected ==
  ASSUME NEW doc \in Seq(Files), NEW files \in SelectReleaseFiles(doc)
  PROVE  /\ files \in Seq(Files)
         /\ \A f \in Listed(files) : f \in Listed(doc) /\ Unyanked(f)
<1> DEFINE n == Cardinality(Available(doc))
           m == IF n > Limit THEN Limit ELSE n
<1>1. PICK s \in [1..n -> Available(doc)] :
        /\ files \in [1..m -> Listed(doc)]
        /\ \A i \in DOMAIN files : \E k \in Preferred(doc, s[i]) : files[i] = doc[k]
  BY DEF SelectReleaseFiles
<1>2. \A v : Preferred(doc, v) \subseteq Release(doc, v)
  BY DEF Preferred, Foremost
<1>3. \A i \in DOMAIN files : files[i] \in Listed(doc) /\ Unyanked(files[i])
  BY <1>1, <1>2 DEF Release, Listed
<1>4. Listed(doc) \subseteq Files
  BY DEF Listed
<1>5. m \in Nat
  BY PypiAssumption, Releases
<1>6. files \in Seq(Files)
  BY <1>1, <1>4, <1>5
<1> QED
  BY <1>3, <1>6 DEF Listed

-----------------------------------------------------------------------------
(* The selection is unique, and it is the one described.                   *)

\* First picks one element.
LEMMA OneFirst ==
  ASSUME NEW I, I \subseteq Nat, I # {}
  PROVE  \E k \in I : Foremost(I) = {k}
<1>1. PICK k \in I : \A j \in I : k <= j
  BY Least
<1>2. \A i \in I : i \in Nat
  OBVIOUS
<1>3. \A i \in I : (\A j \in I : i <= j) <=> i = k
  BY <1>1, <1>2
<1>4. Foremost(I) = {k}
  BY <1>3 DEF Foremost
<1> QED
  BY <1>4

\* A release in a document has files, and one of them is preferred.
LEMMA ReleaseFiles ==
  ASSUME NEW doc \in Seq(Files), NEW v \in Available(doc)
  PROVE  /\ Release(doc, v) # {} /\ Release(doc, v) \subseteq DOMAIN doc
         /\ IsFiniteSet(Release(doc, v)) /\ v \in Nat
         /\ \A i \in Release(doc, v) : /\ i \in Nat /\ doc[i] \in Files /\ Unyanked(doc[i])
                                       /\ Facts[doc[i]].version = v
<1>1. IsFiniteSet(1..Len(doc)) /\ DOMAIN doc = 1..Len(doc)
  BY FS_Interval
<1>2. Release(doc, v) \subseteq DOMAIN doc /\ Release(doc, v) # {}
  BY DEF Available, Release
<1>3. IsFiniteSet(Release(doc, v))
  BY <1>1, <1>2, FS_Subset
<1>4. \A i \in DOMAIN doc : i \in Nat /\ doc[i] \in Files
  BY <1>1
<1>5. \A i \in Release(doc, v) : Unyanked(doc[i]) /\ Facts[doc[i]].version = v
  BY DEF Release
<1>6. v \in Nat
  BY <1>2, <1>4, <1>5, PypiAssumption
<1> QED
  BY <1>2, <1>3, <1>4, <1>5, <1>6

LEMMA OnePreferred ==
  ASSUME NEW doc \in Seq(Files), NEW v \in Available(doc)
  PROVE  \E k \in Release(doc, v) :
           /\ Preferred(doc, v) = {k}
           /\ \A i \in Release(doc, v) : Rank(doc[i]) <= Rank(doc[k])
<1> DEFINE of(sort) == {i \in Release(doc, v) : Facts[doc[i]].sort = sort}
<1>1. Release(doc, v) # {} /\ Release(doc, v) \subseteq Nat
  BY ReleaseFiles
<1>2. CASE of("universal") # {}
  <2>1. PICK k \in of("universal") : Foremost(of("universal")) = {k}
    BY <1>1, <1>2, OneFirst
  <2> QED
    BY <1>2, <2>1 DEF Preferred, Rank
<1>3. CASE of("universal") = {} /\ of("sdist") # {}
  <2>1. PICK k \in of("sdist") : Foremost(of("sdist")) = {k}
    BY <1>1, <1>3, OneFirst
  <2> QED
    BY <1>3, <2>1 DEF Preferred, Rank
<1>4. CASE of("universal") = {} /\ of("sdist") = {}
  <2>1. PICK k \in Release(doc, v) : Foremost(Release(doc, v)) = {k}
    BY <1>1, OneFirst
  <2> QED
    BY <1>4, <2>1 DEF Preferred, Rank
<1> QED
  BY <1>2, <1>3, <1>4

\* The time of a release is that of one of its files, and none of them is later.
LEMMA LatestFile ==
  ASSUME NEW doc \in Seq(Files), NEW v \in Available(doc)
  PROVE  /\ Time(doc, v) \in Nat
         /\ \E i \in Release(doc, v) : Facts[doc[i]].uploaded = Time(doc, v)
         /\ \A i \in Release(doc, v) : Facts[doc[i]].uploaded <= Time(doc, v)
<1> DEFINE J == Release(doc, v)
           T == {Facts[doc[i]].uploaded : i \in J}
           uploaded == [i \in J |-> Facts[doc[i]].uploaded]
<1>1. /\ J # {} /\ IsFiniteSet(J)
      /\ \A i \in J : Facts[doc[i]].uploaded \in Nat
  BY ReleaseFiles, PypiAssumption
<1>2. uploaded \in Surjection(J, T)
  BY DEF Surjection
<1>3. IsFiniteSet(T) /\ T # {} /\ T \subseteq Int
  BY <1>1, <1>2, FS_Surjection
<1>4. \E t \in T : \A u \in T : u <= t
  <2> HIDE DEF T
  <2> QED
    BY <1>3, Greatest
<1>5. \E t \in T : \A i \in J : Facts[doc[i]].uploaded <= t
  BY <1>4
<1>6. Time(doc, v) \in T /\ \A i \in J : Facts[doc[i]].uploaded <= Time(doc, v)
  BY <1>5 DEF Time
<1> QED
  BY <1>1, <1>6

\* The order of the releases, newest first.
NewerFirst(doc) == {p \in Available(doc) \X Available(doc) : Before(doc, p[1], p[2])}

LEMMA ReleasesOrdered ==
  ASSUME NEW doc \in Seq(Files)
  PROVE  StrictOrder(NewerFirst(doc), Available(doc))
<1>1. \A v \in Available(doc) : v \in Nat /\ Time(doc, v) \in Nat
  BY ReleaseFiles, LatestFile
<1>2. \A v, w \in Available(doc) : <<v, w>> \in NewerFirst(doc) <=> Before(doc, v, w)
  BY DEF NewerFirst
<1> QED
  BY <1>1, <1>2 DEF Before, StrictOrder

\* Whatever sort.Slice makes of whatever order the map gave, it is one sequence.
LEMMA SortedReleases ==
  ASSUME NEW doc \in Seq(Files)
  PROVE  {s \in [1..Cardinality(Available(doc)) -> Available(doc)] :
            \A i, j \in 1..Cardinality(Available(doc)) :
              i < j => s[i] # s[j] /\ ~Before(doc, s[j], s[i])}
           = InOrder(NewerFirst(doc), Available(doc))
<1> DEFINE n == Cardinality(Available(doc))
<1>1. \A v, w \in Available(doc) :
        v # w /\ ~Before(doc, w, v) <=> <<v, w>> \in NewerFirst(doc)
  BY ReleasesOrdered DEF NewerFirst, StrictOrder
<1>2. ASSUME NEW s \in [1..n -> Available(doc)], NEW i \in 1..n, NEW j \in 1..n
      PROVE  s[i] # s[j] /\ ~Before(doc, s[j], s[i]) <=> <<s[i], s[j]>> \in NewerFirst(doc)
  BY <1>1
<1> QED
  BY <1>2 DEF InOrder

\* What Selection says of a release is what the code computes.
LEMMA LateMeansTime ==
  ASSUME NEW doc \in Seq(Files), NEW v \in Available(doc), NEW w \in Available(doc)
  PROVE  (\E f \in {g \in Listed(doc) : ~Facts[g].yanked /\ Facts[g].version = v} :
            \A g \in {h \in Listed(doc) : ~Facts[h].yanked /\ Facts[h].version = w} :
              Facts[f].uploaded >= Facts[g].uploaded)
           <=> Time(doc, v) >= Time(doc, w)
<1> DEFINE of(u) == {g \in Listed(doc) : ~Facts[g].yanked /\ Facts[g].version = u}
<1>1. ASSUME NEW u \in Available(doc)
      PROVE  /\ Time(doc, u) \in Nat
             /\ \A f \in of(u) : Facts[f].uploaded \in Nat /\ Facts[f].uploaded <= Time(doc, u)
             /\ \E f \in of(u) : Facts[f].uploaded = Time(doc, u)
  <2>1. of(u) = {doc[i] : i \in Release(doc, u)}
    BY DEF Listed, Release, Unyanked
  <2>2. \A f \in of(u) : Facts[f].uploaded \in Nat
    BY PypiAssumption DEF Listed
  <2> HIDE DEF of
  <2> QED
    BY <2>1, <2>2, LatestFile
<1> HIDE DEF of
<1>2. (\E f \in of(v) : \A g \in of(w) : Facts[f].uploaded >= Facts[g].uploaded)
        <=> Time(doc, v) >= Time(doc, w)
  <2>1. PICK a \in of(v) : Facts[a].uploaded = Time(doc, v)
    BY <1>1
  <2>2. PICK b \in of(w) : Facts[b].uploaded = Time(doc, w)
    BY <1>1
  <2>3. ASSUME NEW f \in of(v), \A g \in of(w) : Facts[f].uploaded >= Facts[g].uploaded
        PROVE  Time(doc, v) >= Time(doc, w)
    <3>1. Facts[f].uploaded >= Time(doc, w)
      BY <2>2, <2>3
    <3> QED
      BY <1>1, <3>1
  <2>4. ASSUME Time(doc, v) >= Time(doc, w), NEW g \in of(w)
        PROVE  Facts[a].uploaded >= Facts[g].uploaded
    BY <1>1, <2>1, <2>4
  <2> QED
    BY <2>3, <2>4
<1> QED
  BY <1>2 DEF of

LEMMA SelectionOfDocument ==
  ASSUME NEW doc \in Seq(Files)
  PROVE  \E S : SelectReleaseFiles(doc) = {S} /\ Selection(Listed(S), doc)
<1> DEFINE Av == Available(doc)
           n == Cardinality(Av)
           m == IF n > Limit THEN Limit ELSE n
           R == NewerFirst(doc)
<1>1. IsFiniteSet(Av) /\ n \in Nat /\ m \in Nat /\ m <= n /\ m <= Limit /\ Limit \in Nat
  BY Releases, PypiAssumption
<1>2. StrictOrder(R, Av)
  BY ReleasesOrdered
<1>3. PICK s \in InOrder(R, Av) : InOrder(R, Av) = {s}
  BY <1>1, <1>2, OneOrder
<1>4. s \in [1..n -> Av] /\ \A i, j \in 1..n : i < j => <<s[i], s[j]>> \in R
  BY DEF InOrder
<1>5. \A i \in 1..m : i \in 1..n
  BY <1>1
<1> DEFINE chosen == [i \in 1..m |-> CHOOSE k \in Release(doc, s[i]) :
                                      /\ Preferred(doc, s[i]) = {k}
                                      /\ \A j \in Release(doc, s[i]) : Rank(doc[j]) <= Rank(doc[k])]
<1>6. \A i \in 1..m : /\ chosen[i] \in Release(doc, s[i])
                     /\ Preferred(doc, s[i]) = {chosen[i]}
                     /\ \A j \in Release(doc, s[i]) : Rank(doc[j]) <= Rank(doc[chosen[i]])
  BY <1>4, <1>5, OnePreferred
<1>7. \A i \in 1..m : doc[chosen[i]] \in Listed(doc)
  <2>1. \A i \in 1..m : chosen[i] \in DOMAIN doc
    BY <1>6 DEF Release
  <2> QED
    BY <2>1 DEF Listed
<1> HIDE DEF chosen
<1>8. PICK S \in [1..m -> Listed(doc)] : \A i \in 1..m : S[i] = doc[chosen[i]]
  <2> HIDE DEF m
  <2> DEFINE F == [i \in 1..m |-> doc[chosen[i]]]
  <2>1. F \in [1..m -> Listed(doc)] /\ \A i \in 1..m : F[i] = doc[chosen[i]]
    BY <1>7
  <2> QED
    BY <2>1
<1>9. SelectReleaseFiles(doc) = {S}
  <2> DEFINE F == {files \in [1..m -> Listed(doc)] :
                    \A i \in DOMAIN files : \E k \in Preferred(doc, s[i]) : files[i] = doc[k]}
  <2>1. F = {S}
    <3>1. S \in F
      BY <1>6, <1>8
    <3>2. ASSUME NEW files \in F PROVE files = S
      <4>0. /\ files \in [1..m -> Listed(doc)]
            /\ \A i \in 1..m : \E k \in Preferred(doc, s[i]) : files[i] = doc[k]
        OBVIOUS
      <4> HIDE DEF m, F
      <4>1. \A i \in 1..m : files[i] = S[i]
        BY <1>6, <1>8, <4>0
      <4>2. files = [i \in 1..m |-> files[i]] /\ S = [i \in 1..m |-> S[i]]
        BY <1>8, <4>0
      <4>3. [i \in 1..m |-> files[i]] = [i \in 1..m |-> S[i]]
        BY <4>1
      <4> QED
        BY ONLY <4>2, <4>3
    <3> QED
      BY <3>1, <3>2
  <2>2. SelectReleaseFiles(doc)
          = UNION {{files \in [1..m -> Listed(doc)] :
                      \A i \in DOMAIN files : \E k \in Preferred(doc, q[i]) : files[i] = doc[k]} :
                   q \in InOrder(R, Av)}
    BY SortedReleases DEF SelectReleaseFiles
  <2>3. SelectReleaseFiles(doc) = F
    BY <1>3, <2>2
  <2> QED
    BY <2>1, <2>3
<1> DEFINE good == {f \in Listed(doc) : ~Facts[f].yanked}
           of(v) == {f \in good : Facts[f].version = v}
           all == {Facts[f].version : f \in good}
           late(v, w) == \E f \in of(v) : \A g \in of(w) : Facts[f].uploaded >= Facts[g].uploaded
           ahead(v, w) == v # w /\ late(v, w) /\ (late(w, v) => v > w)
           newest == {v \in all : Cardinality({w \in all : ahead(w, v)}) < Limit}
<1>10. all = Av
  BY DEF Available, Listed, Unyanked
<1>11. \A v \in Av : of(v) = {doc[i] : i \in Release(doc, v)}
  BY DEF Release, Listed, Unyanked
<1>12. \A v, w \in Av : ahead(v, w) <=> <<v, w>> \in R
  <2> SUFFICES ASSUME NEW v \in Av, NEW w \in Av PROVE ahead(v, w) <=> <<v, w>> \in R
    OBVIOUS
  <2>1. of(v) = {g \in Listed(doc) : ~Facts[g].yanked /\ Facts[g].version = v}
        /\ of(w) = {g \in Listed(doc) : ~Facts[g].yanked /\ Facts[g].version = w}
    OBVIOUS
  <2>2. (late(v, w) <=> Time(doc, v) >= Time(doc, w)) /\ (late(w, v) <=> Time(doc, w) >= Time(doc, v))
    <3> HIDE DEF of
    <3> QED
      BY <2>1, LateMeansTime
  <2>3. v \in Nat /\ w \in Nat /\ Time(doc, v) \in Nat /\ Time(doc, w) \in Nat
    BY ReleaseFiles, LatestFile
  <2> HIDE DEF late
  <2> QED
    BY <2>2, <2>3 DEF Before, NewerFirst
<1>13. \A v \in Av : {w \in all : ahead(w, v)} = Ahead(R, Av, v)
  <2> HIDE DEF all, ahead
  <2> QED
    BY <1>10, <1>12 DEF Ahead
<1>14. newest = {s[i] : i \in 1..m}
  <2>1. newest = {v \in Av : Cardinality(Ahead(R, Av, v)) < Limit}
    <3> HIDE DEF all, ahead
    <3> QED
      BY <1>10, <1>13
  <2>2. \A i \in 1..n : Cardinality(Ahead(R, Av, s[i])) = i - 1
    BY <1>1, <1>2, PlaceInOrder
  <2>3. \A i \in 1..n : i <= m <=> i - 1 < Limit
    BY <1>1
  <2>4. \A v \in Av : \E i \in 1..n : s[i] = v
    BY <1>1, <1>2, OrderCovers
  <2> HIDE DEF newest
  <2>5. \A v \in newest : \E i \in 1..m : s[i] = v
    <3> SUFFICES ASSUME NEW v \in newest PROVE \E i \in 1..m : s[i] = v
      OBVIOUS
    <3>1. v \in Av /\ Cardinality(Ahead(R, Av, v)) < Limit
      BY <2>1
    <3>2. PICK i \in 1..n : s[i] = v
      BY <2>4, <3>1
    <3>3. i <= m
      BY <2>2, <2>3, <3>1, <3>2
    <3> QED
      BY <3>2, <3>3
  <2>6. \A i \in 1..m : s[i] \in newest
    BY <1>4, <1>5, <2>1, <2>2, <2>3
  <2> QED
    BY <2>5, <2>6
<1>15. \A i \in 1..m : S[i] \in of(s[i]) /\ Facts[S[i]].version = s[i] /\ S[i] \in good
  <2>1. ASSUME NEW i \in 1..m PROVE S[i] \in of(s[i])
    BY <1>4, <1>5, <1>6, <1>8, <1>11
  <2> QED
    BY <2>1
<1>16. \A i \in 1..m : \A g \in of(s[i]) : Rank(g) <= Rank(S[i])
  <2> SUFFICES ASSUME NEW i \in 1..m, NEW g \in of(s[i]) PROVE Rank(g) <= Rank(S[i])
    OBVIOUS
  <2>1. PICK j \in Release(doc, s[i]) : g = doc[j]
    BY <1>4, <1>5, <1>11
  <2> QED
    BY <1>6, <1>8, <2>1
<1>17. \A i, j \in 1..m : s[i] = s[j] => i = j
  <2> SUFFICES ASSUME NEW i \in 1..m, NEW j \in 1..m, s[i] = s[j] PROVE i = j
    OBVIOUS
  <2>1. ~(i < j) /\ ~(j < i)
    BY <1>2, <1>4, <1>5 DEF StrictOrder
  <2> QED
    BY <1>1, <2>1
<1>18. Listed(S) = {S[i] : i \in 1..m}
  BY <1>8 DEF Listed
<1>19. ASSUME NEW v \in newest
       PROVE  \E f \in Listed(S) : Listed(S) \cap of(v) = {f} /\ \A g \in of(v) : Rank(g) <= Rank(f)
  <2>1. PICK i \in 1..m : s[i] = v
    BY <1>14
  <2>2. Listed(S) \cap of(v) = {S[i]}
    <3>1. S[i] \in Listed(S) \cap of(v)
      BY <1>15, <1>18, <2>1
    <3>2. ASSUME NEW f \in Listed(S) \cap of(v) PROVE f = S[i]
      <4>1. PICK j \in 1..m : f = S[j]
        BY <1>18
      <4>2. s[j] = v
        BY <1>15, <4>1
      <4> QED
        BY <1>17, <2>1, <4>1, <4>2
    <3> QED
      BY <3>1, <3>2
  <2> QED
    BY <1>16, <1>18, <2>1, <2>2
<1>20. Listed(S) \subseteq good /\ \A f \in Listed(S) : Facts[f].version \in newest
  <2> HIDE DEF good, newest, of
  <2>1. ASSUME NEW f \in Listed(S) PROVE f \in good /\ Facts[f].version \in newest
    <3>1. PICK i \in 1..m : f = S[i]
      BY <1>18
    <3> QED
      BY <1>14, <1>15, <3>1
  <2> QED
    BY <2>1
<1>21. Selection(Listed(S), doc)
  BY <1>19, <1>20 DEF Selection
<1> QED
  BY <1>9, <1>21

-----------------------------------------------------------------------------
(* The invariant.                                                          *)

LEMMA HandlerStep ==
  ASSUME IInv, NEW c \in Clients, Handler(c)
  PROVE  IInv'
<1> USE DEF IInv, PypiInductive
<1>1. ASSUME NEW p \in Projects, ServeSimple(c, p) PROVE IInv'
  BY PypiAssumption, <1>1 DEF ServeSimple, Turn, PypiType, PrefetchesAsked, Provenance
<1>2. CASE AskNext(c)
  <2>1. client[c].pc = "ask" => client[c].project \in Projects
    BY DEF Provenance
  <2> QED
    BY PypiAssumption, <1>2, <2>1 DEF AskNext, Turn, PypiType, PrefetchesAsked, Provenance, NoRequest
<1>3. CASE Page(c)
  <2>1. signed' \subseteq Files
    BY PypiAssumption, <1>3 DEF Page, PypiType, Listed
  <2> QED
    BY PypiAssumption, <1>3, <2>1 DEF Page, Turn, PypiType, PrefetchesAsked, Provenance, NoRequest
<1>4. ASSUME NEW f \in Files, ServeArtifact(c, f) PROVE IInv'
  BY PypiAssumption, <1>4 DEF ServeArtifact, Turn, PypiType, PrefetchesAsked, Provenance
<1>5. CASE WatchPackage(c)
  <2>1. client[c].project \in asked /\ asked \subseteq Projects
    BY <1>5 DEF WatchPackage, Turn, Provenance, PypiType
  <2>2. watch' \in [Projects -> ProjectWatch]
    BY PypiAssumption, <1>5, <2>1 DEF WatchPackage, PypiType, ProjectWatch, LongAgo
  <2>3. \A p \in Projects : watch'[p].on => p \in asked
    BY <1>5, <2>1 DEF WatchPackage, Provenance, PypiType
  <2> QED
    BY PypiAssumption, <1>5, <2>2, <2>3
      DEF WatchPackage, Turn, PypiType, PrefetchesAsked, Provenance, NoRequest
<1>6. CASE WatchFails(c)
  BY PypiAssumption, <1>6 DEF WatchFails, Turn, PypiType, PrefetchesAsked, Provenance, NoRequest
<1> QED
  BY <1>1, <1>2, <1>3, <1>4, <1>5, <1>6 DEF Handler

\* Deleting inactive watches leaves a part of the table.
LEMMA ExpireStep ==
  ASSUME IInv, Expire
  PROVE  /\ watch' \in [Projects -> ProjectWatch]
         /\ \A p \in Projects : watch'[p].on => p \in asked
BY DEF IInv, PypiInductive, Expire, PypiType, Provenance, NoWatch, ProjectWatch

Stamped ==
  /\ watch' \in [Projects -> ProjectWatch]
  /\ \A p \in Projects : watch'[p].on => p \in asked

\* A step of the worker keeps the invariant when what it becomes is in order.
LEMMA WorkStep ==
  ASSUME IInv, Stamped, Aside, worker' \in WorkerType,
         \A e \in worker'.todo : e.project \in asked,
         worker'.pc \in {"ask", "fetch"} => worker'.project \in asked,
         worker'.pc = "fetch" => worker'.doc # {},
         \A f \in Listed(worker'.wanted) : Unyanked(f) /\ Facts[f].project \in asked,
         begun' \subseteq begun \cup (Listed(worker.wanted) \cap Files)
  PROVE  IInv'
BY DEF IInv, PypiInductive, Stamped, Aside, PypiType, PrefetchesAsked, Provenance

\* A worker that is between two projects has nothing in its hands.
LEMMA AsleepFacts ==
  /\ Asleep \in WorkerType /\ Asleep.todo = {} /\ Asleep.pc = "idle"
  /\ Listed(Asleep.wanted) = {}
<1>1. <<>> \in Seq(Files) /\ Listed(<<>>) = {}
  BY DEF Listed
<1>2. 0 \in 0..Backups
  BY PypiAssumption
<1> QED
  BY <1>1, <1>2 DEF Asleep, WorkerType

LEMMA InitHolds == PypiInit => IInv
<1> SUFFICES ASSUME PypiInit PROVE IInv
  OBVIOUS
<1>1. watch \in [Projects -> ProjectWatch] /\ \A p \in Projects : ~watch[p].on
  BY DEF PypiInit, NoWatch, ProjectWatch
<1>2. PypiType
  BY PypiAssumption, <1>1, AsleepFacts DEF PypiInit, PypiType, NoRequest
<1> QED
  BY <1>1, <1>2, AsleepFacts DEF PypiInit, IInv, PypiInductive, PrefetchesAsked, Provenance, NoRequest

LEMMA WorkerStep ==
  ASSUME IInv, Worker
  PROVE  IInv'
<1>0. /\ worker \in WorkerType /\ clock \in Nat /\ asked \subseteq Projects
      /\ watch \in [Projects -> ProjectWatch]
      /\ \A p \in Projects : watch[p].on => p \in asked
      /\ \A e \in worker.todo : e.project \in asked
      /\ worker.pc \in {"ask", "fetch"} => worker.project \in asked
      /\ worker.pc = "fetch" => worker.doc # {}
      /\ \A f \in Listed(worker.wanted) : Unyanked(f) /\ Facts[f].project \in asked
  BY PypiAssumption DEF IInv, PypiInductive, PypiType, Provenance
<1>1. CASE DeleteInactive
  <2>1. worker' = [Asleep EXCEPT !.pc = "due", !.began = clock]
    BY <1>1 DEF DeleteInactive, Work
  <2>2. /\ worker' \in WorkerType /\ worker'.todo = {} /\ worker'.pc = "due"
        /\ worker'.wanted = Asleep.wanted
    BY <1>0, <2>1, AsleepFacts DEF WorkerType
  <2>3. Stamped
    BY <1>1, ExpireStep DEF DeleteInactive, Stamped
  <2> QED
    BY <1>0, <1>1, <2>2, <2>3, AsleepFacts, WorkStep DEF DeleteInactive
<1>2. CASE WatchesDue
  <2> PICK due \in SUBSET {p \in Projects : watch[p].on} :
        worker' = [Asleep EXCEPT !.pc = "pick",
          !.todo = {[project |-> p, checked |-> watch[p].checked] : p \in due}]
    BY <1>2 DEF WatchesDue, Work
  <2> DEFINE todo == {[project |-> p, checked |-> watch[p].checked] : p \in due}
  <2>1. /\ todo \in SUBSET [project : Projects, checked : Int]
        /\ \A e \in todo : e.project \in asked
    BY <1>0 DEF ProjectWatch
  <2>2. worker' = [Asleep EXCEPT !.pc = "pick", !.todo = todo]
    OBVIOUS
  <2> HIDE DEF todo
  <2>3. /\ worker' \in WorkerType /\ worker'.todo = todo /\ worker'.pc = "pick"
        /\ worker'.wanted = Asleep.wanted
    BY <2>1, <2>2, AsleepFacts DEF WorkerType
  <2> QED
    BY <1>0, <1>2, <2>1, <2>3, AsleepFacts, WorkStep DEF WatchesDue, Stamped
<1>3. CASE Pick
  <2> PICK e \in worker.todo :
        worker' = [Asleep EXCEPT !.pc = "ask", !.todo = worker.todo \ {e},
                                 !.project = e.project]
    BY <1>3 DEF Pick, Work
  <2>1. /\ worker.todo \ {e} \in SUBSET [project : Projects, checked : Int]
        /\ e.project \in Projects
    BY <1>0 DEF WorkerType
  <2>2. /\ worker' \in WorkerType /\ worker'.todo = worker.todo \ {e} /\ worker'.pc = "ask"
        /\ worker'.project = e.project /\ worker'.wanted = Asleep.wanted
    BY <2>1, AsleepFacts DEF WorkerType
  <2> QED
    BY <1>0, <1>3, <2>2, AsleepFacts, WorkStep DEF Pick, Stamped
<1>4. ASSUME \/ worker' = [Asleep EXCEPT !.pc = "pick", !.todo = worker.todo]
             \/ worker' = Asleep,
             Aside, Stamped, begun' = begun
      PROVE  IInv'
  <2>1. worker.todo \in SUBSET [project : Projects, checked : Int]
    BY <1>0 DEF WorkerType
  <2>2. /\ worker' \in WorkerType /\ worker'.todo \subseteq worker.todo
        /\ worker'.pc \in {"idle", "pick"} /\ worker'.wanted = Asleep.wanted
    BY <1>4, <2>1, AsleepFacts DEF WorkerType
  <2> QED
    BY <1>0, <1>4, <2>2, AsleepFacts, WorkStep
<1>5. CASE ProjectNext
  <2>1. CASE worker' = [worker EXCEPT !.base = worker.base + 1] /\ worker.base < Backups
    <3>1. /\ worker' \in WorkerType /\ worker'.todo = worker.todo /\ worker'.pc = worker.pc
          /\ worker'.project = worker.project /\ worker'.wanted = worker.wanted
          /\ worker'.doc = worker.doc
      <4>1. worker \in WorkerType /\ Backups \in Nat
        BY <1>0, PypiAssumption
      <4>2. worker.base + 1 \in 0..Backups
        <5>1. worker.base \in 0..Backups
          BY ONLY <4>1 DEF WorkerType
        <5> QED
          BY ONLY <2>1, <4>1, <5>1
      <4> QED
        BY ONLY <2>1, <4>1, <4>2 DEF WorkerType
    <3> QED
      BY <1>0, <1>5, <3>1, WorkStep DEF ProjectNext, Stamped
  <2>2. CASE worker' = [Asleep EXCEPT !.pc = "pick", !.todo = worker.todo]
    BY <1>0, <1>4, <1>5, <2>2 DEF ProjectNext, Stamped
  <2> QED
    BY <1>5, <2>1, <2>2 DEF ProjectNext, Work
<1>6. CASE ProjectRefused \/ PassEnds
  BY <1>0, <1>4, <1>6 DEF ProjectRefused, PassEnds, Work, Stamped
<1>7. CASE ProjectListed
  <2> PICK doc \in Documents :
        /\ \A f \in Listed(doc) : Facts[f].project = worker.project
        /\ \E files \in SelectReleaseFiles(doc) :
             worker' = [worker EXCEPT !.pc = "fetch", !.doc = {doc}, !.wanted = files]
    BY <1>7 DEF ProjectListed
  <2> PICK files \in SelectReleaseFiles(doc) :
        worker' = [worker EXCEPT !.pc = "fetch", !.doc = {doc}, !.wanted = files]
    OBVIOUS
  <2>0. worker.pc = "ask"
    BY <1>7 DEF ProjectListed
  <2>1. doc \in Seq(Files)
    BY PypiAssumption
  <2>2. /\ files \in Seq(Files)
        /\ \A f \in Listed(files) : Unyanked(f) /\ Facts[f].project \in asked
    BY <1>0, <2>0, <2>1, Selected
  <2>3. /\ worker' \in WorkerType /\ worker'.todo = worker.todo
        /\ worker'.project = worker.project /\ worker'.wanted = files /\ worker'.doc # {}
    BY <1>0, <2>1, <2>2 DEF WorkerType
  <2> QED
    BY <1>0, <1>7, <2>2, <2>3, WorkStep DEF ProjectListed, Stamped
<1>8. CASE PrefetchURL
  <2>1. /\ worker.wanted \in Seq(Files) /\ worker.wanted # <<>>
        /\ worker' = [worker EXCEPT !.wanted = Tail(worker.wanted)]
        /\ begun' = begun \cup {Head(worker.wanted)}
    BY <1>0, <1>8 DEF PrefetchURL, Work, WorkerType
  <2>2. /\ Head(worker.wanted) \in Listed(worker.wanted) /\ Tail(worker.wanted) \in Seq(Files)
        /\ Listed(Tail(worker.wanted)) \subseteq Listed(worker.wanted)
        /\ Listed(worker.wanted) \subseteq Files
    BY <2>1 DEF Listed
  <2>3. /\ worker' \in WorkerType /\ worker'.todo = worker.todo /\ worker'.pc = worker.pc
        /\ worker'.project = worker.project /\ worker'.wanted = Tail(worker.wanted)
        /\ worker'.doc = worker.doc
    BY <1>0, <2>1, <2>2 DEF WorkerType
  <2> QED
    BY <1>0, <1>8, <2>1, <2>2, <2>3, WorkStep DEF PrefetchURL, Stamped
<1>9. CASE CheckedPackageWatch
  <2>1. Stamped
    <3>1. CASE watch' = watch
      BY <1>0, <3>1 DEF Stamped
    <3>2. CASE watch' = [watch EXCEPT ![worker.project].checked = clock] /\ Aside
      <4>1. \A p \in Projects : [watch[p] EXCEPT !.checked = clock] \in ProjectWatch
        BY <1>0 DEF ProjectWatch
      <4>2. \A p \in Projects : \/ watch'[p] = watch[p]
                               \/ watch'[p] = [watch[p] EXCEPT !.checked = clock]
        BY <1>0, <3>2
      <4>3. \A p \in Projects : watch'[p].on = watch[p].on
        BY <1>0, <4>2 DEF ProjectWatch
      <4> QED
        BY <1>0, <3>2, <4>1, <4>2, <4>3 DEF Stamped, Aside
    <3> QED
      BY <1>9, <3>1, <3>2 DEF CheckedPackageWatch
  <2> QED
    BY <1>4, <1>9, <2>1 DEF CheckedPackageWatch, Work
<1> QED
  BY <1>1, <1>2, <1>3, <1>5, <1>6, <1>7, <1>8, <1>9 DEF Worker

LEMMA InvariantHolds == PypiSpec => []IInv
<1>1. PypiInit => IInv
  BY InitHolds
<1>2. IInv /\ [PypiNext]_pypiVars => IInv'
  <2> SUFFICES ASSUME IInv, [PypiNext]_pypiVars PROVE IInv'
    OBVIOUS
  <2>1. CASE \E c \in Clients : Handler(c)
    BY <2>1, HandlerStep
  <2>2. CASE Worker
    BY <2>2, WorkerStep
  <2>3. CASE DeleteElsewhere
    BY <2>3, ExpireStep
      DEF DeleteElsewhere, Aside, IInv, PypiInductive, PypiType, PrefetchesAsked, Provenance
  <2>4. CASE ClockTick
    BY PypiAssumption, <2>4 DEF ClockTick, IInv, PypiInductive, PypiType, PrefetchesAsked, Provenance
  <2>5. CASE Restart
    BY PypiAssumption, <2>5, AsleepFacts
      DEF Restart, IInv, PypiInductive, PypiType, PrefetchesAsked, Provenance, NoRequest
  <2>6. CASE UNCHANGED pypiVars
    BY <2>6 DEF pypiVars, IInv, PypiInductive, PypiType, PrefetchesAsked, Provenance
  <2> QED
    BY <2>1, <2>2, <2>3, <2>4, <2>5, <2>6 DEF PypiNext
<1> QED
  BY <1>1, <1>2, PTL DEF PypiSpec

\* The variables keep their types.
THEOREM TypeCorrect == PypiSpec => []PypiType
BY InvariantHolds, PTL DEF IInv, PypiInductive

\* What handlers, table and worker carry is of projects that somebody asked for.
THEOREM InductiveInvariant == PypiSpec => []PypiInductive
BY InvariantHolds, PTL DEF IInv

\* Nothing is prefetched that was yanked, or of a project of which nobody has
\* requested a cached artifact by a verified link: an index page is no request.
THEOREM PrefetchesOnlyAsked == PypiSpec => []PrefetchesAsked
BY InvariantHolds, PTL DEF IInv

\* However Go goes through the releases, a document leads to one selection: one
\* file of each of the newest, none of them yanked.
THEOREM SelectsNewest == PypiSpec => []ReleasesExact
<1>1. PypiType => ReleasesExact
  <2> SUFFICES ASSUME PypiType, NEW doc \in worker.doc
               PROVE  /\ Cardinality(SelectReleaseFiles(doc)) = 1
                      /\ \A S \in SelectReleaseFiles(doc) : Selection(Listed(S), doc)
    BY DEF ReleasesExact
  <2>1. doc \in Seq(Files)
    BY DEF PypiType, WorkerType
  <2>2. PICK S : SelectReleaseFiles(doc) = {S} /\ Selection(Listed(S), doc)
    BY <2>1, SelectionOfDocument
  <2> QED
    BY <2>2, FS_Singleton
<1> QED
  BY <1>1, TypeCorrect, PTL

\* A watch counts as checked only when an upstream has listed its project.
THEOREM ChecksWhenListed == PypiSpec => CheckedWhenListed
<1> DEFINE A == \A p \in Projects :
                  watch[p].on /\ watch'[p].on /\ watch'[p].checked # watch[p].checked
                    => worker.project = p /\ worker.doc # {}
<1>1. IInv /\ [PypiNext]_pypiVars => [A]_pypiVars
  <2> SUFFICES ASSUME IInv, PypiNext, NEW p \in Projects, watch[p].on, watch'[p].on,
                      watch'[p].checked # watch[p].checked
               PROVE  worker.project = p /\ worker.doc # {}
    OBVIOUS
  <2>0. watch \in [Projects -> ProjectWatch]
    BY DEF IInv, PypiInductive, PypiType
  <2>1. ~Expire
    BY DEF Expire, NoWatch
  <2>2. ASSUME NEW c \in Clients, WatchPackage(c) PROVE FALSE
    <3>1. watch'[p] = watch[p] \/ (p = client[c].project /\ watch'[p].checked = watch[p].checked)
      BY <2>0, <2>2 DEF WatchPackage
    <3> QED
      BY <3>1
  <2>3. CASE CheckedPackageWatch
    <3>1. worker.pc = "fetch" /\ p = worker.project
      BY <2>0, <2>3 DEF CheckedPackageWatch, Work
    <3> QED
      BY <3>1 DEF IInv, PypiInductive, Provenance
  <2>4. CASE watch' = watch
    BY <2>4
  <2> QED
    BY <2>1, <2>2, <2>3, <2>4
      DEF PypiNext, Handler, ServeSimple, AskNext, Page, ServeArtifact, WatchFails, Worker,
          DeleteInactive, WatchesDue, Pick, ProjectNext, ProjectRefused, ProjectListed,
          PrefetchURL, PassEnds, DeleteElsewhere, ClockTick, Restart, Aside
<1>2. PypiSpec => [][A]_pypiVars
  BY <1>1, InvariantHolds, PTL DEF PypiSpec
<1> QED
  BY <1>2 DEF CheckedWhenListed
=============================================================================
