------------------------------ MODULE Catalog ------------------------------
(***************************************************************************)
(* The package catalog of one upstream of the APT or APK backend: the      *)
(* handlers that record the indexes and the requests of clients, and the   *)
(* worker that prefetches new versions of the packages they use.           *)
(*                                                                         *)
(* The two backends differ in the word for "any architecture" and in that  *)
(* APK has one index.  A version is its rank: distinct versions compare    *)
(* unequal.  Cached indexes and prefetched artifacts are module Cache's.   *)
(***************************************************************************)
EXTENDS Integers, FiniteSets, Sequences

CONSTANTS
  Indexes,    \* the paths of the package indexes
  Packages,
  Artifacts,  \* artifact paths
  About,      \* what an index says of each: package, version, arch
  AnyArch,    \* the architecture "all" of APT, "noarch" of APK
  Editions,   \* the contents an index may have: sets of artifacts
  Clients,    \* the requests under way at one time
  Limit,      \* lifecycle.prefetch_versions
  Retention,  \* lifecycle.inactivity_ttl
  Interval,   \* lifecycle.watch_interval
  MaxTime     \* the clock stops here

Archs    == {About[a].arch : a \in Artifacts}
Versions == {About[a].version : a \in Artifacts}

ASSUME CatalogAssumption ==
  /\ \A a \in Artifacts : /\ About[a].package \in Packages
                          /\ About[a].version \in Nat
  /\ Editions \subseteq SUBSET Artifacts
  /\ Limit \in Nat \ {0} /\ Retention \in Nat /\ Interval \in Nat /\ MaxTime \in Nat
  /\ "none" \notin Indexes

ASSUME ArtifactsAssumption == IsFiniteSet(Artifacts) /\ AnyArch # ""

VARIABLES
  now,     \* time.Now().Unix()
  row,     \* the catalog: the index_path of each artifact's row, or "none"
  watch,   \* package_watches, by package
  client,  \* the handlers after their response
  worker,  \* the prefetch worker
  listed,  \* auxiliary: what the last replacement by an index listed
  asked,   \* auxiliary: the architectures that clients asked for, by package
  begun    \* auxiliary: the artifacts given to Prefetch

vars == <<now, row, watch, client, worker, listed, asked, begun>>

NoWatch == [on |-> FALSE, variant |-> "", requested |-> 0, checked |-> 0]
Idle    == [pc |-> "idle", index |-> "none", list |-> {}, artifact |-> "none"]
Asleep  == [pc |-> "idle", began |-> 0, todo |-> {}, at |-> "none", wanted |-> {}]

\* last_checked_at of a watch that was never checked: 1970, as it were.
LongAgo == -1 - Interval

-----------------------------------------------------------------------------
(* selectRecords: as the code has it, and what it amounts to.              *)

LastWins(a, prior, arch) == TRUE

ReplacesPrior(a, prior, arch) ==
  About[prior].arch = AnyArch /\ About[a].arch = arch

CompatibleWithAll(a, arch) == TRUE

Compatible(a, arch) == arch = "" \/ About[a].arch \in {arch, AnyArch}

\* A turn of the loop; a version without an entry maps to no artifact.
Merge(map, a, arch) ==
  LET v == About[a].version IN
  IF Compatible(a, arch) /\ \A prior \in map[v] : ReplacesPrior(a, prior, arch)
  THEN [map EXCEPT ![v] = {a}] ELSE map

\* byVersion after the loop over the rows in the order the query gave them.
ByVersion(rows, arch) ==
  LET map[n \in 0..Len(rows)] ==
        IF n = 0 THEN [v \in Versions |-> {}] ELSE Merge(map[n - 1], rows[n], arch)
  IN map[Len(rows)]

\* The sort by version, newest first, and the cut.
Newest(vs) == {v \in vs : Cardinality({w \in vs : w > v}) < Limit}

SelectRecords(rows, arch) ==
  LET map == ByVersion(rows, arch)
  IN UNION {map[v] : v \in Newest({w \in Versions : map[w] # {}})}

\* S is a result of selectRecords for the rows R in some order: one artifact
\* for each of the newest compatible versions, one of the very architecture
\* where there is one.
Selection(S, R, arch) ==
  LET fit     == {a \in R : Compatible(a, arch)}
      best(v) == {a \in fit : About[a].version = v}
      newest  == Newest({About[a].version : a \in fit})
  IN /\ S \subseteq fit
     /\ \A a \in S : About[a].version \in newest
     /\ \A v \in newest : \E a \in S \cap best(v) :
          /\ S \cap best(v) = {a}
          /\ (\E b \in best(v) : About[b].arch = arch)
               => About[a].arch = arch \/ About[a].arch # AnyArch

\* The orders in which a query may return the rows R.
Enumerations(R) ==
  {rows \in [1..Cardinality(R) -> R] : \A a \in R : \E i \in 1..Cardinality(R) : rows[i] = a}

-----------------------------------------------------------------------------
(* The handlers, after their response.                                     *)

Turn(c, from, fields) ==
  client[c].pc = from /\ client' = [client EXCEPT ![c] = fields]

\* catalogIndex reads the index from the cache, which has an edition of it that
\* was published at some time; if it cannot, nothing more happens.
OpenCached(c, i) ==
  /\ \E list \in Editions :
       Turn(c, "idle", [Idle EXCEPT !.pc = "replace", !.index = i, !.list = list])
  /\ UNCHANGED <<now, row, watch, worker, listed, asked, begun>>

UpsertOnly(c) ==
  LET i == client[c].index IN
  /\ Turn(c, "replace", Idle)
  /\ row' = [a \in Artifacts |-> IF a \in client[c].list THEN i ELSE row[a]]
  /\ listed' = [listed EXCEPT ![i] = client[c].list]
  /\ UNCHANGED <<now, watch, worker, asked, begun>>

\* ReplaceAPTCatalog, ReplaceAPKCatalog: one transaction deletes the rows of
\* the index and upserts its records, taking over the rows of other indexes.
ReplaceCatalog(c) ==
  LET i == client[c].index IN
  /\ Turn(c, "replace", Idle)
  /\ row' = [a \in Artifacts |-> IF a \in client[c].list THEN i
                                 ELSE IF row[a] = i THEN "none" ELSE row[a]]
  /\ listed' = [listed EXCEPT ![i] = client[c].list]
  /\ UNCHANGED <<now, watch, worker, asked, begun>>

\* The transaction is rolled back, or a statement fails; the error is dropped.
StoreFails(c) ==
  /\ Turn(c, "replace", Idle) \/ Turn(c, "watch", Idle)
  /\ UNCHANGED <<now, row, watch, worker, listed, asked, begun>>

\* An artifact was served and is cached: its row is looked up ...
RecordForArtifact(c, a) ==
  /\ row[a] # "none"
  /\ Turn(c, "idle", [Idle EXCEPT !.pc = "watch", !.artifact = a])
  /\ asked' = [asked EXCEPT ![About[a].package] = @ \cup {About[a].arch}]
  /\ UNCHANGED <<now, row, watch, worker, listed, begun>>

\* ... and its package is watched: an upsert that keeps last_checked_at.  The
\* key has no variant, so the last architecture asked for is the one kept.
WatchPackageVariant(c) ==
  LET p    == About[client[c].artifact].package
      arch == About[client[c].artifact].arch
  IN /\ Turn(c, "watch", Idle)
     /\ watch' = [watch EXCEPT ![p] =
          [on |-> TRUE, variant |-> arch, requested |-> now,
           checked |-> IF watch[p].on THEN watch[p].checked ELSE LongAgo]]
     /\ UNCHANGED <<now, row, worker, listed, asked, begun>>

Handler(c) ==
  \/ (\E i \in Indexes : OpenCached(c, i)) \/ ReplaceCatalog(c) \/ StoreFails(c)
  \/ (\E a \in Artifacts : RecordForArtifact(c, a)) \/ WatchPackageVariant(c)

-----------------------------------------------------------------------------
(* The prefetch worker.                                                    *)

Work(from, fields) == worker.pc = from /\ worker' = fields

Aside == UNCHANGED <<now, row, client, listed, asked>>

\* DeleteInactivePackageWatches, whose statement names no backend.
Expire ==
  watch' = [p \in Packages |-> IF watch[p].requested < now - Retention
                               THEN NoWatch ELSE watch[p]]

DeleteInactive ==
  /\ Expire
  /\ Work("idle", [Asleep EXCEPT !.pc = "due", !.began = now])
  /\ Aside /\ UNCHANGED begun

\* ... so the workers of the other backends run it as well, at any time.
DeleteElsewhere ==
  /\ Expire /\ watch' # watch
  /\ Aside /\ UNCHANGED <<worker, begun>>

WatchesDue ==
  LET due == {p \in Packages : /\ watch[p].on
                               /\ watch[p].requested >= worker.began - Retention
                               /\ watch[p].checked < worker.began - Interval}
  IN /\ Work("due", [Asleep EXCEPT !.pc = "pick",
            !.todo = {[package |-> p, variant |-> watch[p].variant,
                       checked |-> watch[p].checked] : p \in due}])
     /\ Aside /\ UNCHANGED <<watch, begun>>

Rows(p) == {a \in Artifacts : row[a] # "none" /\ About[a].package = p}

SelectUnfiltered ==
  /\ \E e \in worker.todo :
       Work("pick", [worker EXCEPT !.pc = "fetch", !.todo = @ \ {e},
                                   !.at = e.package, !.wanted = Rows(e.package)])
  /\ Aside /\ UNCHANGED <<watch, begun>>

\* APTRecords and selectRecords, with the variant that was listed.
Select ==
  /\ \E e \in worker.todo : \E S \in SUBSET Rows(e.package) :
       /\ \A f \in worker.todo : e.checked <= f.checked
       /\ Selection(S, Rows(e.package), e.variant)
       /\ Work("pick", [worker EXCEPT !.pc = "fetch", !.todo = @ \ {e},
                                      !.at = e.package, !.wanted = S])
  /\ Aside /\ UNCHANGED <<watch, begun>>

\* The query fails: the watch is passed over and stays due.
RecordsFail ==
  /\ \E e \in worker.todo :
       /\ \A f \in worker.todo : e.checked <= f.checked
       /\ Work("pick", [worker EXCEPT !.todo = @ \ {e}])
  /\ Aside /\ UNCHANGED <<watch, begun>>

\* Manager.Prefetch, whose error is dropped; the newest goes first.
Prefetch ==
  /\ \E a \in worker.wanted :
       /\ \A b \in worker.wanted : About[b].version <= About[a].version
       /\ Work("fetch", [worker EXCEPT !.wanted = @ \ {a}])
       /\ begun' = begun \cup {a}
  /\ Aside /\ UNCHANGED watch

CheckedOrAdded ==
  LET p == worker.at IN
  /\ worker.wanted = {}
  /\ Work("fetch", [worker EXCEPT !.pc = "pick", !.at = "none"])
  /\ watch' = [watch EXCEPT ![p] = [@ EXCEPT !.on = TRUE, !.checked = now]]
  /\ Aside /\ UNCHANGED begun

\* CheckedPackageWatch; its error ends the pass.
CheckedPackageWatch ==
  LET p == worker.at IN
  /\ worker.wanted = {}
  /\ \/ /\ Work("fetch", [worker EXCEPT !.pc = "pick", !.at = "none"])
        /\ watch' = IF watch[p].on THEN [watch EXCEPT ![p].checked = now] ELSE watch
     \/ Work("fetch", Asleep) /\ UNCHANGED watch
  /\ Aside /\ UNCHANGED begun

\* All is done, or PackageWatchesDue failed.
PassEnds ==
  /\ \/ Work("pick", Asleep) /\ worker.todo = {}
     \/ Work("due", Asleep)
  /\ Aside /\ UNCHANGED <<watch, begun>>

Worker ==
  \/ DeleteInactive \/ WatchesDue \/ Select \/ RecordsFail \/ Prefetch
  \/ CheckedPackageWatch \/ PassEnds

-----------------------------------------------------------------------------
(* The world around, and the specification.                                *)

Tick ==
  /\ now < MaxTime /\ now' = now + 1
  /\ UNCHANGED <<row, watch, client, worker, listed, asked, begun>>

\* The process dies and starts again: the tables remain.
Crash ==
  /\ client' = [c \in Clients |-> Idle] /\ worker' = Asleep
  /\ UNCHANGED <<now, row, watch, listed, asked, begun>>

Init ==
  /\ now = 0
  /\ row = [a \in Artifacts |-> "none"] /\ watch = [p \in Packages |-> NoWatch]
  /\ client = [c \in Clients |-> Idle] /\ worker = Asleep
  /\ listed = [i \in Indexes |-> {}] /\ asked = [p \in Packages |-> {}] /\ begun = {}

Next ==
  \/ (\E c \in Clients : Handler(c)) \/ Worker
  \/ DeleteElsewhere \/ Tick \/ Crash

Spec == Init /\ [][Next]_vars

-----------------------------------------------------------------------------
(* Properties.                                                             *)

WatchType == [on : BOOLEAN, variant : Archs \cup {""}, requested : Nat, checked : Int]

TableType ==
  /\ now \in 0..MaxTime
  /\ row \in [Artifacts -> Indexes \cup {"none"}]
  /\ watch \in [Packages -> WatchType]
  /\ listed \in [Indexes -> SUBSET Artifacts]
  /\ asked \in [Packages -> SUBSET Archs] /\ begun \subseteq Artifacts

ActorType ==
  /\ client \in [Clients -> [pc : {"idle", "replace", "watch"}, index : Indexes \cup {"none"},
                             list : SUBSET Artifacts, artifact : Artifacts \cup {"none"}]]
  /\ worker \in [pc : {"idle", "due", "pick", "fetch"}, began : Nat,
                 todo : SUBSET [package : Packages, variant : Archs \cup {""}, checked : Int],
                 at : Packages \cup {"none"}, wanted : SUBSET Artifacts]

TypeOK == TableType /\ ActorType

\* However the indexes overwrite each other's rows: a row that names an index
\* is of an artifact that this index listed when it was last recorded.
RowsListed == \A a \in Artifacts : row[a] # "none" => a \in listed[row[a]]

\* README.md:96-104: nothing is prefetched for an architecture that no client of
\* the package asked for, although variants overwrite each other and the worker
\* goes by a list that is out of date.
OnlyRequested ==
  \A a \in begun : \E arch \in asked[About[a].package] :
    arch = "" \/ About[a].arch \in {arch, AnyArch}

\* selectRecords yields for a listed watch, over the orders the query may give
\* its rows, just what Selection describes: the newest compatible versions, one
\* artifact each, of the very architecture before any.
SelectionExact ==
  \A e \in worker.todo :
    {SelectRecords(rows, e.variant) : rows \in Enumerations(Rows(e.package))}
      = {S \in SUBSET Rows(e.package) : Selection(S, Rows(e.package), e.variant)}

\* Only a request brings a watch into being: one that some worker deleted, while
\* this one was fetching what it listed for it, does not come back with its stamp.
WatchedByRequest ==
  [][\A p \in Packages : ~watch[p].on /\ watch'[p].on =>
       \E c \in Clients : /\ client[c].pc = "watch" /\ client'[c].pc = "idle"
                         /\ About[client[c].artifact].package = p]_vars

(* The inductive invariant behind the safety properties.                   *)

\* A handler that is about to write has an index, or an artifact that counts
\* as asked for.
Handling ==
  \A c \in Clients :
    /\ client[c].pc = "replace" => client[c].index \in Indexes
    /\ client[c].pc = "watch" =>
         LET a == client[c].artifact
         IN a \in Artifacts /\ About[a].arch \in asked[About[a].package]

\* Variants have been asked for, in the table and in the worker's list, and
\* what the worker wants fits one.
Wanted ==
  /\ \A p \in Packages : watch[p].on => watch[p].variant \in asked[p]
  /\ \A e \in worker.todo : e.variant \in asked[e.package]
  /\ \A a \in worker.wanted : \E arch \in asked[About[a].package] :
       arch = "" \/ About[a].arch \in {arch, AnyArch}
  /\ worker.pc = "fetch" => worker.at \in Packages

Inductive == TypeOK /\ Handling /\ Wanted /\ RowsListed /\ OnlyRequested
=============================================================================
