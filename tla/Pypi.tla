-------------------------------- MODULE Pypi --------------------------------
(***************************************************************************)
(* One upstream of the PyPI backend: project pages whose links are signed, *)
(* artifacts that are requested through them, and the worker that          *)
(* prefetches recent releases of the projects in use.  Pages and project   *)
(* lists come from the primary, or from a backup while those before fail.  *)
(*                                                                         *)
(* Artifacts in the cache are module Cache's, the key that signs links is  *)
(* module Server's.                                                        *)
(***************************************************************************)
EXTENDS Integers, FiniteSets, Sequences

CONSTANTS
  Projects,
  Files,      \* release files
  Facts,      \* of each: project, version, sort, yanked, uploaded
  Documents,  \* what an upstream may list for a project: sequences of files
  Backups,    \* the number of backup URLs
  Clients,    \* the requests under way at one time
  Limit,      \* lifecycle.prefetch_versions
  Retention,  \* lifecycle.inactivity_ttl
  Interval,   \* lifecycle.watch_interval
  LastTime     \* the clock stops here

Listed(doc) == {doc[i] : i \in DOMAIN doc}

ASSUME PypiAssumption ==
  /\ \A f \in Files : /\ Facts[f].project \in Projects /\ Facts[f].version \in Nat
                      /\ Facts[f].uploaded \in Nat
  /\ Documents \subseteq Seq(Files)
  /\ Backups \in Nat /\ Retention \in Nat /\ Interval \in Nat /\ LastTime \in Nat
  /\ Limit \in Nat \ {0} /\ "none" \notin Projects /\ "none" \notin Files

VARIABLES
  clock,   \* time.Now().Unix()
  watch,   \* package_watches of this backend, by project; the variant is empty
  client,  \* the handlers of requests
  worker,  \* the prefetch worker
  signed,  \* auxiliary: the files whose signed links clients hold
  asked,   \* auxiliary: the projects of which an artifact was requested by such a
           \* link and was in the cache thereafter
  begun    \* auxiliary: the files given to PrefetchURL

pypiVars == <<clock, watch, client, worker, signed, asked, begun>>

NoWatch == [on |-> FALSE, requested |-> 0, checked |-> 0]
NoRequest    == [pc |-> "idle", project |-> "none", base |-> 0]
Asleep  == [pc |-> "idle", began |-> 0, todo |-> {}, project |-> "none", base |-> 0,
            doc |-> {}, wanted |-> <<>>]

\* last_checked_at of a watch that was never checked: 1970, as it were.
LongAgo == -1 - Interval

-----------------------------------------------------------------------------
(* selectReleaseFiles: as the code has it, and what it amounts to.         *)

Unyanked(f) == ~Facts[f].yanked

\* Where the document has the usable files of a release.
Release(doc, v) == {i \in DOMAIN doc : Facts[doc[i]].version = v /\ Unyanked(doc[i])}

Available(doc) == {Facts[doc[i]].version : i \in {j \in DOMAIN doc : Unyanked(doc[j])}}

\* The time of a release is that of its latest file; 0 is one without a time.
Time(doc, v) ==
  CHOOSE t \in {Facts[doc[i]].uploaded : i \in Release(doc, v)} :
    \A i \in Release(doc, v) : Facts[doc[i]].uploaded <= t

\* A sort that leaves releases of one time as they come.
ByTime(doc, v, w) == Time(doc, v) > Time(doc, w)

\* What sort.Slice is given; a version is its rank among strings.
Before(doc, v, w) ==
  \/ Time(doc, v) > Time(doc, w)
  \/ Time(doc, v) = Time(doc, w) /\ v > w

Foremost(I) == {i \in I : \A j \in I : i <= j}

\* preferredFile: the first wheel for any platform, or the first source
\* distribution, or the first file.
Preferred(doc, v) ==
  LET of(sort) == {i \in Release(doc, v) : Facts[doc[i]].sort = sort}
  IN IF of("universal") # {} THEN Foremost(of("universal"))
     ELSE IF of("sdist") # {} THEN Foremost(of("sdist"))
     ELSE Foremost(Release(doc, v))

\* What may come of a document, in whatever order Go goes through the map of its
\* releases and sort.Slice leaves those that are not ordered.
SelectReleaseFiles(doc) ==
  LET n == Cardinality(Available(doc))
      sorted == {s \in [1..n -> Available(doc)] :
                   \A i, j \in 1..n : i < j => s[i] # s[j] /\ ~Before(doc, s[j], s[i])}
  IN UNION {{files \in [1..(IF n > Limit THEN Limit ELSE n) -> Listed(doc)] :
               \A i \in DOMAIN files : \E k \in Preferred(doc, s[i]) : files[i] = doc[k]} :
             s \in sorted}

\* The files S of a selection: one of each of the newest releases, and none of
\* them that yields to another of its release.
Rank(f) == CASE Facts[f].sort = "universal" -> 2 [] Facts[f].sort = "sdist" -> 1 [] OTHER -> 0

Selection(S, doc) ==
  LET good    == {f \in Listed(doc) : ~Facts[f].yanked}
      of(v)   == {f \in good : Facts[f].version = v}
      all     == {Facts[f].version : f \in good}
      late(v, w)  == \E f \in of(v) : \A g \in of(w) : Facts[f].uploaded >= Facts[g].uploaded
      ahead(v, w) == v # w /\ late(v, w) /\ (late(w, v) => v > w)
      newest  == {v \in all : Cardinality({w \in all : ahead(w, v)}) < Limit}
  IN /\ S \subseteq good /\ \A f \in S : Facts[f].version \in newest
     /\ \A v \in newest : \E f \in S : S \cap of(v) = {f} /\ \A g \in of(v) : Rank(g) <= Rank(f)

-----------------------------------------------------------------------------
(* The handlers.                                                           *)

Turn(c, from, fields) ==
  client[c].pc = from /\ client' = [client EXCEPT ![c] = fields]

\* A page that counts as a use of its project.
WatchOnPage(c, p) ==
  /\ Turn(c, "idle", [pc |-> "watch", project |-> p, base |-> 0])
  /\ UNCHANGED <<clock, watch, worker, signed, asked, begun>>

ServeSimple(c, p) ==
  /\ Turn(c, "idle", [pc |-> "ask", project |-> p, base |-> 0])
  /\ UNCHANGED <<clock, watch, worker, signed, asked, begun>>

\* fetchSimple: an error or a status of 500 and more leads to the next URL, and
\* after the last to a 502; ...
AskNext(c) ==
  /\ Turn(c, "ask", IF client[c].base < Backups THEN [client[c] EXCEPT !.base = @ + 1]
                    ELSE NoRequest)
  /\ UNCHANGED <<clock, watch, worker, signed, asked, begun>>

\* ... a page is rewritten with links of our own; any other status is a 502.
Page(c) ==
  /\ Turn(c, "ask", NoRequest)
  /\ \/ \E doc \in Documents :
          signed' = signed \cup {f \in Listed(doc) : Facts[f].project = client[c].project}
     \/ UNCHANGED signed
  /\ UNCHANGED <<clock, watch, worker, asked, begun>>

\* A link that verifies: ServeURL is over, however it ended, and Cached finds the
\* row of the artifact (if not, that is all) ...
ServeArtifact(c, f) ==
  /\ f \in signed
  /\ Turn(c, "idle", [pc |-> "watch", project |-> Facts[f].project, base |-> 0])
  /\ asked' = asked \cup {Facts[f].project}
  /\ UNCHANGED <<clock, watch, worker, signed, begun>>

\* ... so the project is watched: an upsert that keeps last_checked_at.
WatchPackage(c) ==
  LET p == client[c].project IN
  /\ Turn(c, "watch", NoRequest)
  /\ watch' = [watch EXCEPT ![p] =
       [on |-> TRUE, requested |-> clock,
        checked |-> IF watch[p].on THEN watch[p].checked ELSE LongAgo]]
  /\ UNCHANGED <<clock, worker, signed, asked, begun>>

\* The statement fails; the error is dropped.
WatchFails(c) ==
  /\ Turn(c, "watch", NoRequest)
  /\ UNCHANGED <<clock, watch, worker, signed, asked, begun>>

Handler(c) ==
  \/ (\E p \in Projects : ServeSimple(c, p)) \/ AskNext(c) \/ Page(c)
  \/ (\E f \in Files : ServeArtifact(c, f)) \/ WatchPackage(c) \/ WatchFails(c)

-----------------------------------------------------------------------------
(* The prefetch worker.                                                    *)

Work(from, fields) == worker.pc = from /\ worker' = fields

Aside == UNCHANGED <<clock, client, signed, asked>>

\* DeleteInactivePackageWatches.
Expire ==
  watch' = [p \in Projects |-> IF watch[p].requested < clock - Retention
                               THEN NoWatch ELSE watch[p]]

DeleteInactive ==
  /\ Expire
  /\ Work("idle", [Asleep EXCEPT !.pc = "due", !.began = clock])
  /\ Aside /\ UNCHANGED begun

\* The workers of the other backends do the same to the whole table.
DeleteElsewhere ==
  /\ Expire /\ watch' # watch
  /\ Aside /\ UNCHANGED <<worker, begun>>

WatchesDue ==
  LET due == {p \in Projects : /\ watch[p].on
                               /\ watch[p].requested >= worker.began - Retention
                               /\ watch[p].checked < worker.began - Interval}
  IN /\ Work("due", [Asleep EXCEPT !.pc = "pick",
            !.todo = {[project |-> p, checked |-> watch[p].checked] : p \in due}])
     /\ Aside /\ UNCHANGED <<watch, begun>>

\* The next watch, the one checked longest ago.
Pick ==
  /\ \E e \in worker.todo :
       /\ \A f \in worker.todo : e.checked <= f.checked
       /\ Work("pick", [Asleep EXCEPT !.pc = "ask", !.todo = worker.todo \ {e},
                                      !.project = e.project])
  /\ Aside /\ UNCHANGED <<watch, begun>>

\* A pass that takes the failure of every URL for a project without releases.
ProjectStampedAnyway ==
  /\ Work("ask", IF worker.base < Backups THEN [worker EXCEPT !.base = @ + 1]
                 ELSE [worker EXCEPT !.pc = "fetch"])
  /\ Aside /\ UNCHANGED <<watch, begun>>

\* fetchProject goes through the URLs like fetchSimple.  When all have failed
\* the project is passed over, and its watch stays due; ...
ProjectNext ==
  /\ Work("ask", IF worker.base < Backups THEN [worker EXCEPT !.base = @ + 1]
                 ELSE [Asleep EXCEPT !.pc = "pick", !.todo = worker.todo])
  /\ Aside /\ UNCHANGED <<watch, begun>>

\* ... and so it does on any other status but 200 and on what does not decode.
ProjectRefused ==
  /\ Work("ask", [Asleep EXCEPT !.pc = "pick", !.todo = worker.todo])
  /\ Aside /\ UNCHANGED <<watch, begun>>

ProjectListed ==
  /\ worker.pc = "ask"
  /\ \E doc \in Documents :
       /\ \A f \in Listed(doc) : Facts[f].project = worker.project
       /\ \E files \in SelectReleaseFiles(doc) :
            worker' = [worker EXCEPT !.pc = "fetch", !.doc = {doc}, !.wanted = files]
  /\ Aside /\ UNCHANGED <<watch, begun>>

\* Manager.PrefetchURL, whose error is dropped.
PrefetchURL ==
  /\ worker.wanted # <<>>
  /\ Work("fetch", [worker EXCEPT !.wanted = Tail(@)])
  /\ begun' = begun \cup {Head(worker.wanted)}
  /\ Aside /\ UNCHANGED watch

\* CheckedPackageWatch; its error ends the pass.
CheckedPackageWatch ==
  LET p == worker.project IN
  /\ worker.wanted = <<>>
  /\ \/ /\ Work("fetch", [Asleep EXCEPT !.pc = "pick", !.todo = worker.todo])
        /\ watch' = IF watch[p].on THEN [watch EXCEPT ![p].checked = clock] ELSE watch
     \/ Work("fetch", Asleep) /\ UNCHANGED watch
  /\ Aside /\ UNCHANGED begun

\* All is done, or PackageWatchesDue failed.
PassEnds ==
  /\ \/ Work("pick", Asleep) /\ worker.todo = {}
     \/ Work("due", Asleep)
  /\ Aside /\ UNCHANGED <<watch, begun>>

Worker ==
  \/ DeleteInactive \/ WatchesDue \/ Pick \/ ProjectNext \/ ProjectRefused
  \/ ProjectListed \/ PrefetchURL \/ CheckedPackageWatch \/ PassEnds

-----------------------------------------------------------------------------
(* The world around, and the specification.                                *)

ClockTick ==
  /\ clock < LastTime /\ clock' = clock + 1
  /\ UNCHANGED <<watch, client, worker, signed, asked, begun>>

\* The process dies and starts again: the table remains, and the key of links.
Restart ==
  /\ client' = [c \in Clients |-> NoRequest] /\ worker' = Asleep
  /\ UNCHANGED <<clock, watch, signed, asked, begun>>

PypiInit ==
  /\ clock = 0 /\ watch = [p \in Projects |-> NoWatch]
  /\ client = [c \in Clients |-> NoRequest] /\ worker = Asleep
  /\ signed = {} /\ asked = {} /\ begun = {}

PypiNext ==
  \/ (\E c \in Clients : Handler(c)) \/ Worker
  \/ DeleteElsewhere \/ ClockTick \/ Restart

PypiSpec == PypiInit /\ [][PypiNext]_pypiVars

-----------------------------------------------------------------------------
(* Properties.                                                             *)

ProjectWatch == [on : BOOLEAN, requested : Nat, checked : Int]

WorkerType ==
  [pc : {"idle", "due", "pick", "ask", "fetch"}, began : Nat,
   todo : SUBSET [project : Projects, checked : Int], project : Projects \cup {"none"},
   base : 0..Backups, doc : SUBSET Seq(Files), wanted : Seq(Files)]

PypiType ==
  /\ clock \in 0..LastTime /\ watch \in [Projects -> ProjectWatch]
  /\ client \in [Clients -> [pc : {"idle", "ask", "watch"}, project : Projects \cup {"none"},
                             base : 0..Backups]]
  /\ worker \in WorkerType
  /\ signed \subseteq Files /\ asked \subseteq Projects /\ begun \subseteq Files

\* However Go orders the releases, a document leads to one selection, and it is
\* the one described: the newest releases, one file each, none of it yanked.
ReleasesExact ==
  \A doc \in worker.doc :
    LET selections == SelectReleaseFiles(doc)
    IN Cardinality(selections) = 1 /\ \A S \in selections : Selection(Listed(S), doc)

\* Nothing is prefetched that was yanked, or of a project of which nobody has
\* requested, by a link from one of our pages, an artifact that was in the cache
\* thereafter.
PrefetchesAsked == \A f \in begun : Unyanked(f) /\ Facts[f].project \in asked

\* A watch only counts as checked when an upstream has listed its project in
\* this pass: one that nobody answered for is due again in the next.
CheckedWhenListed ==
  [][\A p \in Projects :
       watch[p].on /\ watch'[p].on /\ watch'[p].checked # watch[p].checked
         => worker.project = p /\ worker.doc # {}]_pypiVars

\* Projects on their way into the table, in it and in the worker's hands have
\* been asked for; what the worker has selected is of its project.
Provenance ==
  /\ \A c \in Clients : client[c].pc = "ask" => client[c].project \in Projects
  /\ \A c \in Clients : client[c].pc = "watch" => client[c].project \in asked
  /\ \A p \in Projects : watch[p].on => p \in asked
  /\ \A e \in worker.todo : e.project \in asked
  /\ worker.pc \in {"ask", "fetch"} => worker.project \in asked
  /\ worker.pc = "fetch" => worker.doc # {}
  /\ \A f \in Listed(worker.wanted) : Unyanked(f) /\ Facts[f].project \in asked

\* What the safety properties rest on.
PypiInductive == PypiType /\ Provenance
=============================================================================
