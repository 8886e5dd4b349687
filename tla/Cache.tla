------------------------------- MODULE Cache -------------------------------
(***************************************************************************)
(* The Manager of internal/cache around its sessions: the requests that    *)
(* look an object up, the session map, the cleanup and refresh workers,    *)
(* the artifact and .part files, the rows of internal/store, and restarts. *)
(*                                                                         *)
(* A session is the outline of what module Session models in full.  What a *)
(* file, a row or a response holds is only its generation: the number of   *)
(* the upstream edition it was copied from, 0 for none.                    *)
(***************************************************************************)
EXTENDS Integers, FiniteSets

CONSTANTS
  Keys,           \* the cache keys
  Clients,        \* the requests under way at one time
  Sessions,       \* names for the sessions alive or still referred to
  MaxGen,         \* upstream publishes at most this many generations
  Changing,       \* the keys of which upstream publishes a second one and more
  Bytes,          \* per key and generation: the length of the object
  MaxTime,        \* the clock stops here
  RefreshAfter,   \* per key: the freshness of metadata, 0 for an artifact
  InactivityTTL,  \* lifecycle.inactivity_ttl, the retention of watches too
  WatchInterval,  \* lifecycle.watch_interval
  MaxSize,        \* lifecycle.max_size_bytes
  Faults,         \* which of AllFaults may happen
  Workers         \* which of AllWorkers run

Generations == 0..MaxGen

\* A crash and restart; the failure of the statement that ends a download; of
\* a request's statement on the row; of one on a watch or of a worker, or of
\* the cleaner's os.Remove; a backup upstream that lags behind; files removed
\* by hand (cache.go:188).  A download may fail at any of its other steps.
AllFaults == {"crash", "record", "serve", "io", "lag", "hand"}

AllWorkers == {"cleanup", "refresh", "prefetch"}

ASSUME CacheAssumption ==
  /\ IsFiniteSet(Keys) /\ Changing \subseteq Keys /\ MaxGen \in Nat \ {0} /\ MaxTime \in Nat
  /\ RefreshAfter \in [Keys -> Nat]
  /\ Bytes \in [Keys -> [Generations -> Nat]] /\ \A k \in Keys : Bytes[k][0] = 0
  /\ InactivityTTL \in Nat /\ WatchInterval \in Nat /\ MaxSize \in Nat
  /\ Faults \subseteq AllFaults
  /\ Workers \subseteq AllWorkers
  /\ "none" \notin Sessions

VARIABLES
  now,       \* time.Now().Unix()
  upstream,  \* the generation that upstream publishes, per key
  file,      \* the generation in artifacts/<key>.artifact
  part,      \* the session whose partial/<key>.part is on disk
  row,       \* the artifacts row: generation, created_at, last_access_at
  watch,     \* the watches row: present, last_requested_at, last_checked_at
  live,      \* Manager.sessions: the session of each key, or "none"
  session,   \* the sessions
  client,    \* the requests
  cleaner,   \* the cleanup worker; shrunk is auxiliary: since it has counted,
             \* a row was recorded anew with fewer bytes
  refresher, \* the refresh worker
  newest     \* auxiliary: the latest generation ever promoted, per key

disk  == <<file, part>>
db    == <<row, watch>>
world == <<now, upstream>>

vars == <<world, disk, db, live, session, client, cleaner, refresher, newest>>

NoRow   == [gen |-> 0, created |-> 0, access |-> 0]
NoWatch == [on |-> FALSE, requested |-> 0, checked |-> 0]

\* last_checked_at of a watch that was never checked: 1970, as it were.
LongAgo == -1 - WatchInterval

NoSnap == [gen |-> 0, created |-> 0]

Gone == [pc |-> "gone", key |-> "none", prior |-> 0, gen |-> 0,
         ready |-> FALSE, err |-> FALSE, path |-> "part"]
Idle == [pc |-> "idle", key |-> "none", snap |-> NoSnap, prior |-> 0,
         in |-> "none", path |-> "part", gen |-> 0, floor |-> 0]
NoEntry == [key |-> "none", access |-> 0, size |-> 0]
Asleep == [pc |-> "idle", pass |-> "inactive", todo |-> {}, at |-> NoEntry, total |-> 0,
           shrunk |-> FALSE]
Resting == [pc |-> "idle", began |-> 0, todo |-> {}, at |-> "none"]

Tracked(k) == RefreshAfter[k] = 0

-----------------------------------------------------------------------------
(* Sessions.                                                               *)

Stage(s, from, to) == session[s].pc = from /\ session' = [session EXCEPT ![s] = [@ EXCEPT !.pc = to]]

\* finish: the readers are told, then the goroutine goes on to "to".
Finish(s, from, to, e) ==
  /\ session[s].pc = from
  /\ session' = [session EXCEPT ![s] = [@ EXCEPT !.pc = to, !.ready = TRUE, !.err = e]]

Others == UNCHANGED <<world, client, cleaner, refresher, newest>>

\* A name that no goroutine, no handler and no file of another key refers to.
Free(s, k) ==
  /\ session[s].pc = "gone"
  /\ \A c \in Clients : client[c].in # s
  /\ \A j \in Keys : part[j] = s => j = k

\* getOrStart, by whoever calls it, under Manager.mu: s is the session it returns.
GetOrStart(k, prior, s) ==
  \/ live[k] # "none" /\ s = live[k] /\ UNCHANGED <<live, session>>
  \/ /\ live[k] = "none" /\ Free(s, k)
     /\ live' = [live EXCEPT ![k] = s]
     /\ session' = [session EXCEPT ![s] =
          [Gone EXCEPT !.pc = "open", !.key = k, !.prior = prior]]

\* os.Remove of the .part file, whose error is dropped.
Remove(k) == part' \in {part, [part EXCEPT ![k] = "none"]}

OpenPart(s) ==
  /\ Stage(s, "open", "fetch")
  /\ part' = [part EXCEPT ![session[s].key] = s]
  /\ UNCHANGED <<file, db, live>> /\ Others

\* What fetch gets from the primary, or a backup while that fails: one may lag.
Published(k) == IF "lag" \in Faults THEN 1..upstream[k] ELSE {upstream[k]}

\* 200: the headers are out, the body follows.
FetchBody(s, g) ==
  /\ session[s].pc = "fetch" /\ g \in Published(session[s].key)
  /\ session' = [session EXCEPT ![s] =
       [@ EXCEPT !.pc = "body", !.gen = g, !.ready = TRUE]]
  /\ UNCHANGED <<disk, db, live>> /\ Others

\* 304: the validator of the prior row is that of what upstream publishes.
\* setCachedFile publishes the row's size for the file under the key's name.
NotModified(s) ==
  /\ session[s].pc = "fetch"
  /\ session[s].prior # 0 /\ session[s].prior \in Published(session[s].key)
  /\ session' = [session EXCEPT ![s] =
       [@ EXCEPT !.pc = "revalidate", !.ready = TRUE, !.path = "final"]]
  /\ Remove(session[s].key)
  /\ UNCHANGED <<file, db, live>> /\ Others

TransferFailsAndLeaves(s) ==
  /\ session[s].pc \in {"fetch", "body"}
  /\ session' = [session EXCEPT ![s] =
       [@ EXCEPT !.pc = "remove", !.ready = TRUE, !.err = TRUE]]
  /\ live' = [live EXCEPT ![session[s].key] = "none"]
  /\ UNCHANGED <<disk, db>> /\ Others

\* An error of fetch, of Body.Read, Write or Sync, or of OpenFile or Rename:
\* the last two remove nothing.
TransferFails(s) ==
  /\ \/ Finish(s, "fetch", "remove", TRUE)
     \/ Finish(s, "body", "remove", TRUE)
     \/ Finish(s, "open", "exit", TRUE)
     \/ Finish(s, "rename", "exit", TRUE)
  /\ UNCHANGED <<disk, db, live>> /\ Others

RemovePart(s) ==
  /\ Stage(s, "remove", "exit") /\ Remove(session[s].key)
  /\ UNCHANGED <<file, db, live>> /\ Others

BodyEOFRecordsFirst(s) ==
  /\ Stage(s, "body", "rename")
  /\ row' = [row EXCEPT ![session[s].key] =
               [gen |-> session[s].gen, created |-> now, access |-> now]]
  /\ UNCHANGED <<disk, watch, live>> /\ Others

BodyEOF(s) == Stage(s, "body", "rename") /\ UNCHANGED <<disk, db, live>> /\ Others

\* os.Rename takes whatever is under the .part name to the key's name.
Rename(s) ==
  LET k == session[s].key IN
  /\ Stage(s, "rename", "setpath")
  /\ part[k] # "none"
  /\ file' = [file EXCEPT ![k] = session[part[k]].gen]
  /\ part' = [part EXCEPT ![k] = "none"]
  /\ newest' = [newest EXCEPT ![k] = IF file'[k] > @ THEN file'[k] ELSE @]
  /\ UNCHANGED <<db, live, world, client, cleaner, refresher>>

SetFilePath(s) ==
  /\ session[s].pc = "setpath"
  /\ session' = [session EXCEPT ![s] = [@ EXCEPT !.pc = "record", !.path = "final"]]
  /\ UNCHANGED <<disk, db, live>> /\ Others

RecordKeepsRow(s) ==
  LET k == session[s].key IN
  /\ Finish(s, "record", "exit", FALSE)
  /\ row' = IF row[k].gen # 0 THEN row
            ELSE [row EXCEPT ![k] = [gen |-> session[s].gen, created |-> now, access |-> now]]
  /\ UNCHANGED <<disk, watch, live>> /\ Others

\* size_bytes of a row, and nothing if there is none.
Size(k) == Bytes[k][row[k].gen]

\* The cleaner has counted the bytes of the rows.
Counting == cleaner.pass = "capacity" \/ cleaner.pc = "list"

\* store.Complete, then finish(nil).
Record(s) ==
  LET k == session[s].key IN
  /\ Finish(s, "record", "exit", FALSE)
  /\ row' = [row EXCEPT ![k] = [gen |-> session[s].gen, created |-> now, access |-> now]]
  /\ cleaner' = [cleaner EXCEPT !.shrunk =
                   @ \/ (Counting /\ Bytes[k][session[s].gen] < Size(k))]
  /\ UNCHANGED <<disk, watch, live, world, client, refresher, newest>>

\* store.Revalidated, an UPDATE of the row if it is still there.
Revalidate(s) ==
  LET k == session[s].key IN
  /\ Finish(s, "revalidate", "exit", FALSE)
  /\ row' = IF row[k].gen = 0 THEN row
            ELSE [row EXCEPT ![k].created = now, ![k].access = now]
  /\ UNCHANGED <<disk, watch, live>> /\ Others

\* Either statement may fail; the files stay as they are.
StoreFails(s) ==
  /\ "record" \in Faults
  /\ Finish(s, "record", "exit", TRUE) \/ Finish(s, "revalidate", "exit", TRUE)
  /\ UNCHANGED <<disk, db, live>> /\ Others

\* The deferred delete(m.sessions, s.key); who waits for the session still
\* reads the fields that finish left, or the .part file that Rename left.
Exit(s) ==
  /\ session[s].pc = "exit"
  /\ live' = [live EXCEPT ![session[s].key] = "none"]
  /\ session' = [session EXCEPT ![s] =
       IF part[session[s].key] = s \/ \E c \in Clients : client[c].in = s
       THEN [@ EXCEPT !.pc = "gone", !.key = "none", !.prior = 0] ELSE Gone]
  /\ UNCHANGED <<disk, db>> /\ Others

Download(s) ==
  \/ OpenPart(s) \/ (\E g \in Generations : FetchBody(s, g)) \/ NotModified(s)
  \/ TransferFails(s) \/ RemovePart(s) \/ BodyEOF(s) \/ Rename(s) \/ SetFilePath(s)
  \/ Record(s) \/ Revalidate(s) \/ StoreFails(s) \/ Exit(s)

-----------------------------------------------------------------------------
(* Requests.                                                               *)

\* (A field that is not read again takes its idle value: local variables end.)
Put(c, fields) == client' = [client EXCEPT ![c] = fields]

Quiet == UNCHANGED <<world, disk, live, session, cleaner, refresher, newest>>

\* A new request: store.Get, which may fail (500).
Get(c, k) ==
  /\ client[c].pc = "idle"
  /\ \/ Put(c, [Idle EXCEPT !.pc = IF row[k].gen = 0 THEN "start" ELSE "lookup",
                            !.key = k, !.floor = newest[k],
                            !.snap = [gen |-> row[k].gen, created |-> row[k].created]])
     \/ "serve" \in Faults /\ Put(c, [Idle EXCEPT !.pc = "tail", !.key = k])
  /\ Quiet /\ UNCHANGED db

Expired(k, r) == RefreshAfter[k] > 0 /\ now - r.created >= RefreshAfter[k]

\* os.Open and ServeContent: what was opened is sent, whatever becomes of the name.
Hit(c) ==
  LET k == client[c].key IN
  /\ client[c].pc = "lookup" /\ file[k] # 0 /\ ~Expired(k, client[c].snap)
  /\ Put(c, [client[c] EXCEPT !.pc = "touch", !.gen = file[k], !.snap = NoSnap])
  /\ Quiet /\ UNCHANGED db

\* The object has expired and is to be revalidated, or its file is missing.
Miss(c) ==
  LET k == client[c].key IN
  /\ client[c].pc = "lookup" /\ (file[k] = 0 \/ Expired(k, client[c].snap))
  /\ Put(c, [client[c] EXCEPT !.pc = "start",
                              !.prior = IF file[k] = 0 THEN 0 ELSE client[c].snap.gen])
  /\ Quiet /\ UNCHANGED db

\* store.Touch, an UPDATE whose error is dropped.
Touch(c) ==
  LET k == client[c].key IN
  /\ client[c].pc = "touch"
  /\ Put(c, [client[c] EXCEPT !.pc = "tail"])
  /\ \/ row' = IF row[k].gen = 0 THEN row ELSE [row EXCEPT ![k].access = now]
     \/ "serve" \in Faults /\ UNCHANGED row
  /\ Quiet /\ UNCHANGED watch

Start(c, s) ==
  /\ client[c].pc = "start"
  /\ GetOrStart(client[c].key, client[c].prior, s)
  /\ Put(c, [client[c] EXCEPT !.pc = "wait", !.in = s, !.prior = 0, !.snap = NoSnap])
  /\ UNCHANGED <<world, disk, db, cleaner, refresher, newest>>

\* The session is ready: its fields are copied under its lock; an error is 502.
Headers(c) ==
  /\ client[c].pc = "wait" /\ session[client[c].in].ready
  /\ LET s == session[client[c].in] IN
     Put(c, [client[c] EXCEPT !.pc = IF s.err THEN "tail" ELSE "open",
                              !.in = "none", !.path = s.path])
  /\ Quiet /\ UNCHANGED db

\* What a .part file holds is what the session that made it is sent, 0 while
\* that has no response.
Partial(k) == IF part[k] = "none" THEN 0 ELSE session[part[k]].gen

\* os.Open of the copied path.
Opened(c) ==
  IF client[c].path = "final" THEN file[client[c].key] ELSE Partial(client[c].key)

OpenFile(c) ==
  /\ client[c].pc = "open"
  /\ Put(c, [client[c] EXCEPT !.pc = "tail", !.gen = Opened(c), !.path = "part"])
  /\ Quiet /\ UNCHANGED db

\* After the response: Cached, which is another Get ...
Cached(c) ==
  LET k == client[c].key IN
  /\ client[c].pc = "tail"
  /\ \/ /\ Tracked(k) /\ row[k].gen # 0
        /\ Put(c, [Idle EXCEPT !.pc = "watch", !.key = k])
     \/ /\ ~Tracked(k) \/ row[k].gen = 0 \/ "serve" \in Faults
        /\ Put(c, Idle)
  /\ Quiet /\ UNCHANGED db

\* ... then store.Watch, an upsert that keeps last_checked_at.
Watch(c) ==
  LET k == client[c].key IN
  /\ client[c].pc = "watch" /\ Put(c, Idle)
  /\ \/ watch' = [watch EXCEPT ![k] =
          [on |-> TRUE, requested |-> now,
           checked |-> IF watch[k].on THEN watch[k].checked ELSE LongAgo]]
     \/ "io" \in Faults /\ UNCHANGED watch
  /\ Quiet /\ UNCHANGED row

\* Prefetch and PrefetchURL, called by the worker of a backend: the row is
\* offered for revalidation without a look at its file, ...
Prefetch(c, k) ==
  /\ "prefetch" \in Workers /\ Tracked(k) /\ client[c].pc = "idle"
  /\ Put(c, [Idle EXCEPT !.pc = "ahead", !.key = k, !.prior = row[k].gen])
  /\ Quiet /\ UNCHANGED db

\* ... by then perhaps no longer the row; nobody waits for the session.
PrefetchStarts(c, s) ==
  /\ client[c].pc = "ahead"
  /\ GetOrStart(client[c].key, client[c].prior, s)
  /\ Put(c, Idle)
  /\ UNCHANGED <<world, disk, db, cleaner, refresher, newest>>

Request(c) ==
  \/ (\E k \in Keys : Prefetch(c, k)) \/ (\E s \in Sessions : PrefetchStarts(c, s))
  \/ (\E k \in Keys : Get(c, k)) \/ Hit(c) \/ Miss(c) \/ Touch(c)
  \/ (\E s \in Sessions : Start(c, s)) \/ Headers(c) \/ OpenFile(c) \/ Cached(c) \/ Watch(c)

-----------------------------------------------------------------------------
(* The cleanup worker.                                                     *)

Rows == {k \in Keys : row[k].gen # 0}

\* The lists that the two queries return; the worker takes the least recently
\* used entry first.
Candidates(ks) ==
  {[key |-> k, access |-> row[k].access, size |-> Size(k)] : k \in ks}

\* One element for each byte that the rows count: size_bytes, summed up, is
\* the number of them.
Stored == UNION {{k} \X (1..Size(k)) : k \in Keys}

\* Retention by the age of the object instead of by its last use.
OldTracked == Candidates({k \in Rows : Tracked(k) /\ row[k].created < now - InactivityTTL})

InactiveTracked ==
  Candidates({k \in Rows : Tracked(k) /\ row[k].access < now - InactivityTTL})

LeastRecentlyUsedInactive == Candidates({k \in Rows : row[k].access < now - InactivityTTL})

LeastRecentlyUsed == Candidates(Rows)

Clean(from, fields) == cleaner.pc = from /\ cleaner' = fields

\* The cleaner's steps leave everything alone but the files and the database.
Aside == UNCHANGED <<world, part, live, session, client, refresher, newest>>

CleanupStarts ==
  /\ Clean("idle", [Asleep EXCEPT !.pc = "pick", !.todo = InactiveTracked])
  /\ Aside /\ UNCHANGED <<file, db>>

Over == cleaner.pass = "inactive" \/ cleaner.total > MaxSize

\* removeCandidate looks for a session under Manager.mu, then goes on without it.
Candidate ==
  \E e \in cleaner.todo :
    /\ \A f \in cleaner.todo : e.access <= f.access
    /\ Over
    /\ Clean("pick", [cleaner EXCEPT
         !.pc = IF live[e.key] = "none" THEN "unlink" ELSE "pick",
         !.todo = @ \ {e},
         !.at = IF live[e.key] = "none" THEN e ELSE NoEntry])
    /\ Aside /\ UNCHANGED <<file, db>>

\* A failing step ends this candidate, not the pass.
Skip(from) ==
  /\ "io" \in Faults
  /\ Clean(from, [cleaner EXCEPT !.pc = "pick", !.at = NoEntry])
  /\ Aside /\ UNCHANGED <<file, db>>

Unlink ==
  /\ Clean("unlink", [cleaner EXCEPT !.pc = "unwatch"])
  /\ file' = [file EXCEPT ![cleaner.at.key] = 0]
  /\ Aside /\ UNCHANGED db

\* The two statements of store.Delete.
DeleteWatch ==
  /\ Clean("unwatch", [cleaner EXCEPT !.pc = "delete"])
  /\ watch' = [watch EXCEPT ![cleaner.at.key] = NoWatch]
  /\ Aside /\ UNCHANGED <<file, row>>

DeleteRowUncounted ==
  /\ Clean("delete", [cleaner EXCEPT !.pc = "pick", !.at = NoEntry])
  /\ row' = [row EXCEPT ![cleaner.at.key] = NoRow]
  /\ Aside /\ UNCHANGED <<file, watch>>

\* The total is reduced by the size on the list, whatever the row has by now.
DeleteRow ==
  /\ Clean("delete", [cleaner EXCEPT !.pc = "pick", !.at = NoEntry,
        !.total = IF cleaner.pass = "capacity" THEN @ - cleaner.at.size ELSE @])
  /\ row' = [row EXCEPT ![cleaner.at.key] = NoRow]
  /\ Aside /\ UNCHANGED <<file, watch>>

\* After the inactive entries: TotalSize, then LeastRecentlyUsed if there is
\* too much.
TotalSize ==
  /\ cleaner.pass = "inactive" /\ cleaner.todo = {}
  /\ Clean("pick", IF Cardinality(Stored) <= MaxSize THEN Asleep
                   ELSE [Asleep EXCEPT !.pc = "list", !.total = Cardinality(Stored)])
  /\ Aside /\ UNCHANGED <<file, db>>

List ==
  /\ Clean("list", [cleaner EXCEPT !.pc = "pick", !.pass = "capacity",
                                   !.todo = LeastRecentlyUsed])
  /\ Aside /\ UNCHANGED <<file, db>>

\* A failing query ends the pass.
QueryFails ==
  /\ "io" \in Faults
  /\ \/ cleaner.pass = "inactive" /\ cleaner.todo = {} /\ Clean("pick", Asleep)
     \/ Clean("list", Asleep)
  /\ Aside /\ UNCHANGED <<file, db>>

CleanupEnds ==
  /\ cleaner.pass = "capacity" /\ (cleaner.todo = {} \/ ~Over)
  /\ Clean("pick", Asleep)
  /\ Aside /\ UNCHANGED <<file, db>>

Cleanup ==
  /\ "cleanup" \in Workers
  /\ \/ CleanupStarts \/ Candidate \/ Unlink \/ DeleteWatch \/ DeleteRow
     \/ Skip("unlink") \/ Skip("unwatch") \/ Skip("delete")
     \/ TotalSize \/ List \/ QueryFails \/ CleanupEnds

-----------------------------------------------------------------------------
(* The watch refresh worker.                                               *)

Turn(from, fields) == refresher.pc = from /\ refresher' = fields

\* DeleteInactiveWatches, by the clock at the start of the pass.
RefreshStarts ==
  /\ Turn("idle", [Resting EXCEPT !.pc = "due", !.began = now])
  /\ watch' = [k \in Keys |-> IF watch[k].requested < now - InactivityTTL
                              THEN NoWatch ELSE watch[k]]
  /\ UNCHANGED <<world, disk, row, live, session, client, cleaner, newest>>

\* The join of watches and artifacts; the row goes along with each watch.
WatchesDue ==
  LET due == {k \in Rows : /\ watch[k].on
                           /\ watch[k].requested >= refresher.began - InactivityTTL
                           /\ watch[k].checked < refresher.began - WatchInterval}
  IN /\ Turn("due", [Resting EXCEPT !.pc = "pick",
            !.todo = {[key |-> k, gen |-> row[k].gen, checked |-> watch[k].checked] : k \in due}])
     /\ UNCHANGED <<world, disk, db, live, session, client, cleaner, newest>>

\* The row is offered for revalidation without a look at its file.
RefreshWatch(s) ==
  \E e \in refresher.todo :
    /\ \A f \in refresher.todo : e.checked <= f.checked
    /\ Turn("pick", [refresher EXCEPT !.pc = "stamp", !.todo = @ \ {e}, !.at = e.key])
    /\ GetOrStart(e.key, e.gen, s)
    /\ UNCHANGED <<world, disk, db, client, cleaner, newest>>

\* CheckedWatch does not wait for the download; its error ends the pass.
CheckedWatch ==
  LET k == refresher.at IN
  /\ \/ /\ Turn("stamp", [refresher EXCEPT !.pc = "pick", !.at = "none"])
        /\ watch' = IF watch[k].on THEN [watch EXCEPT ![k].checked = now] ELSE watch
     \/ /\ "io" \in Faults /\ Turn("stamp", Resting) /\ UNCHANGED watch
  /\ UNCHANGED <<world, disk, row, live, session, client, cleaner, newest>>

\* All due watches are done, or WatchesDue failed.
RefreshEnds ==
  /\ \/ Turn("pick", Resting) /\ refresher.todo = {}
     \/ "io" \in Faults /\ Turn("due", Resting)
  /\ UNCHANGED <<world, disk, db, live, session, client, cleaner, newest>>

Refresh ==
  /\ "refresh" \in Workers
  /\ \/ RefreshStarts \/ WatchesDue \/ (\E s \in Sessions : RefreshWatch(s))
     \/ CheckedWatch \/ RefreshEnds

-----------------------------------------------------------------------------
(* The world around, and the specification.                                *)

Inside == UNCHANGED <<part, db, live, session, client, cleaner, refresher, newest>>

Tick == now < MaxTime /\ now' = now + 1 /\ Inside /\ UNCHANGED <<upstream, file>>

Publish(k) ==
  /\ k \in Changing /\ upstream[k] < MaxGen
  /\ upstream' = [upstream EXCEPT ![k] = @ + 1]
  /\ Inside /\ UNCHANGED <<now, file>>

RemoveByHand(k) ==
  /\ "hand" \in Faults /\ file[k] # 0
  /\ file' = [file EXCEPT ![k] = 0]
  /\ Inside /\ UNCHANGED world

Restarted ==
  /\ part' = [k \in Keys |-> "none"]
  /\ live' = [k \in Keys |-> "none"]
  /\ session' = [s \in Sessions |-> Gone]
  /\ client' = [c \in Clients |-> Idle]
  /\ cleaner' = Asleep /\ refresher' = Resting

\* The process dies at any point and starts again: cache.New removes what is
\* in the partial directory, and only the files and the database remain.
Crash == "crash" \in Faults /\ Restarted /\ UNCHANGED <<world, file, db, newest>>

Init ==
  /\ now = 0 /\ upstream = [k \in Keys |-> 1]
  /\ file = [k \in Keys |-> 0] /\ part = [k \in Keys |-> "none"]
  /\ row = [k \in Keys |-> NoRow] /\ watch = [k \in Keys |-> NoWatch]
  /\ live = [k \in Keys |-> "none"]
  /\ session = [s \in Sessions |-> Gone] /\ client = [c \in Clients |-> Idle]
  /\ cleaner = Asleep /\ refresher = Resting
  /\ newest = [k \in Keys |-> 0]

Next ==
  \/ (\E s \in Sessions : Download(s)) \/ (\E c \in Clients : Request(c))
  \/ Cleanup \/ Refresh
  \/ Tick \/ (\E k \in Keys : Publish(k) \/ RemoveByHand(k)) \/ Crash

Spec == Init /\ [][Next]_vars

\* The worker goes on with a pass it began, and begins another.
CleaningSpec == Spec /\ WF_vars(Cleanup)

-----------------------------------------------------------------------------
(* Properties.                                                             *)

SessionPhases == {"open", "fetch", "body", "revalidate", "rename", "setpath",
                  "record", "remove", "exit", "gone"}

ClientPhases == {"idle", "lookup", "touch", "start", "wait", "open", "tail", "watch", "ahead"}

RowType   == [gen : Generations, created : Nat, access : Nat]
WatchType == [on : BOOLEAN, requested : Nat, checked : Int]

Entries == [key : Keys, access : Nat, size : Nat]

CleanerFields ==
  [pc : {"idle", "pick", "unlink", "unwatch", "delete", "list"},
   pass : {"inactive", "capacity"}, todo : SUBSET Entries, at : Entries \cup {NoEntry},
   total : Int, shrunk : BOOLEAN]

RefresherFields ==
  [pc : {"idle", "due", "pick", "stamp"}, began : Nat,
   todo : SUBSET [key : Keys, gen : Generations, checked : Int], at : Keys \cup {"none"}]

WorkerType == cleaner \in CleanerFields /\ refresher \in RefresherFields

WorldType ==
  /\ now \in 0..MaxTime /\ upstream \in [Keys -> 1..MaxGen]
  /\ file \in [Keys -> Generations] /\ part \in [Keys -> Sessions \cup {"none"}]
  /\ newest \in [Keys -> Generations]

StoreType == row \in [Keys -> RowType] /\ watch \in [Keys -> WatchType]

SessionFields ==
  [pc : SessionPhases, key : Keys \cup {"none"}, prior : Generations,
   gen : Generations, ready : BOOLEAN, err : BOOLEAN, path : {"part", "final"}]

SessionType ==
  /\ live \in [Keys -> Sessions \cup {"none"}]
  /\ session \in [Sessions -> SessionFields]

ClientFields ==
  [pc : ClientPhases, key : Keys \cup {"none"}, prior : Generations,
   snap : [gen : Generations, created : Nat], in : Sessions \cup {"none"},
   path : {"part", "final"}, gen : Generations, floor : Generations]

ClientType == client \in [Clients -> ClientFields]

TypeOK == WorldType /\ StoreType /\ SessionType /\ ClientType /\ WorkerType

Active(s) == session[s].pc # "gone"

\* A second request shares the transfer under way: a session that runs is the
\* one the map holds for its key, so no key has two.
OneTransfer == \A s \in Sessions : Active(s) => live[session[s].key] = s

\* Nobody truncates, renames or removes the .part file of another session: the
\* file a session writes and promotes is under its name all along.
PartExclusive ==
  \A s \in Sessions :
    session[s].pc \in {"fetch", "body", "rename"} => part[session[s].key] = s

\* Once no session is at work on a key, the row is that of the file in place,
\* however cleanup, the workers and the requests interleave.
RowDescribesFile ==
  \A k \in Keys :
    live[k] = "none" /\ file[k] # 0 /\ row[k].gen # 0 => row[k].gen = file[k]

\* A row is never written before its file is in place, and survives crashes and
\* failing statements only with it.
RowBacked == \A k \in Keys : row[k].gen # 0 => file[k] # 0

\* Unless a backup lags behind, the readers are sent after a 304 to the
\* generation that was revalidated, or to a file that is gone: never to another
\* one, although the row was read long before and nobody looks at the file.
CachedIsPrior ==
  \A s \in Sessions : session[s].pc = "revalidate"
    => file[session[s].key] \in {0, session[s].prior}

\* Unless a backup lags behind, a response is never older than an object that
\* was complete when its request began: not after a failed download, a crash or
\* an eviction either.
NeverOlder ==
  \A c \in Clients : client[c].gen # 0 => client[c].gen >= client[c].floor

\* Cleanup deletes a row for one of two reasons.  In the first pass it is of a
\* tracked artifact which is inactive now, unless it was used since it was
\* listed.  In the second the rows have more bytes than the capacity at that
\* very moment, unless one was recorded anew with fewer since they were counted.
EvictsForReason ==
  [][\A k \in Keys : row[k].gen # 0 /\ row'[k].gen = 0 =>
       \/ /\ cleaner.pass = "inactive" /\ Tracked(k)
          /\ row[k].access < now - InactivityTTL \/ row[k].access # cleaner.at.access
       \/ cleaner.pass = "capacity" /\ (Cardinality(Stored) > MaxSize \/ cleaner.shrunk)]_vars

\* Once nobody uses the cache any more, its capacity is restored for good,
\* whatever it holds.
Still == (\A c \in Clients : client[c].pc = "idle") /\ (\A k \in Keys : live[k] = "none")

CapacityRestored == <>[]Still => <>[](Cardinality(Stored) <= MaxSize)

(* The inductive invariant behind the safety properties.                   *)

\* Manager.sessions and the running sessions are the same, key by key; a .part
\* file is one of its own key; a request has a key and, while it waits, a session.
Mapped ==
  /\ \A s \in Sessions : Active(s) => session[s].key \in Keys
  /\ OneTransfer
  /\ \A k \in Keys : live[k] # "none" =>
       Active(live[k]) /\ session[live[k]].key = k
  /\ \A k \in Keys : part[k] # "none" /\ Active(part[k]) =>
       session[part[k]].key = k
  /\ \A c \in Clients : /\ client[c].pc # "idle" => client[c].key \in Keys
                        /\ client[c].pc = "wait" => client[c].in \in Sessions

\* A session has a generation from its response on; once that is renamed it is
\* the one in place, unless it has been removed since.
Answered ==
  \A s \in Sessions :
    /\ session[s].pc \in {"open", "fetch"} => session[s].gen = 0
    /\ session[s].pc \in {"body", "rename", "setpath", "record"} => session[s].gen # 0
    /\ session[s].pc \in {"setpath", "record"}
         => file[session[s].key] \in {0, session[s].gen}

\* The file in place is the newest there ever was, and what a session at work
\* on the key holds is not older.
Promoted ==
  /\ \A k \in Keys : /\ newest[k] <= upstream[k]
                     /\ file[k] \in {0, newest[k]}
                     /\ row[k].gen <= newest[k]
                     /\ part[k] # "none" => session[part[k]].gen = 0
                                          \/ session[part[k]].gen >= newest[k]
  /\ \A s \in Sessions : Active(s) =>
       LET top == newest[session[s].key] IN
       /\ session[s].prior <= top
       /\ session[s].gen <= upstream[session[s].key]
       /\ session[s].pc \in {"body", "rename"} => session[s].gen >= top
       /\ session[s].pc \in {"setpath", "record"} => session[s].gen = top
       /\ session[s].pc = "revalidate" => session[s].prior = top

\* What the requests and the refresh worker remember has been in place.
Remembered ==
  /\ \A c \in Clients : client[c].pc # "idle" =>
       LET top == newest[client[c].key] IN
       client[c].floor <= top /\ client[c].snap.gen <= top /\ client[c].prior <= top
  /\ \A e \in refresher.todo : e.gen <= newest[e.key]

\* A row differs from its file at most between Rename and Complete.
Agreed ==
  \A k \in Keys :
    \/ file[k] # 0 /\ row[k].gen # 0 => row[k].gen = file[k]
    \/ live[k] # "none" /\ session[live[k]].pc \in {"setpath", "record"}

\* Without a cleaner or a hand, what was promoted stays.
Backed ==
  /\ RowBacked
  /\ \A s \in Sessions :
       session[s].pc \in {"setpath", "record"} => file[session[s].key] # 0

\* What the cleaner has still on its list: with the entry it is about to evict.
Evicting == {"unlink", "unwatch", "delete"}

OnList == cleaner.todo \cup IF cleaner.pc \in Evicting THEN {cleaner.at} ELSE {}

\* A key is at most once on the list, and only artifacts that were inactive are
\* on the first.
Listed ==
  /\ \A e, f \in OnList : e.key = f.key => e = f
  /\ cleaner.pc \in Evicting => cleaner.at \in Entries /\ cleaner.at \notin cleaner.todo
  /\ cleaner.pc = "list" => cleaner.todo = {}
  /\ cleaner.pass = "inactive" =>
       \A e \in OnList : Tracked(e.key) /\ e.access < now - InactivityTTL

\* The bytes that the cleaner's total may still count: of what is on its list
\* those on the list, of everything else those in the rows.
Claimed ==
  UNION ({{e.key} \X (1..e.size) : e \in OnList}
         \cup {{k} \X (1..Size(k)) : k \in Keys \ {e.key : e \in OnList}})

\* As long as no row shrinks, they are all there, and the total is not above them.
Counted ==
  /\ Counting /\ ~cleaner.shrunk =>
       /\ \A e \in OnList : e.size <= Size(e.key)
       /\ cleaner.total <= Cardinality(Claimed)
  /\ cleaner.pass = "capacity" /\ cleaner.pc \in Evicting => cleaner.total > MaxSize

Inductive ==
  /\ TypeOK /\ Mapped /\ Answered /\ PartExclusive /\ Listed /\ Counted
  /\ "lag" \notin Faults => Promoted /\ Remembered /\ NeverOlder
  /\ Faults \cap {"crash", "record"} = {} => Agreed
  /\ "cleanup" \notin Workers /\ "hand" \notin Faults => Backed

(* The promise to the clients.                                             *)

\* Where a session stands in the state machine of ARCHITECTURE.md, and the
\* transfer of a key.
Standing(pc) ==
  CASE pc = "open"                        -> "opening"
    [] pc \in {"fetch", "body", "rename"} -> "downloading"
    [] pc \in {"setpath", "record"}       -> "complete"
    [] OTHER                              -> "over"

Phase(k) == IF live[k] = "none" THEN "idle" ELSE Standing(session[live[k]].pc)

Nobody == [key |-> "none", floor |-> 0, got |-> 0]

\* A request from Get on until its response is out.
Reader(c) ==
  LET r == client[c] IN
  IF r.pc \in {"idle", "watch", "ahead"} \/ (r.pc = "tail" /\ r.gen = 0) THEN Nobody
  ELSE [key |-> r.key, floor |-> r.floor, got |-> r.gen]

Phases   == [k \in Keys |-> Phase(k)]
Partials == [k \in Keys |-> Partial(k)]
Asked    == [c \in Clients |-> Reader(c)]

Promise == INSTANCE Shelf WITH
  Readers  <- Clients,
  Editions <- Generations,
  edition  <- upstream,
  shelf    <- file,
  best     <- newest,
  phase    <- Phases,
  partial  <- Partials,
  reader   <- Asked

\* docs/ARCHITECTURE.md:30-46: whatever sessions, workers, requests and crashes
\* do, an object moves between missing, downloading, complete and evicted as the
\* state machine says, is only replaced by a whole one that is not older, and
\* requests are answered from it or from the transfer under way.
FollowsStateMachine == Promise!Spec

(* What the documents of the repository say, and the code does not do.     *)

\* README.md:63-64: in-progress downloads are never cleanup candidates.
ActiveNotEvicted ==
  [][\A k \in Keys : file[k] # 0 /\ file'[k] = 0 => live[k] = "none"]_vars

\* ARCHITECTURE.md:70-73: an upstream inconsistency does not silently replace a
\* valid object in place, say by an older one of a backup that lags behind.
NotReplacedByOlder ==
  [][\A k \in Keys : file[k] # 0 => file'[k] = 0 \/ file'[k] >= file[k]]_vars

\* PROJECT_PLAN.md:199: inactive content is reclaimed, so every file has the
\* row that makes it a candidate once nobody works on it.
NoOrphan ==
  \A k \in Keys : file[k] # 0 /\ live[k] = "none" /\ cleaner.pc = "idle"
    => row[k].gen # 0
=============================================================================
