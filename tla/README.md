# Formal models of Homir

Homir is a streaming package cache: a client that asks for an object that is not
cached is served while the object is being downloaded, later clients share that
download, and what is complete is kept on disk under a retention and a capacity.
This directory holds TLA+ modules of its core, the TLC runs that check them on
small instances, and TLAPS proofs for instances of every size.

    tlc -config MCSessionSafety.cfg MCSession      # a run
    tlapm SessionProofs.tla                        # the proofs of a module

Paths are relative to `src/`; `cache.go` is `internal/cache/cache.go`, `store.go`
is `internal/store/store.go`.  `PROJECT.json` maps every definition to its lines.

## 1. The system

| Part | State | Operations | Talks to |
| --- | --- | --- | --- |
| **Shared download** (`session`, `cache.go`) | counters and flags under `session.mu`, a `.part` file, an idle timer, a context | `download`, `serveSession`, `streamGrowingFile`, `addReader`, `removeReader`, `keepAlive`, `finish`, `setHeaders`, `setFilePath`, `setCachedFile`, `addAvailable` | upstream, the disk, `store.Complete`/`Revalidated`; readers wait on `changed`, `ready`, `done` |
| **Cache manager** (`Manager`, `cache.go`) | `sessions` under `Manager.mu` | `Serve*`, `serveResolved`, `getOrStart`, `fetch`, `Cached`, `Watch`, `Prefetch`, `PrefetchURL` | starts one goroutine per session |
| **Cleanup worker** | a list and a total, local to a pass | `Cleanup`, `removeCandidate` | the session map (a look), files, `store.Delete` |
| **Watch refresh worker** | the list of due watches | `RefreshWatches` | `getOrStart`, `store.CheckedWatch` |
| **Store** (`store.go`) | SQLite tables `artifacts`, `watches`, package watches, catalogs; one connection | one method per statement | all of the above |
| **Upstream failover** | the list primary, backups | `fetch`, `fetchSimple`, `fetchProject` | HTTP |
| **APT, APK, PyPI backends** | catalogs of versions; watches of packages; PyPI's signing secret | handlers, `catalogIndex`, prefetch workers, `selectRecords`, `selectReleaseFiles` | the manager and the store; PyPI's pages also upstream |
| **Version ordering** | none | `apt/version.go`, `apk/version.go` | catalogs |
| **Admin** | login sessions in memory, the configuration file | `Login`, `Valid`, `CSRF`, dashboard, `configEditor`, `writeAtomically` | the store, the disk |
| **Configuration, server, `main`** | the configuration that was loaded, the signing key on the disk | `Load`, `Validate`, `NewWithConfigPath`, `loadSecret`, `NewAuth` | everything; whoever runs the process starts it again |

What makes the behaviour hard:

* *Concurrency.* A goroutine writes the file that any number of handlers read.
  They meet in one mutex and one condition variable; a timer's callback, a helper
  goroutine per handler and the workers join in.  The disk and the database are
  changed outside every lock.
* *Failure.* Upstream breaks off, answers 304, stalls, or ends a body with its
  connection; `Write`, `Sync`, `Rename`, `Remove` and every SQL statement may
  fail; the process may die between any two of them and starts again on what the
  disk and the database hold; the power may go, and what was not synced with it.
* *Stale state.* A row read before the session map is locked; a path copied
  under a lock and opened after it; a list of candidates or of watches that is
  worked off later.
* *Time.* `partial_ttl`, `inactivity_ttl`, `watch_interval`, the freshness of
  metadata.

What makes each part correct:

| Part | Correct means | Stated as |
| --- | --- | --- |
| Shared download | nothing is announced before it is stored; nobody sleeps through a wake-up; a response that ends well is whole; what is promoted is what was received, and a success is durable; the verdict is final; the timer cancels only what nobody reads; everything ends | `AnnouncedIsStored`, `NoLostWakeup`, `DoneMeansWhole`, `SuccessIsDurable`, `PromotedIsReceived`, `VerdictIsFinal`, `NoCancelUnderReader`, `ReaderCount`, `KeepsPromise`, `HandlersEnd`, `AbandonedEnds`, `EveryRequestEnds` |
| Manager | one transfer per key; a `.part` file has one owner; no answer goes back in time unless a backup lags | `OneTransfer`, `CachedIsPrior`, `Inductive` (with `PartExclusive`), `FollowsStateMachine` |
| Store with the disk | rows and files describe each other | `RowDescribesFile`, `RowBacked` |
| Cleanup | evicts only for a reason, and restores the capacity | `EvictsForReason`, `CapacityRestored` |
| Failover | every URL is asked at most once, in order; a watch counts as checked only when one of them listed its project | `PypiInductive`, `CheckedWhenListed` |
| Catalogs and prefetch | a row belongs to an index that lists it; nothing is prefetched that nobody asked for; only a request brings a watch into being; the newest wanted versions are chosen, whatever order they come in | `RowsListed`, `OnlyRequested`, `WatchedByRequest`, `SelectionExact`, `PrefetchesAsked`, `ReleasesExact` |
| Version ordering | a total preorder, and Debian's is Debian's | `DebianExact`, `ApkExact` |
| Admin | a save puts its own text in place, from a form of its own session; the configuration file is an old or a new one, never half of one; a save that fails leaves nothing behind as long as it can remove it | `SavesOwn`, `AlwaysLoads`, `TidyUntilTrouble` |
| Start-up | workers get settings they can run with; a link stays good over restarts; the service comes back | `SettingsUsable`, `LinksVerify`, `RecoversUnlessStuck` |

## 2. The modules

| Module | What it is |
| --- | --- |
| `Transfer` | what a shared download promises its readers: a frontier, one verdict, readers that are served or denied.  No goroutine, lock, file or timer |
| `Session` | one shared download in full |
| `SessionProofs` | its inductive invariant and safety theorems, and the proof that `Session` implements `Transfer` |
| `Cache` | the manager, its sessions in outline, both workers, files, rows, restarts |
| `CacheProofs` | its inductive invariant and safety theorems |
| `Shelf` | what the cache promises its clients, after the state machine of `docs/ARCHITECTURE.md`: objects that are missing, on their way, complete, evicted, and requests.  No session, file name, database, worker or fault |
| `CacheRefinement` | the proof that `Cache` implements `Shelf` |
| `Orders` | finite sets of integers, loops over a list, lists that follow a strict order, recursion from the end; definitions and lemmas for the proofs about selections and versions |
| `Catalog` | the package catalog and watches of one upstream of APT or APK, and the prefetch worker |
| `CatalogProofs` | its inductive invariant and safety theorems |
| `Pypi` | one upstream of PyPI: pages, artifacts, the walks over primary and backups, the watches and the prefetch worker |
| `PypiProofs` | its inductive invariant and safety theorems |
| `Versions` | the Debian and the Alpine version order, and the orders they stand for |
| `VersionsProofs` | that both are those orders, and total preorders of all strings |
| `Config` | what `internal/config` accepts and resolves; no state |
| `Admin` | extends `Config`: logins, sessions, the editor and its file |
| `Server` | extends `Admin`: processes that start, run and end on one disk |
| `ServerProofs` | its inductive invariant and safety theorems |
| `MCSession`, `MCCache` | constants for TLC |
| `MCServer` | constants for `Server` and `Pypi`; a behaviour is one of `Server`, or of `Pypi` in a process that has started |
| `MCCatalog` | constants for `Catalog` and `Versions`; a behaviour is one of `Catalog` or of a pair of versions |

`Cache` does not instantiate `Session`: one session alone has more than a million
states.  It has the session's *outline* instead: the same phases and the same
order of steps on the map, the files and the rows, without readers, byte counts
and the timer.  Where `Session` has `fetch`, `cached` and a copy loop, `Cache` has
one step to the response and one to the end of the body.

### Session and the code

A critical section of `session.mu` is one action; a step on the disk or the
database between two of them is one as well.  `dl` is the line `download`
(`cache.go:202-304`) has reached:

| `dl` | next | in the code |
| --- | --- | --- |
| `open` | `OpenPart` | `os.OpenFile` with `O_TRUNC`, or its error |
| `fetch` | `FetchBody`, `NotModified`, `FetchFails` | `fetch` returns; `setHeaders` |
| `cached` | `UseCached` | `setCachedFile` after a 304; the `.part` file is removed, if that succeeds |
| `revalidate` | `Revalidate` | `store.Revalidated` |
| `body` | `ReadBody`, `BodyEOF`, `BodyFails`, `BodyCancelled` | a turn of the copy loop |
| `announce` | `Announce` | `addAvailable` |
| `sync`, `rename`, `setpath`, `record` | `Sync`, `Rename`, `SetFilePath`, `Record` | the promotion, step by step, each with its error path |
| `finish`, `remove`, `exit` | `FinishOK`, `RemovePart`, `Exit` | `finish(nil)`; `os.Remove` of the failed file, whose error is dropped (`Remove`); the deferred calls |

`pc[c]` is where a handler is: `joined` (it has the session), `attached` (after
`addReader`, waiting for `ready` or `done`), `opening` (headers are copied),
`streaming`, `waiting` (in `changed.Wait()`), `spinning` (in a `ReadAt` loop over a file that
ended early), `leaving` (before the deferred `removeReader`).  `Copy` is the inner loop of
`streamGrowingFile`, which runs to the frontier or the end of the range (`Limit`) without the
lock, as far as the file goes (`Readable`); `CopyFails` is an error of `ReadAt`, `Spin` a turn
without progress.  `changed.Broadcast()` is
`Awake`; the helper goroutine is `WakeAll`.  A timer has a number: `ticking` until
it fires or is stopped, in `callbacks` from its firing until its function has the
lock, so that a callback can be late for `Stop`.

Two names stand for files.  `part` is what the key's `.part` name has: nothing, what an earlier
session left by a `Rename` or a `Remove` that failed (`Leftovers` has its lengths), or the
session's own file, of `length` bytes.  `final` is what the `.artifact` name has, once the
session has put its own there or been told 304; then the prior file is there with one of
`KeptLengths` bytes, or is not, whatever the row says (`UseCached` looks at neither).  `opened` is
what a handler has open, which outlives the name.  After `Exit` the names belong to others
(`Shared`, if `Later`): `Found` admits their files, and a file left under the `.part` name may be
truncated and grow again (`Taken`).

A byte is its position.  A Range header is a record of its two numbers; parsing
the text is left out, `parseRange`'s decisions are not.  How upstream delimits a
body matters: with a length or with chunks `net/http` reports a short body as an
error, with `"close"` it cannot, and `BodyEOF` may come at any time.

### Cache and the code

What a file, a row or a response holds is the *generation* it was copied from: the
number of the edition upstream published, 0 for none; `Bytes` is its length.  `newest` is
auxiliary, the latest generation ever promoted under a key; a request notes it when it
begins (`floor`).  So is `cleaner.shrunk`: a row was recorded anew with fewer bytes since the
cleaner counted them.

| Variable | In the code |
| --- | --- |
| `live` | `Manager.sessions` |
| `session[s]` | a `session` and its goroutine |
| `client[c]` | a run of `serveResolved` and what its caller does after the response |
| `file`, `part` | `artifacts/<key>.artifact`, `partial/<key>.part` (the session that made it) |
| `row`, `watch` | the rows of `artifacts` and `watches` |
| `cleaner`, `refresher` | the two workers in the middle of a pass; the prefetch workers have no state here |

`Get`, `Hit`, `Miss`, `Touch`, `Start`, `Headers`, `OpenFile`, `Cached`, `Watch` are
the steps of a request; between any two of them anything else may happen.
`Candidate` is the look at the session map in `removeCandidate`, `Unlink` and the
two statements of `store.Delete` follow one by one.  `RefreshWatch` offers the
listed row for revalidation as the code does, without a look at its file.  `Prefetch`
is what a backend's worker calls: `Manager.Prefetch` or `PrefetchURL`, which read the row and
then start or join a session (`PrefetchStarts`), with anything between the two.
`Crash` keeps the files and the database and nothing else; `cache.New` empties the
partial directory.

A session's name is used again when nobody refers to it any more (`Free`): not its
goroutine, not a handler that still has to read its fields, no `.part` file of
another key.  So a few names stand for any number of sessions in a row.
A field that no later step reads takes its idle value again, as a local variable
ends; that halves the state spaces and hides nothing.  The fields of a session that is gone
stay while a handler or its `.part` file refers to them: a `Rename` that fails leaves the file.

`Shelf` sees of all this the file (`shelf`), the generation in the `.part` file (`partial`),
where the session of the map stands (`phase`, read off its `pc` by `Standing`), and the
requests between `Get` and the end of their response (`reader`).  A row, a hit or a miss, a
revalidation, a prefetch or a pass of a worker is no step of it, or one of a transfer.

### Catalog and the code

The two backends have the same code up to the tables' names, the number of indexes and
the word for "any architecture", which is the constant `AnyArch`.  A version is its
rank: `DebianOrders` and `ApkOrders` prove that the comparisons rank all strings.  What an
index says of an artifact (`About`) does not change, which versions it lists does (`Editions`).

| Variable | In the code |
| --- | --- |
| `row` | the rows of `apt_catalog` or `apk_catalog`: their `index_path` |
| `watch` | the rows of `package_watches` of one backend |
| `client[c]` | a handler after its response: it has parsed an index, or found the record of an artifact |
| `worker` | `RefreshPackageWatches` in the middle of a pass |
| `listed`, `asked`, `begun` | auxiliary: what each index listed when last recorded, the architectures asked for, the artifacts given to `Prefetch` |

`OpenCached` may read any edition: `Cache` evicts and refreshes the file meanwhile.
`ReplaceCatalog` is one transaction.  `RecordForArtifact` and `WatchPackageVariant` are two
statements with anything between them.  `Select` uses the listed variant and the rows of
its own moment; it takes any set that `Selection` admits, since the query has no order
and the map iteration none either, and `SelectionExact` compares `Selection` with the loop
of `selectRecords` (`ByVersion`).  `DeleteElsewhere` is there because the statement behind
`DeleteInactive` names no backend.

### Pypi and the code

| Variable | In the code |
| --- | --- |
| `watch` | the rows of `package_watches` of the backend, by project |
| `client[c]` | a handler: asking for a page (`base` counts the URLs that failed), or between the response with an artifact and `WatchPackage` |
| `worker` | `RefreshPackageWatches` in the middle of a pass: `doc` is what the upstream listed, `wanted` what is selected and not yet given to `PrefetchURL` |
| `signed`, `asked`, `begun` | auxiliary: the files whose links clients hold, the projects of which one was requested by such a link and in the cache thereafter, the files prefetched |

`AskNext` and `Page` are `fetchSimple` with its caller; `ProjectNext`, `ProjectRefused` and
`ProjectListed` are `fetchProject`, one step per URL.  A document is a sequence of files
with their release, packaging, upload time and whether they were yanked; a version is its
rank among strings, which is what `selectReleaseFiles` compares.  `SelectReleaseFiles` is the *set* of what may come
out, over every order in which Go may go through the map and every permutation `sort.Slice`
may leave.  A link is the file it is about; that it verifies is `Server`'s.  `ServeArtifact` is a request whose
response is over, in whatever way: the code asks only whether the artifact has a row.

### Versions and the code

A string is the sequence of its bytes.  `CompareDebianPart` and `CompareVersionBase` are
the loops, each a recursive function of the two positions that the code's `i` and `j` have
reached; `DebianTurn` and `ApkTurn` are one turn of them, and `Numbers` is what both do at
digits.  `Number` is what a loop makes of an epoch or a revision in an `int` of Go, which
wraps around behind `MaxInt`; `Value` is what the digits denote.

`DebianKey` and `ApkKey` map a string to a sequence of integers, and keys compare as strings
do: this is an order by construction, so that agreement with it is antisymmetry,
transitivity and totality at once.  Debian's key is the rule of Debian's policy manual.
`PairSpec` compares two versions of `Written` in both directions.  `OfDebian` and `OfApk`
are the versions that have the form the two are about; outside of it `DebianExact` and
`ApkExact` say nothing, since there is no order to be exact about.

### Config, Admin, Server and the code

| Variable | In the code |
| --- | --- |
| `session`, `enabled` | `Authenticator.sessions`, and whether there is an `Authenticator` |
| `request[r]` | a run of `configEditor` and `writeAtomically` |
| `config`, `temp` | the configuration file and the files `.homir-config-*` next to it |
| `phase`, `running`, `secret` | how far `main` and `NewWithConfigPath` are, the configuration that was loaded, `Handler.secret` |
| `key` | `pypi-link-signing.key` in each data directory |
| `links`, `trouble` | auxiliary: the keys of the links that clients hold; failures so far |

A text is what `yaml.Unmarshal` finds in it.  A file is a record: `text` is what a process
reads, `after` the set of contents a power loss may leave.  `Write` puts the text in and
leaves `after` torn, `Sync` settles it, `Rename` moves the file and adds what was there
before, since the directory is not synced (its deferred `Remove` finds nothing: `os.CreateTemp`
is taken not to draw a number again in the meantime); `Flush` is the system writing back by itself.
`SaveFails` is any failing call of a save with its deferred `Remove`, `RemoveFails` one whose
`Remove` fails as well: `RemoveTempFails` counts that with the failures of a process.
`CreateKey` and `WriteKey` are the two halves of `os.WriteFile`.  `Crash` keeps
files as they are, `PowerLoss` picks from `after` (a link whose key is lost is not counted
any more).  `Open`, `ReadFails` and `Check` are `ServeHTTP` and `configEditor` up to the
save: the session is looked up twice, by `Valid` and by `CSRF`, and may expire between the
two.

## 3. The runs

| Run | Bounds | What it shows |
| --- | --- | --- |
| `session_safety` | two clients, two bytes, a length or chunks, a Range and none, a client, a prefetch or the watch worker starts it, with and without a cached object, a longer `.part` file left over, a cached file that is shorter than its row says, later sessions | the safety properties of a shared download under every failure of upstream, disk and database, and that it implements `Transfer` |
| `session_live` | two clients, one byte, a body that ends with the connection, no later session | the liveness properties; upstream may stall for ever |
| `cache_restart` | one metadata object, two requests, two session names, two generations, crashes and failing statements of requests, no backup that lags | `OneTransfer`, `RowBacked`; that `Cache` implements `Shelf` (`FollowsStateMachine`), so no answer is older than what was complete |
| `cache_workers` | one artifact, a request, the cleanup, refresh and prefetch workers, failing statements on watches and of workers, a hand that removes files, two generations, two moments, no backup that lags | `RowDescribesFile`, `CachedIsPrior`, `EvictsForReason`, `Inductive` |
| `cache_capacity` | an artifact that shrinks from two bytes to one and a metadata object, a prefetch, a capacity of one | `EvictsForReason`, `CapacityRestored` |
| `catalog_safety` | two indexes, one package in two versions, the newer one for two architectures and for any, two editions, two moments, crashes and failing statements; all pairs of versions of up to three bytes, an `int` up to 15 | `RowsListed`, `OnlyRequested`, `WatchedByRequest`, `SelectionExact`; `DebianExact`, `ApkExact` |
| `server_safety` | two saves at a time, four texts, one token, two directories, two keys; failing calls, and a failing start, a failing `Remove`, a crash or a power loss; or two projects, three documents, one backup, two moments, upstreams and statements that fail, restarts | all of `Server`'s properties, `RecoversUnlessStuck` among them; `PrefetchesAsked`, `CheckedWhenListed`, `ReleasesExact` |
| `session_unavailable`, `session_visible`, `cache_lag`, `cache_race`, `cache_orphan` | the smallest instance that shows it | section 6 |

Every module that is checked for safety has its inductive invariant checked as well
(`Inductive` or `PypiInductive`, which contain the types).  Why the bounds are enough:

* *Two clients*: one that started the download and one that joins, or two that
  join a worker's; the counter goes from 2 to 1 and from 1 to 0, which are the two
  cases of `removeReader`.
* *Two bytes*: a frontier strictly inside the object, a range that starts behind it
  and one that ends after the object (`TooLong`), and a turn of the copy loop that
  brings part of the rest or all of it.  One byte is enough where the question is
  only whether something ever ends; that run has no Range.
* *`PartialTTL = 1`*: the model has no clock for it, only that the timer exists and
  fires at any later time.
* *Two generations*: a file that is older than what upstream has, which is all that
  the rules compare.
* *`InactivityTTL = WatchInterval = 0`* with one tick: the unit of the model's clock is longer
  than either, so that "older than the TTL" and "not older" both happen; metadata
  stays fresh for less than a tick (`Freshness`).
* *One artifact, or an artifact and an index*: keys meet only in the cleaner's list
  and total, which `cache_capacity` has two for.
* *Two bytes and one* (`Lengths`): the artifact shrinks with its second edition and the
  metadata object grows, so that the total, the list and the rows differ either way when a
  download ends in the middle of a pass.
* *One byte missing* (`SomeLengths`) and *one too many* (`SomeLeftovers`): a file that ends
  before the frontier, and one that would go on behind the object.
* *One session name* where a second session of the key could only follow the first
  when nobody refers to it any more; `cache_restart` has two, so that a request
  still holds the old session while a new one writes, and both requests could start one.

Next to some actions stands a plausible mistake in the same code: `FinishQuietly` is a
`finish` without its `Broadcast`, `BodyEOFUnchecked` a copy loop that takes any error for
the end, `BodyEOFRecordsFirst` a row written before the file is in place.  No
specification uses them; `PROJECT.json` ("mutants") says which property each one breaks
when it takes the place of the action, in the same run and with the same bounds.

* *One handler at a time* in `catalog_safety` and of `Pypi`: what a handler writes depends on what it read
  earlier, and `OpenCached` admits every edition, so a second one adds no write that the
  first cannot do; the worker interleaves with each step.  `Limit = 1` makes the cut matter,
  and the *two editions* share one artifact, which the indexes take from each other.

* *Three documents* of `Pypi`: two releases of one time, which their files only have
  together; a release with a wheel for any platform behind one for a single platform and a
  source distribution; a newest release that was yanked; a second project.
* *Three bytes*, over `0`, `1`, a letter, a tilde and a dash: leading zeros, numbers of
  different length whose text order is the other one (`11`, `100`), an end against a
  tilde, a dash in the text and a revision, an epoch.  Longer strings repeat the loop.
  With `MaxInt = 15` no number of these wraps around.  The theorems are about strings of
  every length and any `MaxInt`.
* *Four texts*: the first one; one that moves the data directory, so that a save and a
  restart change which key is in use, and back; one with a bad `password_hash`; one that
  `Parse` refuses.
* *Steps that are left out* of `server_safety`, since nobody could tell: the clock only ticks while a
  session is open (`Timely`), because `Valid` alone looks at it, and the process that serves PyPI has
  always drawn the same key, because no step of `Pypi` looks at it.
* *`MaxTrouble = 1`*: one failing start, failing `Remove`, crash or power loss, at every step; the
  other failing file operations of saves are not counted.  The theorems of `Server` have no such
  bound: `MaxTrouble` is any number.  *One token*: two requests share a session,
  and a form is the session's or has no token that counts; sessions of several tokens
  only meet in `session`, which the theorem `SavesTheirOwn` quantifies over.

No run has much more than two million distinct states, and every action and every
disjunct of all next-state relations fires in the passing ones.  A crash while the
cleanup or the refresh worker is in a pass is not in these runs; the theorems of `Cache` cover it.

The proofs of section 5 do not depend on any of these numbers.

## 4. Fairness

`Session` (`LocalFairness`): the goroutines run.  Weak fairness is assumed for what
`download` does without upstream (`Proceed`), for the handler steps that wait for nobody
(`Handle`), for timers and their callbacks, for the helper goroutine and for
`keepAlive` after a prefetch joined.  `Respond` is fair because the transport has a
`ResponseHeaderTimeout` and a dialer timeout: `fetch` comes back.  `BodyCancelled` is
fair because a cancelled context ends `Body.Read`.

*Not* fair: `Transmit` (nothing bounds how long `Body.Read` blocks), `Copy` (a client
may stop reading for ever), `Join` and `Disconnect`.  `HandlersEnd` and `AbandonedEnds`
hold nevertheless: those are what the helper goroutine and the idle timer are for.
`HandlersEnd` has one premise, that of its run: no later session shortens the file (`Later` is
false).  Otherwise a handler may spin over it for ever, whether its client is there or not
(section 6).
`EveryRequestEnds` needs both and says so: `Flowing` is its premise.

`Cache` (`CleaningSpec`): only the cleanup worker is fair; its loop always starts
another pass.  `CapacityRestored` asks that the cache has come to rest
(`<>[]Still`): an object in use is skipped by design, and a download may finish
after any pass.

`Server` (`FairSpec`): `Start` is weakly fair.  A process that is started goes on, and
one that has ended is started again: `compose.yaml:5` says `restart: unless-stopped`.
Nothing else is fair; `trouble` is bounded, so that at some time the last failure is
over.

`Catalog`, `Pypi` and `Versions` have no liveness property, and no fairness.

Deadlock is checked in every run: `Session` stops only in `Finished`, the others never.

## 5. What is proved

All theorems hold for every value of the constants that `SessionAssumption`,
`CacheAssumption`, `CatalogAssumption`, `ArtifactsAssumption`, `PypiAssumption`,
`VersionsAssumption`, `AdminAssumption` and `ServerAssumption` admit (the artifacts of an upstream are finitely many,
"all" and "noarch" are not empty, ranks of versions and upload times are natural numbers, an
epoch is written in digits): any finite set of clients, keys and sessions, any size, any framings and headers, any number of generations and moments, any faults, any
indexes, packages and architectures, any projects and documents, any texts, requests,
tokens, names, directories and keys, any number of crashes.

**Session.**  `Inductive` is the invariant; its parts, and why the properties alone
are not enough:

* `TypeOK` has the bounds of a range: that `parseRange` clamps the end to the length
  is what keeps `offset` inside the object.
* `Settled` and `Frontier` tie the verdict, `available` and `filePath` to the line of
  `download`; without them `finish` could come twice or bytes be announced late.
* `Whole`: past the copy loop everything has been announced.  This is where a framing
  that shows its end is needed.
* `Held`: the file of the session is as long as what was written to it, also after it was
  renamed, and readers learn its name only with the response.  `AnnouncedIsStored` is about
  the file that a handler has open, which may be under another name by now, or under none.
* `Stored`: what is on the disk and in the table at each line; `SuccessIsDurable`
  follows at `finish(nil)`.  It has one exception, which the code has as well: `Unfounded`, a
  304 for a row whose file was not there, or of another length, before the session began.
* `Handlers`, `Bounded`, `Woken`: a handler has a path from its headers on and an
  outcome from its return on; it never sends past its range; the helper broadcasts
  only after the client has gone.  `NoLostWakeup` and `DoneMeansWhole` need them.

From it follow `TypeCorrect`, `ReadersCounted`, `FrontierStored`, `WakeupsArrive`, `SuccessDurable`,
`PromotionsExact`, `VerdictFinal` and `NoCancelServed` (the timer's function tests `readers = 0`, and
`ReaderCount` makes that mean what it says), and `ResponsesWhole` for framings other than
`"close"`.  With `"close"` that one is false: a connection that breaks looks like the end of
the object, which is then recorded as complete (section 6).  `PromotionsExact` needs the
`O_TRUNC` of `OpenPart`: a `Rename` or a `Remove` that failed may have left a longer file.

`SessionKeepsPromise`: every initial state of `Session` is one of `Transfer` and every
step is a step of `Transfer` or leaves it alone.  The mapping reads the status off
`complete` and `err`, what a reader asked for off the range and its clamped end, and
the verdict off the outcome.  The invariant is used where the code relies on what
another goroutine did: `Succeed` needs `Whole`, `Serve` needs `Delivered`.

**Cache.**  Again one invariant, `Inductive`, and one lemma per part:

* `Mapped` (with `OneTransfer`): the map and the running sessions are the same, key
  by key.  `Exit` leaves the map only when the goroutine has nothing left to do, and
  `GetOrStart` adds only under a free key.
* `PartExclusive` and `Answered`: the `.part` file under a key belongs to the session
  at work, which has a generation from its response on; so `Rename` promotes what
  its own session wrote.
* `Promoted` and `Remembered`: generations only go forward, in the file, in the row
  and in whatever a request or a worker still remembers.  `CachedIsPrior` and
  `AnswersNeverOlder` (with `NeverOlder`, which no run states) need them.
* `Agreed`: row and file differ at most between `Rename` and `Complete`.
* `Backed`: what was promoted stays, where nothing removes files.
* `Listed`: a key is at most once on the cleaner's list, and what is on the list of the first
  pass was inactive when it was read.
* `Counted`: the cleaner subtracts the sizes on its list from a total it took before, while
  rows are added, replaced and touched.  As long as no row was recorded anew with fewer bytes
  (`cleaner.shrunk`), the total is at most `Claimed`: the bytes on the list for what is on
  it, those in the rows for the rest.  So an eviction decided on an old total is justified at
  its own moment (`EvictionsJustified`), but for the two exceptions that `EvictsForReason`
  names: an artifact used since it was listed, and a row that shrank.

Each premise is one the property needs, not the proof:

| Theorem | Premise | Without it |
| --- | --- | --- |
| `AnswersNeverOlder`, `RevalidatedInPlace` | no lagging backup | a backup that serves an older edition replaces a newer file |
| `RowsDescribeFiles` | no crash, no failing statement | the process dies between `Rename` and `Complete`: new file, old row, until the next download |
| `RowsBacked` | no cleanup, no hand | removal of the file precedes that of the row |
| `StateMachineFollowed` | no lagging backup | the same: the state machine never puts an older object in place |

`TransfersShared`, `PartsExclusive` and `EvictionsJustified` have none.  The run `cache_lag`
shows what a backup that lags does (section 6).

`CacheRefinement`: every step of `Cache` is a step of `Shelf` or leaves it alone
(`StateMachineFollowed`).  One lemma says what each step of a download does to the two
entries of its key (`DownloadImplements`; `OtherKeys`: and to no other), one what a step of a
request means to its reader (`RequestMeans`: it asks, waits, is answered or leaves), one each is about
`getOrStart`, the workers, the world and a crash.  The invariant is used where the code relies on
others: `Promote` needs that the file renamed is the session's own (`PartExclusive`), holds
something (`Answered`) and is not older than what was there (`Promoted`); `Open`, `Discard`
and `Record` that the session at work is the one in the map (`OneTransfer`), so that no
second one moves the same phase; `Begin` that a name is only used again when no other key
has a file of it (`Free`).  It needs one invariant more, `Unanswered`: a request that has not
opened a file has been sent nothing, so it is answered once.

**Catalog.**  `Inductive` adds to the properties what is carried between two steps:
`Handling` (an architecture counts as asked for before its watch is written) and `Wanted`
(every variant, in the table, in the worker's list and behind what it wants, has been
asked for).  `asked` only grows and `Selection` yields what fits the variant
(`SelectionFits`), so `PrefetchesRequested` survives every overwriting of variants.
`RowsAreListed` needs that the transaction deletes by index before it writes: a row that is
left names another index or an artifact that is still listed.

`SelectsExactly` is about the loop of `selectRecords`, a recursive function over the rows
in the order of the query.  Its loop invariant is `Kept` (`LoopKept`): the map has for each version
one of the rows met so far that fit, and one of the very architecture where such a row has
been met.  That the recursive function is what its turns make of the rows is lemma `Loop`
of `Orders`, an induction over a list by its least counterexample.  `SelectRecordsExact` has
both directions: what the loop yields for an order is a `Selection` (`SelectsSelection`), and for
every `Selection` there is an order of the rows that leads to it (`SelectionReached`).

**Pypi.**  `PypiInductive` is `PypiType` with `Provenance`: a project on its way into the
table, in it, in the worker's list or under its hands is `asked` for, and `asked` only grows; what
`SelectReleaseFiles` yields is listed in the document and not yanked (lemma `Selected`),
and a document is only taken when it is about the project.  `PrefetchesOnlyAsked`
and `ChecksWhenListed` follow.  Asked for is not served: section 6.

`SelectsNewest` is about sorting.  `Before` is a strict total order of the releases of a document
(`ReleasesOrdered`: where their times are equal, their versions are not), and for such an order
there is exactly one list that follows it (`OneOrder` of `Orders`: the place of an
element is the number of those ahead of it).  So whatever order Go's map gave, and although
`sort.Slice` is not stable, one list and one selection come out, and `SelectionOfDocument`
shows that it is the one described.

**Versions.**  The argument is by keys.  A recursive definition says nothing before it is
known that such a function exists: lemma `Recursion` of `Orders` shows it for functions that
look only at what comes later, by the least place from which on they are defined.  `KeyIs`
gets the key of every suffix from it, `DebianIs` and `ApkIs` the loop at every pair of
positions.  The core are `DebianTurns` and `ApkTurns`: a turn decides as the keys of what is
left do (`GoesOn`), or goes on at later positions whose keys compare the same way; two
functions that do this agree (`FollowSame`, from the end of both strings).  At digits
this rests on three facts: zeros in front do not count (`ValueZeros`), of two numbers that
begin otherwise the longer one is greater (`ValueLonger`), and of two that are as long the one
whose first different digit is greater (`ValueFirst`).  Where a digit meets a letter or
the end its value does not count: that is why a key puts a weight of the number as such
before its value.

`DebianIsExact` and `ApkIsExact` add the parts.  `SplitDebianVersion` and `SplitVersion` cut a
written version where it was joined (`DebianSplits`, `ApkSplits`), which is what `OfDebian` and
`OfApk` are for; the number read in an `int` is the value while that is at most
`MaxInt` (`NumberIs`); and a missing revision counts as 0 (`RevisionKey`).

`DebianOrders` and `ApkOrders` need no premise at all: whatever two strings are given,
the comparison is reflexive, changes its sign with its arguments, and is transitive with what
compares equal (`Ordered`).  Epochs that wrap around are ranked wrongly, but ranked.  So
`selectRecords` and the `sort.Slice` of the backends get from them what they need.

**Server.**  `Inductive` has three parts besides `TypeOK`:

* `Saves`: a save under way has an accepted text from a form of its session, and a file of
  its own that holds it from `Write` on and for good from `Sync` on.  That names are
  unused when `CreateTemp` picks them is what keeps two saves apart.
* `Keys`: the key in memory, the one in the file and those of the links agree, step by
  step of the start-up.  `ReadSecret` must not draw a key where there is one.
* `Quiet`: without an `Authenticator` there are no requests.

`ConfigAlwaysLoads` is inductive with them: `Rename` adds what `Saves` says to
`config.after`.  `RunsOnUsable` is a fact about `Config`: what `Validate` accepts, `Lifecycle`
resolves to positive numbers, because a zero count means a default and a zero duration is
refused.  `TidiesUp` counts the troubles: only the end of a process, or a `Remove` that fails,
leaves a temporary file that belongs to no save.

**Only model-checked**: the liveness properties `HandlersEnd`, `AbandonedEnds`,
`EveryRequestEnds`, `CapacityRestored` and `RecoversUnlessStuck` (they rest on fairness, which
the prover cannot reason about), `WatchedByRequest` of `Catalog`, and the five violations of
section 6.  Every other invariant and action property of the passing runs is stated by a theorem.

## 6. Where the code and its documents disagree

Each has a run of its own with a counterexample.

1. `session_unavailable`: a reader copies `filePath` (`cache.go:375`), `os.Rename`
   (`:283`) takes that name away, `os.Open` (`:401`) fails; the reader gets 500 although
   the download succeeds.  `docs/ARCHITECTURE.md:53` says that a joining reader serves
   what is there and then waits.
2. `session_visible`: without a `Content-Length` from upstream none is sent; when the
   transfer then fails, the handler only logs it (`:407-409`) and returns, and `net/http`
   ends the chunked response as a complete one.  `docs/ARCHITECTURE.md:58`: readers
   receive an appropriate transfer failure.
3. `cache_lag`: when the primary fails, `fetch` (`:302-326`) takes what a backup has, and
   `download` renames it over the object in place (`:283`).  A backup that lags replaces a
   newer object by an older one.  `docs/ARCHITECTURE.md:70-73`: an upstream inconsistency
   "does not silently replace a valid object in place".  `CachedIsPrior` and
   `FollowsStateMachine` are about upstreams that agree.
4. `cache_race`: a session starts between the look at the map and `os.Remove`
   (`:754`), and the object in use is evicted.  `cache.go:702-703` and `README.md:63-64`
   exclude it.
5. `cache_orphan`: a crash, or an error of `store.Complete`, after `os.Rename` leaves a
   file without a row, which no query of the cleaner sees.  `docs/PROJECT_PLAN.md:199`.

Met while modelling, without a run of their own:

* A timer's callback that was already waiting for the lock when `keepAlive` or
  `addReader` stopped it does not know that: it cancels a prefetch, or a download
  before the `partial_ttl` that is running.
* A request that joins a session just cancelled by its timer is answered 502.
* A body that ends with its connection is recorded as complete when the connection is
  cut.
* The `ReadAt` loop (`cache.go:491-509`) does not look at its context, and a read that yields nothing
  at the end of the file is no error to it.  Over a file that is shorter than announced it spins for
  ever, whether its client is there or not.  `AnnouncedIsStored` says where that can be: over a file
  of a later session, or one left under the `.part` name that a later session truncates, and
  after a 304 for a row that tells another length than the file has.
* A worker's session that no client ever joins has no idle timer; a stalled upstream
  keeps its key in the map.
* A 304 for a row whose file is gone "succeeds": the readers are sent to a file that is
  not there, and the row's `created_at` is renewed.  This is `Unfounded`, the exception of
  `SuccessIsDurable`.
* A slow reader opens by name what a later session has put there (nothing older, unless a
  backup lags: `AnswersNeverOlder`).
* An artifact used after the cleaner's list was taken is evicted all the same
  (`README.md:59-64` calls inactive what was not used), and one that is revalidated in the
  background counts as used.  A row that is recorded anew with fewer bytes after the cleaner
  counted makes it evict below the capacity.  Both are exceptions of `EvictsForReason`.
* The errors of `os.Remove` are dropped (`cache.go:233,241,261,271,277`, `admin/handler.go:143`): one that fails
  leaves the `.part` file until the next session of the key or the next start, and a
  `.homir-config-*` file for good.
* An eviction between `Cached` and `Watch` leaves a watch without an artifact (foreign keys
  are not enforced); it is never due and expires by itself.
* `CheckedWatch` stamps a watch when its refresh has started: one that fails is not
  retried before the next interval.
* While the length is unknown `parseRange` (`:805`) refuses every Range with 416, also one of
  bytes that are on the disk.
* A row that one index takes over and then drops is gone although another still lists the
  artifact (`store.go:250`); so it is with the `Packages`, `.gz` and `.xz` forms of one
  index.  The next request for the other brings it back.
* The handler that opened an older edition of an index may be the last to record it.
* `package_watches` has one variant for a package (`store.go:373`): of two architectures in use
  only the one asked for last is prefetched.
* A record without an architecture makes an empty variant, and everything fits that.
* A request that was answered with an error or 416, a `HEAD` and an aborted transfer still reach
  `Cached` and `Watch` (`cache.go:116`, `pypi/handler.go:120-123`) and make or renew a watch if the row is
  there by then.  `README.md:85` speaks of artifacts "successfully served",
  `docs/PROJECT_PLAN.md:70` of successful downloads.  `PrefetchesAsked` therefore speaks of requests.
* A request that found no row calls `getOrStart` after the session in progress has ended,
  and downloads again what is complete (`cache.go:191`).
* Only an index at the root of an APK upstream is parsed (`apk/handler.go:57`).
* `loadSecret` creates the signing key with `os.WriteFile` (`pypi/handler.go:56`), which makes the
  file and then fills it.  A process killed in between leaves a key of the wrong length,
  every later start refuses it (`:45-46`), and the service does not come back
  (`docs/PROJECT_PLAN.md:202`: it "recovers cleanly after a container restart").
* `Parse` accepts a `password_hash` that `NewAuth` refuses: the editor saves it, and no later start
  succeeds until the file is mended by hand.  `RecoversUnlessStuck` excepts this case and the
  half-written key as `Stuck`, and nothing else.
* A save cut short by the end of the process leaves a `.homir-config-*` file that nothing removes.
* PyPI's client is `http.DefaultClient`, without a timeout (`pypi/handler.go:40`): an upstream that
  accepts a connection and never answers is never given up for a backup, and the
  prefetch worker waits with it.
* A 404 of PyPI's primary ends the walk; a 502 does not.
* PyPI versions of one upload time are ordered as strings: 1.9 before 1.10.
* `apkVersionCompare` takes `1.2_rc1` for newer than `1.2`; its comment only claims the
  form without suffixes.
* Versions that differ as strings and not in order (`1.0`, `1.00`) count twice against
  `prefetch_versions` (`byVersion`).

## 7. What is not modelled

* `store.migrate`: each statement is a transaction of SQLite that does nothing the second
  time, so a crash between two is repaired by the next start; its result is `Init` of the
  modules.
* The walk of `fetch` over primary and backups is one answer of `Cache` (`Published`), which
  admits a backup that lags: the steps between the URLs touch no shared state.  `Pypi`
  has the other two walks step by step.
* Routing, path validation, and the headers of conditional requests.
* `Server.Close`: `main` ends by `os.Exit`, so it only runs in tests.
* Parsing of package indexes, HTML rewriting, HMAC and base64, YAML, Argon2id, page
  rendering, logging, and the HTTP and SQLite libraries beyond the behaviour described
  above.

Left to do, in this order: two backends that share one `Cache` (the artifacts a worker
prefetches count against the capacity that the cleaner restores); `Session` as a refinement
of the outline in `Cache`.
