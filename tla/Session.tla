------------------------------ MODULE Session ------------------------------
(***************************************************************************)
(* One shared download of internal/cache: the session struct, the          *)
(* goroutine that runs download, the HTTP handlers that run serveSession   *)
(* and streamGrowingFile on it, and the idle timer that cancels it.        *)
(*                                                                         *)
(* Every critical section on session.mu is one action; so is every step on *)
(* the disk or the database between two of them.  A byte of the object is  *)
(* only its position, and a file is what it is and how long.               *)
(*                                                                         *)
(* While the session is in the map its key's files are its own; the        *)
(* cleaner, which may remove the file in place of a session that it did    *)
(* not see, is module Cache's.  Afterwards the names belong to others.     *)
(***************************************************************************)
EXTENDS Integers, FiniteSets

CONSTANTS
  Clients,     \* the requests for this key that may reach serveSession
  Size,        \* the length of the upstream object
  Framings,    \* how upstream may delimit its response body
  Headers,     \* the Range headers the clients may send
  Starters,    \* who may have created the session: a client or a worker
  Priors,      \* whether it may have started with a cached object: a BOOLEAN set
  PartialTTL,  \* lifecycle.partial_ttl: the idle timer exists iff positive
  Leftovers,   \* the lengths of a .part file that an earlier session left
  KeptLengths, \* the lengths of the cached file; its row says Size
  Later        \* whether later sessions and the cleaner get at the files

Workers == {"prefetch", "watch"}

AllFramings == {"length", "chunked", "close"}

\* A Range header after its syntax is accepted; to = -1 when it is left open.
RangeHeader == [ranged : BOOLEAN, from : Nat, to : Nat \cup {-1}]

ASSUME SessionAssumption ==
  /\ IsFiniteSet(Clients)
  /\ Size \in Nat
  /\ Framings \subseteq AllFramings
  /\ Headers \subseteq RangeHeader
  /\ Starters \subseteq (Clients \cup Workers)
  /\ Priors \subseteq BOOLEAN
  /\ Clients \cap Workers = {}
  /\ PartialTTL \in Nat /\ Later \in BOOLEAN
  /\ Leftovers \subseteq Nat /\ KeptLengths \subseteq Nat

VARIABLES
  \* fields of the session struct, guarded by session.mu
  total,         \* ContentLength of the response, -1 while unknown
  available,     \* bytes announced to the readers
  complete,      \* finish was called (the channel done is closed with it)
  err,           \* finish was called with an error
  ready,         \* the channel ready is closed
  filePath,      \* "part" or "final": the file a new reader must open
  readers,       \* handlers between addReader and removeReader
  background,    \* keepAlive was called
  idleTimer,     \* the timer the session points at, 0 for nil
  \* the runtime's view of the timers and of the download's context
  ticking,       \* idleTimer was started and neither fired nor stopped
  callbacks,     \* fired timers whose function has not yet taken session.mu
  lastTimer,     \* the number of timers created so far
  ctxCancelled,  \* the context of the download is cancelled
  \* the disk and the database, as far as this key is concerned
  part,          \* under the .part name: "none", a "prior" file or the "own"
  written,       \* bytes that this session has written to its own file
  length,        \* the length of that file, at first of the one left over
  final,         \* under the .artifact name, once the session has looked at it
                 \* or put it there: "none", a "prior" file or its "own"
  kept,          \* the length of that prior file
  recorded,      \* the artifacts row has the length of that file
  \* the download goroutine
  dl,            \* where it is
  prior,         \* a cached object was offered, and may yet be confirmed
  framing,       \* how the response in progress is delimited
  inMap,         \* Manager.sessions[key] is this session
  keeper,        \* the Prefetch call: "idle", "joined" or "done"
  \* the handlers
  pc, hdr, offset, stop, seen, path, opened, ctxDone, woken, outcome

stream  == <<total, available, complete, err, ready, filePath>>
lease   == <<readers, background, idleTimer, ticking, callbacks, lastTimer>>
disk    == <<part, written, length, final, kept, recorded>>
routine == <<dl, prior, framing, inMap>>
request == <<hdr, offset, stop, seen, path, opened, ctxDone, woken, outcome>>

vars == <<stream, lease, ctxCancelled, disk, routine, keeper, pc, request>>

-----------------------------------------------------------------------------
(* Helpers.                                                                *)

\* parseRange, split into its verdict and the two offsets it returns.
Satisfiable(h, tot) ==
  \/ ~h.ranged
  \/ tot >= 0 /\ h.from < tot /\ (h.to = -1 \/ h.from <= h.to)

RangeStart(h) == IF h.ranged THEN h.from ELSE 0

RangeEnd(h, tot) ==
  IF ~h.ranged THEN -1
  ELSE IF h.to = -1 \/ h.to >= tot THEN tot - 1 ELSE h.to

\* changed.Broadcast(): every goroutine in changed.Wait() re-enters its loop.
Awake == [c \in Clients |-> IF pc[c] = "waiting" THEN "streaming" ELSE pc[c]]

\* idleTimer.Stop() and idleTimer = nil; a timer that fired is not recalled.
StopTimer == idleTimer' = 0 /\ ticking' = FALSE

\* Once the session has left the map, its names are open to later sessions of
\* the key, which truncate, rename and remove, and to the cleaner.
Shared == Later /\ ~inMap

\* What os.Open may find under a name.
Found(p) ==
  ({IF p = "part" THEN part ELSE final} \cup IF Shared THEN {"other"} ELSE {}) \ {"none"}

\* A file that a handler has open may be as long as another session makes it:
\* if it is another's, or was left where the next OpenFile truncates it.
Taken(c) == opened[c] = "other" \/ (opened[c] = "own" /\ part = "own" /\ Shared)

Readable(c) ==
  IF Taken(c) THEN 0..Size ELSE IF opened[c] = "own" THEN {length} ELSE {kept}

FinishQuietly(e) ==
  /\ StopTimer
  /\ err' = e
  /\ complete' = TRUE
  /\ ready' = TRUE
  /\ UNCHANGED <<total, available, filePath, readers, background, callbacks,
                 lastTimer, ctxCancelled, keeper, pc, request>>

\* session.finish(e)
Finish(e) ==
  /\ StopTimer
  /\ err' = e
  /\ complete' = TRUE
  /\ ready' = TRUE
  /\ pc' = Awake
  /\ UNCHANGED <<total, available, filePath, readers, background, callbacks,
                 lastTimer, ctxCancelled, keeper, request>>

\* A step of the download goroutine that touches neither session.mu nor
\* the handlers.
Silent == UNCHANGED <<stream, lease, ctxCancelled, keeper, pc, request>>

-----------------------------------------------------------------------------
(* The download goroutine.                                                 *)

Goto(from, to) == dl = from /\ dl' = to /\ UNCHANGED <<prior, framing, inMap>>

OpenPartAppends ==
  \/ /\ Goto("open", "fetch") /\ Silent
     /\ part' = "own" /\ UNCHANGED <<written, length, final, kept, recorded>>
  \/ Goto("open", "exit") /\ Finish(TRUE) /\ UNCHANGED disk

\* os.OpenFile with O_TRUNC: what was left under the name is gone.
OpenPart ==
  \/ /\ Goto("open", "fetch") /\ Silent
     /\ part' = "own" /\ length' = 0 /\ UNCHANGED <<written, final, kept, recorded>>
  \/ Goto("open", "exit") /\ Finish(TRUE) /\ UNCHANGED disk

\* fetch or fetchURL returned an error, a cancelled context among them, or a
\* 304 came back although no cached object was offered for revalidation.
FetchFails == Goto("fetch", "remove") /\ Finish(TRUE) /\ UNCHANGED disk

\* A 200 response: setHeaders publishes its length, if it has one.  Whether a
\* cached object was offered does not matter any more.
FetchBody(f) ==
  /\ dl = "fetch" /\ dl' = "body"
  /\ framing' = f
  /\ total' = IF f = "length" THEN Size ELSE -1
  /\ ready' = TRUE
  /\ prior' = FALSE
  /\ UNCHANGED <<available, complete, err, filePath, lease, ctxCancelled, disk,
                 inMap, keeper, pc, request>>

\* os.Remove of the .part file; its error is dropped.
Remove == part' \in {"none", part} /\ UNCHANGED <<written, length, final, kept, recorded>>

\* A 304 response to a conditional request: the .part file is not needed.
NotModified ==
  /\ prior
  /\ Goto("fetch", "cached") /\ Silent /\ Remove

\* setCachedFile: the readers are sent to the object that was cached before,
\* and told the length that its row has.  Nobody looks at the file: it may be
\* gone, or another one than the row describes, if a restart or a failing
\* statement came between the two.
UseCached ==
  /\ Goto("cached", "revalidate")
  /\ filePath' = "final" /\ total' = Size /\ available' = Size
  /\ ready' = TRUE
  /\ pc' = Awake
  /\ \/ final' = "none" /\ kept' = 0 /\ recorded' = FALSE
     \/ final' = "prior" /\ kept' \in KeptLengths /\ recorded' = (kept' = Size)
  /\ UNCHANGED <<complete, err, lease, ctxCancelled, part, written, length, keeper,
                 request>>

RevalidateFallsThrough ==
  \/ Goto("revalidate", "finish") /\ Silent /\ UNCHANGED disk
  \/ Goto("revalidate", "finish") /\ Finish(TRUE) /\ UNCHANGED disk

Revalidate ==
  \/ Goto("revalidate", "finish") /\ Silent /\ UNCHANGED disk
  \/ Goto("revalidate", "exit") /\ Finish(TRUE) /\ UNCHANGED disk

ReadBodyAnnouncesFirst(n) ==
  /\ Goto("body", "body")
  /\ available' = available + n
  /\ pc' = Awake
  /\ UNCHANGED <<total, complete, err, ready, filePath, lease, ctxCancelled,
                 disk, keeper, request>>

\* One turn of the copy loop reads up to n bytes and writes them to the .part
\* file, which may fail ...
ReadBody(n) ==
  \/ /\ Goto("body", "announce") /\ Silent
     /\ written' = written + n
     /\ length' = IF length > written' THEN length ELSE written'
     /\ UNCHANGED <<part, final, kept, recorded>>
  \/ Goto("body", "remove") /\ Finish(TRUE) /\ UNCHANGED disk

AnnounceQuietly ==
  /\ Goto("announce", "body")
  /\ available' = written
  /\ UNCHANGED <<total, complete, err, ready, filePath, lease, ctxCancelled,
                 disk, keeper, pc, request>>

\* ... and addAvailable(n) makes them visible.
Announce ==
  /\ Goto("announce", "body")
  /\ available' = written
  /\ pc' = Awake
  /\ UNCHANGED <<total, complete, err, ready, filePath, lease, ctxCancelled,
                 disk, keeper, request>>

\* The transfer breaks off: Body.Read returns an error.
BodyFails == Goto("body", "remove") /\ Finish(TRUE) /\ UNCHANGED disk

\* A cancelled context is one way for Body.Read to return an error.
BodyCancelled == ctxCancelled /\ BodyFails

BodyEOFUnchecked == Goto("body", "sync") /\ Silent /\ UNCHANGED disk

\* io.EOF.  net/http reports a short body as io.ErrUnexpectedEOF when the
\* response has a length or chunks; one that ends with the connection is
\* over whenever the connection is.
BodyEOF ==
  /\ written = Size \/ framing = "close"
  /\ Goto("body", "sync") /\ Silent /\ UNCHANGED disk

Sync ==
  \/ Goto("sync", "rename") /\ Silent /\ UNCHANGED disk
  \/ Goto("sync", "remove") /\ Finish(TRUE) /\ UNCHANGED disk

\* os.Rename promotes the .part file; the row, if any, is now out of date.
Rename ==
  \/ /\ Goto("rename", "setpath") /\ Silent
     /\ part' = "none" /\ final' = "own" /\ recorded' = FALSE
     /\ UNCHANGED <<written, length, kept>>
  \/ Goto("rename", "exit") /\ Finish(TRUE) /\ UNCHANGED disk

SetFilePath ==
  /\ Goto("setpath", "record")
  /\ filePath' = "final"
  /\ UNCHANGED <<total, available, complete, err, ready, lease, ctxCancelled,
                 disk, keeper, pc, request>>

RecordIgnoresError ==
  /\ Goto("record", "finish") /\ Silent
  /\ recorded' \in BOOLEAN /\ UNCHANGED <<part, written, length, final, kept>>

\* store.Complete
Record ==
  \/ /\ Goto("record", "finish") /\ Silent
     /\ recorded' = TRUE /\ UNCHANGED <<part, written, length, final, kept>>
  \/ Goto("record", "exit") /\ Finish(TRUE) /\ UNCHANGED disk

FinishOK == Goto("finish", "exit") /\ Finish(FALSE) /\ UNCHANGED disk

RemovePart == Goto("remove", "exit") /\ Silent /\ Remove

\* The deferred calls: the session leaves the map, then its context ends.
Exit ==
  /\ dl = "exit" /\ dl' = "gone"
  /\ inMap' = FALSE
  /\ ctxCancelled' = TRUE
  /\ UNCHANGED <<stream, lease, disk, prior, framing, keeper, pc, request>>

-----------------------------------------------------------------------------
(* The idle timer and the Prefetch caller.                                 *)

TimerFires ==
  /\ ticking
  /\ ticking' = FALSE
  /\ callbacks' = callbacks \cup {idleTimer}
  /\ UNCHANGED <<stream, readers, background, idleTimer, lastTimer,
                 ctxCancelled, disk, routine, keeper, pc, request>>

IdleCallbackUnchecked(t) ==
  /\ t \in callbacks
  /\ callbacks' = callbacks \ {t}
  /\ ctxCancelled' = (ctxCancelled \/ ~complete)
  /\ UNCHANGED <<stream, readers, background, idleTimer, ticking, lastTimer,
                 disk, routine, keeper, pc, request>>

\* The function given to time.AfterFunc, once it holds session.mu.
IdleCallback(t) ==
  /\ t \in callbacks
  /\ callbacks' = callbacks \ {t}
  /\ ctxCancelled' = (ctxCancelled \/ (readers = 0 /\ ~complete))
  /\ UNCHANGED <<stream, readers, background, idleTimer, ticking, lastTimer,
                 disk, routine, keeper, pc, request>>

\* getOrStart of Prefetch or PrefetchURL finds this session ...
PrefetchJoins ==
  /\ keeper = "idle" /\ inMap
  /\ keeper' = "joined"
  /\ UNCHANGED <<stream, lease, ctxCancelled, disk, routine, pc, request>>

\* ... and then calls keepAlive on it.
KeepAlive ==
  /\ keeper = "joined"
  /\ keeper' = "done"
  /\ background' = TRUE
  /\ StopTimer
  /\ UNCHANGED <<stream, readers, callbacks, lastTimer, ctxCancelled, disk,
                 routine, pc, request>>

-----------------------------------------------------------------------------
(* A handler: serveSession, then streamGrowingFile.                        *)

Step(c, from, to) == pc[c] = from /\ pc' = [pc EXCEPT ![c] = to]

\* What a handler does without session.mu leaves everything shared alone.
Private == UNCHANGED <<stream, lease, ctxCancelled, disk, routine, keeper>>

\* The handler returns: the file is closed, the deferred removeReader is next.
Return(c, from, o) ==
  /\ Step(c, from, "leaving")
  /\ outcome' = [outcome EXCEPT ![c] = o]
  /\ opened' = [opened EXCEPT ![c] = "none"]
  /\ Private
  /\ UNCHANGED <<hdr, offset, stop, seen, path, ctxDone, woken>>

\* getOrStart returns the session it found in the map.
Join(c) == inMap /\ Step(c, "idle", "joined") /\ Private /\ UNCHANGED request

AddReader(c) ==
  /\ Step(c, "joined", "attached")
  /\ readers' = readers + 1
  /\ StopTimer
  /\ UNCHANGED <<stream, background, callbacks, lastTimer, ctxCancelled, disk,
                 routine, keeper, request>>

AnswerBadGatewayLeaks(c) ==
  /\ ready /\ err /\ Step(c, "attached", "gone")
  /\ Private /\ UNCHANGED request

\* After <-ready or <-done: the fields are copied, and the copy decides.
AnswerBadGateway(c)  == ready /\ err /\ Return(c, "attached", "bad gateway")

AnswerRangeError(c) ==
  /\ ready /\ ~err /\ ~Satisfiable(hdr[c], total)
  /\ Return(c, "attached", "range error")

AnswerHeaders(c) ==
  /\ ready /\ ~err /\ Satisfiable(hdr[c], total)
  /\ Step(c, "attached", "opening")
  /\ seen' = [seen EXCEPT ![c] = total]
  /\ path' = [path EXCEPT ![c] = filePath]
  /\ offset' = [offset EXCEPT ![c] = RangeStart(hdr[c])]
  /\ stop' = [stop EXCEPT ![c] = RangeEnd(hdr[c], total)]
  /\ Private
  /\ UNCHANGED <<hdr, opened, ctxDone, woken, outcome>>

\* os.Open of the copied path, ...
Open(c) ==
  /\ \E f \in Found(path[c]) : opened' = [opened EXCEPT ![c] = f]
  /\ Step(c, "opening", "streaming")
  /\ Private
  /\ UNCHANGED <<hdr, offset, stop, seen, path, ctxDone, woken, outcome>>

\* ... which finds nothing, ...
OpenFails(c) ==
  /\ Shared \/ Found(path[c]) = {}
  /\ Return(c, "opening", "unavailable")

\* ... or fails in another way.
OpenRefused(c) == Return(c, "opening", "broken")

\* end < 0 || offset <= end
Wanting(c) == stop[c] < 0 \/ offset[c] <= stop[c]

\* changed.Wait(): nothing to send, nothing decided, and the client is there.
Wait(c) ==
  /\ Wanting(c) /\ offset[c] >= available /\ ~complete /\ ~ctxDone[c]
  /\ Step(c, "streaming", "waiting")
  /\ Private /\ UNCHANGED request

\* How far the inner loop goes: to the frontier, or the end of the range.
Limit(c) ==
  IF stop[c] >= 0 /\ available > stop[c] + 1 THEN stop[c] + 1 ELSE available

\* It copies what the file has, and does not look at the context again.  A file
\* that ends early is read over and over, until somebody makes it longer.
Copy(c) ==
  /\ \/ pc[c] = "streaming" /\ Wanting(c) /\ offset[c] < available /\ ~ctxDone[c]
     \/ pc[c] = "spinning"
  /\ \E n \in Readable(c) :
       /\ pc[c] = "spinning" => n > offset[c]
       /\ offset' = [offset EXCEPT ![c] =
            IF n >= Limit(c) THEN Limit(c) ELSE IF n > @ THEN n ELSE @]
       /\ pc' = [pc EXCEPT ![c] = IF n >= Limit(c) THEN "streaming" ELSE "spinning"]
  /\ Private
  /\ UNCHANGED <<hdr, stop, seen, path, opened, ctxDone, woken, outcome>>

Spin(c) == pc[c] = "spinning" /\ UNCHANGED vars

\* ReadAt fails.
CopyFails(c) ==
  /\ Wanting(c) /\ offset[c] < available
  /\ Return(c, "streaming", "broken") \/ Return(c, "spinning", "broken")

\* ctx.Err(), or a Write to a connection that is gone.
Abort(c) ==
  /\ Wanting(c) /\ ctxDone[c]
  /\ \/ Return(c, "streaming", "aborted")
     \/ (\E n \in Readable(c) : n > offset[c]) /\ Return(c, "spinning", "aborted")

DrainedForgetsError(c) ==
  /\ Wanting(c) /\ offset[c] >= available /\ complete /\ ~ctxDone[c]
  /\ Return(c, "streaming", "done")

\* The frontier is reached and final: streamGrowingFile returns session.err.
Drained(c) ==
  /\ Wanting(c) /\ offset[c] >= available /\ complete /\ ~ctxDone[c]
  /\ Return(c, "streaming", IF err THEN "cut" ELSE "done")

RangeSent(c) == ~Wanting(c) /\ Return(c, "streaming", "done")

\* r.Context() ends because the client went away.
Disconnect(c) ==
  /\ pc[c] \notin {"idle", "gone"} /\ ~ctxDone[c]
  /\ ctxDone' = [ctxDone EXCEPT ![c] = TRUE]
  /\ Private
  /\ UNCHANGED <<pc, hdr, offset, stop, seen, path, opened, woken, outcome>>

WakeAllQuietly(c) ==
  /\ pc[c] \in {"streaming", "waiting", "spinning"}
  /\ ctxDone[c] /\ ~woken[c]
  /\ woken' = [woken EXCEPT ![c] = TRUE]
  /\ Private
  /\ UNCHANGED <<pc, hdr, offset, stop, seen, path, opened, ctxDone, outcome>>

\* The helper goroutine of streamGrowingFile: one Broadcast after ctx.Done().
WakeAll(c) ==
  /\ pc[c] \in {"streaming", "waiting", "spinning"}
  /\ ctxDone[c] /\ ~woken[c]
  /\ woken' = [woken EXCEPT ![c] = TRUE]
  /\ pc' = Awake
  /\ Private
  /\ UNCHANGED <<hdr, offset, stop, seen, path, opened, ctxDone, outcome>>

RemoveReaderNeverLast(c) ==
  /\ Step(c, "leaving", "gone")
  /\ readers' = IF readers > 0 THEN readers - 1 ELSE readers
  /\ UNCHANGED <<stream, background, idleTimer, ticking, callbacks, lastTimer,
                 ctxCancelled, disk, routine, keeper, request>>

\* removeReader: the last reader of an unfinished client download starts the
\* idle timer.
RemoveReader(c) ==
  /\ Step(c, "leaving", "gone")
  /\ readers' = IF readers > 0 THEN readers - 1 ELSE readers
  /\ IF readers > 1 \/ complete \/ background \/ PartialTTL = 0
     THEN UNCHANGED <<idleTimer, ticking, lastTimer>>
     ELSE /\ lastTimer' = lastTimer + 1
          /\ idleTimer' = lastTimer + 1
          /\ ticking' = TRUE
  /\ UNCHANGED <<stream, background, callbacks, ctxCancelled, disk, routine,
                 keeper, request>>

-----------------------------------------------------------------------------
(* The specification.                                                      *)

\* getOrStart has just put a new session in the map and started download, for
\* a client or a worker, with a row to revalidate or without.
Init ==
  /\ total = -1 /\ available = 0 /\ complete = FALSE /\ err = FALSE
  /\ ready = FALSE /\ filePath = "part"
  /\ readers = 0 /\ background = FALSE /\ idleTimer = 0
  /\ ticking = FALSE /\ callbacks = {} /\ lastTimer = 0
  /\ ctxCancelled = FALSE
  /\ written = 0
  /\ \/ part = "none" /\ length = 0
     \/ part = "prior" /\ length \in Leftovers
  /\ dl = "open" /\ framing = "none" /\ inMap = TRUE
  /\ prior \in Priors /\ final = "none" /\ kept = 0 /\ recorded = FALSE
  /\ \E s \in Starters :
       /\ pc = [c \in Clients |-> IF c = s THEN "joined" ELSE "idle"]
       /\ keeper = IF s = "prefetch" THEN "joined" ELSE "idle"
  /\ hdr \in [Clients -> Headers]
  /\ offset = [c \in Clients |-> 0] /\ stop = [c \in Clients |-> -1]
  /\ seen = [c \in Clients |-> -1] /\ path = [c \in Clients |-> "none"]
  /\ opened = [c \in Clients |-> "none"]
  /\ ctxDone = [c \in Clients |-> FALSE]
  /\ woken = [c \in Clients |-> FALSE]
  /\ outcome = [c \in Clients |-> "none"]

\* What download does without waiting for upstream to send.
Proceed ==
  \/ OpenPart \/ UseCached \/ Revalidate \/ Announce \/ Sync \/ Rename
  \/ SetFilePath \/ Record \/ FinishOK \/ RemovePart \/ Exit

\* fetch returns: within ResponseHeaderTimeout and the timeouts of the dialer.
Respond == FetchFails \/ NotModified \/ \E f \in Framings : FetchBody(f)

\* Upstream sends, ends or breaks off its body: nothing bounds when.
Transmit == (\E n \in 1..(Size - written) : ReadBody(n)) \/ BodyEOF \/ BodyFails

Download == Proceed \/ Respond \/ Transmit \/ BodyCancelled

\* What a handler does without waiting for the network or another goroutine.
Handle(c) ==
  \/ AddReader(c) \/ AnswerBadGateway(c) \/ AnswerRangeError(c)
  \/ AnswerHeaders(c) \/ Open(c) \/ OpenFails(c) \/ Wait(c) \/ Abort(c)
  \/ Drained(c) \/ RangeSent(c) \/ RemoveReader(c)

\* What the runtime does: timers, context callbacks.
Runtime ==
  \/ TimerFires \/ \E t \in callbacks : IdleCallback(t)
  \/ \E c \in Clients : WakeAll(c)

Prefetch == PrefetchJoins \/ KeepAlive

\* What it does when the disk, the client or its connection lets it.
Serve(c) == OpenRefused(c) \/ Copy(c) \/ Spin(c) \/ CopyFails(c)

Requests == \E c \in Clients : Join(c) \/ Handle(c) \/ Serve(c) \/ Disconnect(c)

\* Nothing is left to do once the goroutine and the handlers are gone.
Finished ==
  /\ dl = "gone" /\ \A c \in Clients : pc[c] \in {"idle", "gone"}
  /\ UNCHANGED vars

Next == Download \/ Runtime \/ Prefetch \/ Requests \/ Finished

Spec == Init /\ [][Next]_vars

\* Goroutines run, timers fire and fetch gives up; upstream may stall in the
\* middle of a body and a client may stop reading, both for ever.
LocalFairness ==
  /\ WF_vars(Proceed) /\ WF_vars(Respond) /\ WF_vars(BodyCancelled)
  /\ WF_vars(TimerFires) /\ WF_vars(\E t \in callbacks : IdleCallback(t))
  /\ WF_vars(KeepAlive)
  /\ \A c \in Clients : WF_vars(Handle(c)) /\ WF_vars(WakeAll(c))

StallingSpec == Spec /\ LocalFairness

-----------------------------------------------------------------------------
(* Properties.                                                             *)

Phases == {"open", "fetch", "cached", "revalidate", "body", "announce", "sync",
           "rename", "setpath", "record", "finish", "remove", "exit", "gone"}

Attached == {"attached", "opening", "streaming", "waiting", "spinning", "leaving"}

Places == {"idle", "joined", "gone"} \cup Attached

Outcomes == {"none", "bad gateway", "range error", "unavailable", "broken",
             "aborted", "cut", "done"}

FlagType ==
  /\ complete \in BOOLEAN /\ err \in BOOLEAN /\ ready \in BOOLEAN
  /\ background \in BOOLEAN /\ ticking \in BOOLEAN /\ ctxCancelled \in BOOLEAN
  /\ recorded \in BOOLEAN /\ prior \in BOOLEAN /\ inMap \in BOOLEAN

CountType ==
  /\ total \in -1..Size /\ available \in 0..Size /\ written \in 0..Size
  /\ length \in Nat /\ kept \in Nat
  /\ readers \in Nat /\ idleTimer \in Nat /\ lastTimer \in Nat
  /\ callbacks \subseteq Nat

NameType ==
  /\ filePath \in {"part", "final"} /\ framing \in AllFramings \cup {"none"}
  /\ part \in {"none", "prior", "own"} /\ final \in {"none", "prior", "own"}
  /\ dl \in Phases /\ keeper \in {"idle", "joined", "done"}

RequestType ==
  /\ hdr \in [Clients -> Headers] /\ offset \in [Clients -> Nat]
  /\ stop \in [Clients -> -1..(Size - 1)] /\ seen \in [Clients -> -1..Size]
  /\ path \in [Clients -> {"none", "part", "final"}]
  /\ opened \in [Clients -> {"none", "prior", "own", "other"}]
  /\ outcome \in [Clients -> Outcomes]

PeerType ==
  /\ ctxDone \in [Clients -> BOOLEAN] /\ woken \in [Clients -> BOOLEAN]

\* The types of the variables.  A range never ends after the object: the last
\* offset that parseRange returns is clamped to the length.
TypeOK ==
  /\ FlagType /\ CountType /\ NameType /\ RequestType /\ PeerType
  /\ pc \in [Clients -> Places]

\* addReader and the deferred removeReader are paired on every path through
\* serveSession: the counter that the idle timer trusts is the number of
\* handlers at work.
ReaderCount == readers = Cardinality({c \in Clients : pc[c] \in Attached})

\* A row of another length than the file that a 304 sent the readers to.
Misinformed(c) == opened[c] = "prior" /\ kept # Size

\* What is announced is in the file that a handler has open, through renames,
\* removals that fail and whatever later sessions do: its ReadAt loop turns
\* without progress only over a file that was never this session's, that a
\* later session truncates, or whose row was wrong from the beginning.
AnnouncedIsStored ==
  \A c \in Clients :
    /\ opened[c] = "own" /\ ~Taken(c) => available <= length
    /\ pc[c] = "spinning" => Taken(c) \/ Misinformed(c)

\* changed.Wait() misses nothing: whoever sleeps there has nothing to send,
\* the outcome is open, and its helper will still wake it if its client left.
NoLostWakeup ==
  \A c \in Clients : pc[c] = "waiting" =>
    /\ offset[c] >= available
    /\ ~complete
    /\ ctxDone[c] => ~woken[c]

\* A handler that returns without an error has sent the whole range it was
\* asked for, or the whole object, whatever the download did meanwhile.
DoneMeansWhole ==
  \A c \in Clients : outcome[c] = "done" =>
    IF stop[c] >= 0 THEN offset[c] > stop[c] ELSE offset[c] = Size

\* A 304 that confirmed a row whose file is not there, or not of its length.
Unfounded == prior /\ filePath = "final" /\ final # "own" /\ ~(final = "prior" /\ kept = Size)

\* finish(nil) after a download means an object in place and a row for it, all
\* statements having succeeded; after a 304, the object that was there, unless
\* there was none to begin with.
SuccessIsDurable == complete /\ ~err => recorded \/ Unfounded

\* What Rename promotes is what this session received and announced, to the
\* byte: nothing remains of a longer .part file that an earlier session left,
\* by a Rename or a Remove that failed.
PromotedIsReceived == final = "own" => length = available

\* finish decides once: afterwards nothing that a reader looks at to tell a
\* success from a failure changes any more.
VerdictIsFinal ==
  [][complete => complete' /\ err' = err /\ available' = available
                 /\ total' = total /\ filePath' = filePath]_vars

\* The idle timer never cancels a download under a handler at work, however
\* the callback, addReader and removeReader interleave.
NoCancelUnderReader ==
  [][~ctxCancelled /\ ctxCancelled' /\ dl' # "gone"
       => \A c \in Clients : pc[c] \notin Attached]_vars

\* A handler whose client has gone ends, even while upstream is stalled: the
\* helper of streamGrowingFile gets it out of changed.Wait().  With Later it may
\* spin instead, over a file that another session made shorter.
HandlersEnd == \A c \in Clients : ctxDone[c] ~> pc[c] = "gone"

\* A download that its last client has left ends after partial_ttl even when
\* upstream is stalled, unless somebody takes it over.
AbandonedEnds ==
  (/\ \E c \in Clients : pc[c] = "gone"
   /\ \A c \in Clients : pc[c] \in {"idle", "gone"}
   /\ keeper = "idle")
  ~> \/ dl = "gone" \/ keeper # "idle"
     \/ \E c \in Clients : pc[c] \notin {"idle", "gone"}

\* An upstream that goes on and clients that read: neither is promised.
Flowing == WF_vars(Transmit) /\ \A c \in Clients : WF_vars(Copy(c))

\* With both, every request that joined a session is answered to its end.
EveryRequestEnds ==
  Flowing => \A c \in Clients : pc[c] = "joined" ~> pc[c] = "gone"

\* The session implements the abstract transfer: no reader sees a byte before
\* its announcement, a failure after a success, or the end of half an object.
Promise == INSTANCE Transfer WITH
  Readers  <- Clients,
  Length   <- Size,
  status   <- IF ~complete THEN "running" ELSE IF err THEN "failed" ELSE "ok",
  frontier <- available,
  asked    <- [c \in Clients |->
                 IF path[c] = "none" THEN [first |-> 0, last |-> -2]
                 ELSE [first |-> RangeStart(hdr[c]), last |-> stop[c]]],
  pos      <- offset,
  verdict  <- [c \in Clients |->
                 CASE outcome[c] = "none" -> "none"
                   [] outcome[c] = "done" -> "served"
                   [] OTHER               -> "denied"]

KeepsPromise == Promise!Spec

(* The inductive invariant behind the safety properties.                   *)

\* finish has been called exactly when download is on its way out, nothing is
\* known of a response before it came, and the map holds the session till the end.
Settled ==
  /\ dl = "gone" => ~inMap
  /\ dl # "gone" => inMap
  /\ dl \in {"open", "fetch", "cached"} => ~ready
  /\ complete <=> dl \in {"remove", "exit", "gone"}
  /\ err => complete
  /\ dl \in {"open", "fetch", "cached", "revalidate"} => framing = "none"
  /\ dl \in {"body", "announce", "sync", "rename", "setpath", "record"} => framing # "none"
  /\ complete /\ ~err => dl \in {"exit", "gone"}

\* Where the frontier stands while download is at each of its steps.
Frontier ==
  /\ dl \in {"open", "fetch", "cached"} => available = 0
  /\ dl \in {"open", "fetch"} => written = 0
  /\ dl \in {"body", "sync", "rename", "setpath", "record"} => available = written
  /\ dl = "announce" => available <= written
  /\ dl \in {"open", "fetch", "cached", "body", "announce", "sync", "rename", "setpath"}
       => filePath = "part"
  /\ dl \in {"revalidate", "record", "finish"} => filePath = "final"

\* Past the copy loop, the whole object has been announced.
Whole ==
  framing # "close" =>
    /\ dl \in {"sync", "rename", "setpath", "record", "revalidate", "finish"}
         => available = Size
    /\ complete /\ ~err => available = Size

\* What the disk and the database hold while download is at each of its steps.
Stored ==
  /\ dl \in {"cached", "revalidate"} => prior
  /\ dl = "revalidate" => recorded \/ Unfounded
  /\ dl = "finish" => recorded \/ Unfounded
  /\ dl \in {"open", "fetch", "cached"} => final = "none"
  /\ final = "own" => dl \notin {"body", "announce", "sync", "rename"}
  /\ dl \in {"setpath", "record"} => final = "own"

\* The file of a session is as long as what it has written to it, and holds
\* what is announced of it; readers learn its name with the response.
Held ==
  /\ dl \in {"fetch", "body", "announce", "sync", "rename"} => length = written
  /\ final = "own" => framing # "none"
  /\ framing # "none" => available <= length
  /\ ready /\ ~err /\ filePath = "part" => framing # "none"

\* A handler has a path from its headers on, a file while it streams, and an
\* outcome from its return on.
Handlers ==
  \A c \in Clients :
    /\ path[c] # "none" => ready
    /\ path[c] = "part" \/ opened[c] = "own" => framing # "none"
    /\ pc[c] \in {"idle", "joined", "attached"} => path[c] = "none"
    /\ pc[c] \in {"opening", "streaming", "waiting", "spinning"} => path[c] # "none"
    /\ pc[c] \in {"streaming", "waiting", "spinning"} => opened[c] # "none"
    /\ pc[c] \notin {"leaving", "gone"} => outcome[c] = "none"

\* No handler sends more than its range, or more than there is, and none looks
\* for a byte that was not announced.
Bounded ==
  \A c \in Clients :
    /\ pc[c] = "spinning" => offset[c] < available /\ Wanting(c)
    /\ offset[c] <= Size
    /\ stop[c] >= 0 => offset[c] <= stop[c] + 1

\* The helper of a handler broadcasts only once its client has gone.
Woken == \A c \in Clients : woken[c] => ctxDone[c]

Delivered == framing # "close" => DoneMeansWhole

Inductive ==
  /\ TypeOK /\ ReaderCount /\ Settled /\ Frontier /\ Held /\ AnnouncedIsStored
  /\ Whole /\ Stored /\ SuccessIsDurable /\ PromotedIsReceived
  /\ Handlers /\ Bounded /\ Woken /\ NoLostWakeup
  /\ Delivered

(* What the documents of the repository say, and the code does not do.     *)

\* ARCHITECTURE.md:53: a joining reader serves bytes already present.  No
\* reader is refused by a download that ends well.
SuccessReachesAll ==
  complete /\ ~err => \A c \in Clients : outcome[c] # "unavailable"

\* What net/http tells the client: a response that declared a length is
\* complete when that much was written, one that did not when the handler
\* returned.
LooksComplete(c) ==
  /\ outcome[c] \in {"cut", "done"}
  /\ seen[c] >= 0 => IF stop[c] >= 0 THEN offset[c] = stop[c] + 1
                     ELSE offset[c] = seen[c]

\* ARCHITECTURE.md:58: if the shared transfer fails, readers receive an
\* appropriate transfer failure.
FailureIsVisible ==
  \A c \in Clients : outcome[c] = "cut" => ~LooksComplete(c)
=============================================================================
