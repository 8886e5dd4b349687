---------------------------- MODULE CacheProofs ----------------------------
(***************************************************************************)
(* Machine-checked proofs about Cache, for every set of keys, requests and *)
(* sessions, every bound, and every choice of faults and workers.          *)
(***************************************************************************)
EXTENDS Cache, FiniteSetTheorems, TLAPS

-----------------------------------------------------------------------------
(* Types.                                                                  *)

LEMMA InitType == Init => TypeOK
  <1> SUFFICES ASSUME Init PROVE TypeOK
    OBVIOUS
  <1> USE CacheAssumption DEF Init, Generations
  <1>1. WorldType
    BY DEF WorldType
  <1>2. StoreType
    BY DEF StoreType, RowType, WatchType, NoRow, NoWatch
  <1>3. SessionType
    BY DEF SessionType, SessionFields, SessionPhases, Gone
  <1>4. ClientType
    BY DEF ClientType, ClientFields, ClientPhases, Idle, NoSnap
  <1>5. WorkerType
    BY DEF WorkerType, CleanerFields, RefresherFields, Asleep, NoEntry, Resting
  <1> QED
    BY <1>1, <1>2, <1>3, <1>4, <1>5 DEF TypeOK

LEMMA Bounds ==
  /\ MaxGen \in Nat \ {0} /\ MaxTime \in Nat /\ RefreshAfter \in [Keys -> Nat]
  /\ InactivityTTL \in Nat /\ WatchInterval \in Nat /\ "none" \notin Sessions
  BY CacheAssumption

LEMMA ZeroGeneration == 0 \in Generations
  BY CacheAssumption DEF Generations

(* Sessions.                                                               *)

LEMMA GoneFields == Gone \in SessionFields
  BY CacheAssumption DEF Gone, SessionFields, SessionPhases, Generations

LEMMA PutSession ==
  ASSUME NEW s \in Sessions, NEW r \in SessionFields, SessionType,
         session' = [session EXCEPT ![s] = r]
  PROVE  session' \in [Sessions -> SessionFields]
  BY DEF SessionType

LEMMA GetOrStartType ==
  ASSUME NEW k \in Keys, NEW p \in Generations, NEW s \in Sessions, SessionType,
         GetOrStart(k, p, s)
  PROVE  SessionType'
  <1>1. [Gone EXCEPT !.pc = "open", !.key = k, !.prior = p] \in SessionFields
    BY GoneFields DEF SessionFields, SessionPhases
  <1> QED
    BY <1>1, PutSession DEF GetOrStart, SessionType

LEMMA StageType ==
  ASSUME NEW s \in Sessions, SessionType, NEW from, NEW to \in SessionPhases,
         Stage(s, from, to)
  PROVE  session' \in [Sessions -> SessionFields]
  <1>1. [session[s] EXCEPT !.pc = to] \in SessionFields
    BY DEF SessionType, SessionFields
  <1> QED
    BY <1>1, PutSession DEF Stage

LEMMA FinishType ==
  ASSUME NEW s \in Sessions, SessionType, NEW from, NEW to \in SessionPhases,
         NEW e \in BOOLEAN, Finish(s, from, to, e)
  PROVE  session' \in [Sessions -> SessionFields]
  <1>1. [session[s] EXCEPT !.pc = to, !.ready = TRUE, !.err = e] \in SessionFields
    BY DEF SessionType, SessionFields
  <1> QED
    BY <1>1, PutSession DEF Finish

LEMMA DownloadSessionType ==
  ASSUME NEW s \in Sessions, SessionType, Download(s)
  PROVE  SessionType'
  <1> DEFINE r == session[s]
  <1>0. r \in SessionFields
    BY DEF SessionType
  <1>1. CASE OpenPart(s)
    BY <1>1, StageType DEF OpenPart, SessionType, SessionPhases
  <1>2. ASSUME NEW g \in Generations, FetchBody(s, g) PROVE SessionType'
    <2>1. [r EXCEPT !.pc = "body", !.gen = g, !.ready = TRUE] \in SessionFields
      BY <1>0 DEF SessionFields, SessionPhases
    <2> QED
      BY <1>2, <2>1, PutSession DEF FetchBody, SessionType
  <1>3. CASE NotModified(s)
    <2>1. [r EXCEPT !.pc = "revalidate", !.ready = TRUE, !.path = "final"]
            \in SessionFields
      BY <1>0 DEF SessionFields, SessionPhases
    <2> QED
      BY <1>3, <2>1, PutSession DEF NotModified, SessionType
  <1>4. CASE TransferFails(s)
    BY <1>4, FinishType DEF TransferFails, SessionType, SessionPhases
  <1>5. CASE RemovePart(s)
    BY <1>5, StageType DEF RemovePart, SessionType, SessionPhases
  <1>6. CASE BodyEOF(s)
    BY <1>6, StageType DEF BodyEOF, SessionType, SessionPhases
  <1>7. CASE Rename(s)
    BY <1>7, StageType DEF Rename, SessionType, SessionPhases
  <1>8. CASE SetFilePath(s)
    <2>1. [r EXCEPT !.pc = "record", !.path = "final"] \in SessionFields
      BY <1>0 DEF SessionFields, SessionPhases
    <2> QED
      BY <1>8, <2>1, PutSession DEF SetFilePath, SessionType
  <1>9. CASE Record(s)
    BY <1>9, FinishType DEF Record, SessionType, SessionPhases
  <1>10. CASE Revalidate(s)
    BY <1>10, FinishType DEF Revalidate, SessionType, SessionPhases
  <1>11. CASE StoreFails(s)
    BY <1>11, FinishType DEF StoreFails, SessionType, SessionPhases
  <1>12. CASE Exit(s)
    <2>1. [r EXCEPT !.pc = "gone", !.key = "none", !.prior = 0] \in SessionFields
      BY <1>0, ZeroGeneration DEF SessionFields, SessionPhases
    <2> QED
      BY <1>12, <2>1, GoneFields, PutSession DEF Exit, SessionType
  <1> QED
    BY <1>1, <1>2, <1>3, <1>4, <1>5, <1>6, <1>7, <1>8, <1>9, <1>10, <1>11, <1>12 DEF Download

LEMMA SessionTypeStep == TypeOK /\ Mapped /\ [Next]_vars => SessionType'
  <1> SUFFICES ASSUME TypeOK, Mapped, [Next]_vars PROVE SessionType'
    OBVIOUS
  <1> USE DEF TypeOK
  <1>1. ASSUME NEW s \in Sessions, Download(s) PROVE SessionType'
    BY <1>1, DownloadSessionType
  <1>2. ASSUME NEW c \in Clients, Request(c) PROVE SessionType'
    <2>1. ASSUME NEW s \in Sessions, Start(c, s) PROVE SessionType'
      <3>1. client[c].key \in Keys /\ client[c].prior \in Generations
        BY <2>1 DEF Mapped, Start, ClientType, ClientFields
      <3> QED
        BY <2>1, <3>1, GetOrStartType DEF Start
    <2>2. CASE Quiet
      BY <2>2 DEF Quiet, SessionType
    <2>3. ASSUME NEW s \in Sessions, PrefetchStarts(c, s) PROVE SessionType'
      <3>1. client[c].key \in Keys /\ client[c].prior \in Generations
        BY <2>3 DEF Mapped, PrefetchStarts, ClientType, ClientFields
      <3> QED
        BY <2>3, <3>1, GetOrStartType DEF PrefetchStarts
    <2> QED
      BY <1>2, <2>1, <2>2, <2>3 DEF Request, Get, Hit, Miss, Touch, Headers, OpenFile, Cached, Watch, Prefetch
  <1>3. CASE Cleanup
    <2>1. UNCHANGED <<live, session>>
      BY <1>3 DEF Cleanup, CleanupStarts, Candidate, Skip, Unlink, DeleteWatch, DeleteRow,
                  TotalSize, List, QueryFails, CleanupEnds, Aside
    <2> QED
      BY <2>1 DEF SessionType
  <1>4. CASE Refresh
    <2>1. ASSUME NEW s \in Sessions, RefreshWatch(s) PROVE SessionType'
      <3>1. PICK e \in refresher.todo : GetOrStart(e.key, e.gen, s)
        BY <2>1 DEF RefreshWatch
      <3>2. e.key \in Keys /\ e.gen \in Generations
        BY DEF WorkerType, RefresherFields
      <3> QED
        BY <2>1, <3>1, <3>2, GetOrStartType
    <2>2. CASE UNCHANGED <<live, session>>
      BY <2>2 DEF SessionType
    <2> QED
      BY <1>4, <2>1, <2>2 DEF Refresh, RefreshStarts, WatchesDue, CheckedWatch, RefreshEnds
  <1>5. CASE Tick \/ \E k \in Keys : Publish(k) \/ RemoveByHand(k)
    BY <1>5 DEF Tick, Publish, RemoveByHand, Inside, SessionType
  <1>6. CASE Crash
    BY <1>6, GoneFields DEF Crash, Restarted, SessionType
  <1>7. CASE UNCHANGED vars
    BY <1>7 DEF vars, SessionType
  <1> QED
    BY <1>1, <1>2, <1>3, <1>4, <1>5, <1>6, <1>7 DEF Next

(* Requests.                                                               *)

LEMMA IdleFields == Idle \in ClientFields
  BY ZeroGeneration DEF Idle, NoSnap, ClientFields, ClientPhases

LEMMA PutType ==
  ASSUME NEW c \in Clients, NEW r \in ClientFields, ClientType, Put(c, r)
  PROVE  ClientType'
  BY DEF ClientType, Put

LEMMA RequestClientType ==
  ASSUME NEW c \in Clients, TypeOK, Mapped, Request(c)
  PROVE  ClientType'
  <1> USE DEF TypeOK
  <1> DEFINE r == client[c]
  <1>0. r \in ClientFields /\ NoSnap \in [gen : Generations, created : Nat]
    BY ZeroGeneration DEF ClientType, NoSnap
  <1>1. ASSUME NEW k \in Keys, Get(c, k) PROVE ClientType'
    <2>1. row[k].gen \in Generations /\ row[k].created \in Nat /\ newest[k] \in Generations
      BY DEF StoreType, RowType, WorldType
    <2>2. [Idle EXCEPT !.pc = IF row[k].gen = 0 THEN "start" ELSE "lookup",
                       !.key = k, !.floor = newest[k],
                       !.snap = [gen |-> row[k].gen, created |-> row[k].created]] \in ClientFields
      BY <2>1, IdleFields DEF ClientFields, ClientPhases
    <2>3. [Idle EXCEPT !.pc = "tail", !.key = k] \in ClientFields
      BY IdleFields DEF ClientFields, ClientPhases
    <2> QED
      BY <1>1, <2>2, <2>3, PutType DEF Get
  <1>2. CASE Hit(c)
    <2>1. r.key \in Keys /\ r.pc = "lookup"
      BY <1>2 DEF Mapped, Hit
    <2>2. [r EXCEPT !.pc = "touch", !.gen = file[r.key], !.snap = NoSnap] \in ClientFields
      BY <1>0, <2>1 DEF ClientFields, ClientPhases, WorldType
    <2> QED
      BY <1>2, <2>2, PutType DEF Hit
  <1>3. CASE Miss(c)
    <2>1. [r EXCEPT !.pc = "start", !.prior = IF file[r.key] = 0 THEN 0 ELSE r.snap.gen]
            \in ClientFields
      BY <1>0, ZeroGeneration DEF ClientFields, ClientPhases
    <2> QED
      BY <1>3, <2>1, PutType DEF Miss
  <1>4. CASE Touch(c)
    <2>1. [r EXCEPT !.pc = "tail"] \in ClientFields
      BY <1>0 DEF ClientFields, ClientPhases
    <2> QED
      BY <1>4, <2>1, PutType DEF Touch
  <1>5. ASSUME NEW s \in Sessions, Start(c, s) PROVE ClientType'
    <2>1. [r EXCEPT !.pc = "wait", !.in = s, !.prior = 0, !.snap = NoSnap] \in ClientFields
      BY <1>0, ZeroGeneration DEF ClientFields, ClientPhases
    <2> QED
      BY <1>5, <2>1, PutType DEF Start
  <1>6. CASE Headers(c)
    <2> DEFINE q == session[r.in]
    <2>1. q.path \in {"part", "final"}
      BY <1>6 DEF Mapped, Headers, SessionType, SessionFields
    <2>2. [r EXCEPT !.pc = IF q.err THEN "tail" ELSE "open", !.in = "none", !.path = q.path]
            \in ClientFields
      BY <1>0, <2>1 DEF ClientFields, ClientPhases
    <2> QED
      BY <1>6, <2>2, PutType DEF Headers
  <1>7. CASE OpenFile(c)
    <2>1. Opened(c) \in Generations
      <3>1. r.key \in Keys
        BY <1>7 DEF Mapped, OpenFile
      <3>2. file[r.key] \in Generations /\ part[r.key] \in Sessions \cup {"none"}
        BY <3>1 DEF WorldType
      <3>3. part[r.key] # "none" => session[part[r.key]].gen \in Generations
        BY <3>2 DEF SessionType, SessionFields
      <3> QED
        BY <3>2, <3>3, ZeroGeneration DEF Opened, Partial
    <2>2. [r EXCEPT !.pc = "tail", !.gen = Opened(c), !.path = "part"] \in ClientFields
      BY <1>0, <2>1 DEF ClientFields, ClientPhases
    <2> QED
      BY <1>7, <2>2, PutType DEF OpenFile
  <1>8. CASE Cached(c)
    <2>1. [Idle EXCEPT !.pc = "watch", !.key = r.key] \in ClientFields
      BY <1>0, IdleFields DEF ClientFields, ClientPhases
    <2> QED
      BY <1>8, <2>1, IdleFields, PutType DEF Cached
  <1>9. CASE Watch(c)
    BY <1>9, IdleFields, PutType DEF Watch
  <1>10. ASSUME NEW k \in Keys, Prefetch(c, k) PROVE ClientType'
    <2>1. row[k].gen \in Generations
      BY DEF StoreType, RowType
    <2>2. [Idle EXCEPT !.pc = "ahead", !.key = k, !.prior = row[k].gen] \in ClientFields
      BY <2>1, IdleFields DEF ClientFields, ClientPhases
    <2> QED
      BY <1>10, <2>2, PutType DEF Prefetch
  <1>11. ASSUME NEW s \in Sessions, PrefetchStarts(c, s) PROVE ClientType'
    BY <1>11, IdleFields, PutType DEF PrefetchStarts
  <1> QED
    BY <1>1, <1>2, <1>3, <1>4, <1>5, <1>6, <1>7, <1>8, <1>9, <1>10, <1>11 DEF Request

LEMMA ClientTypeStep == TypeOK /\ Mapped /\ [Next]_vars => ClientType'
  <1> SUFFICES ASSUME TypeOK, Mapped, [Next]_vars PROVE ClientType'
    OBVIOUS
  <1>1. ASSUME NEW c \in Clients, Request(c) PROVE ClientType'
    BY <1>1, RequestClientType
  <1>2. CASE Crash
    BY <1>2, IdleFields DEF Crash, Restarted, ClientType
  <1>3. CASE UNCHANGED client
    BY <1>3 DEF TypeOK, ClientType
  <1>4. ASSUME NEW s \in Sessions, Download(s) PROVE UNCHANGED client
    BY <1>4 DEF Download, OpenPart, FetchBody, NotModified, TransferFails, RemovePart, BodyEOF,
                Rename, SetFilePath, Record, Revalidate, StoreFails, Exit, Others
  <1>5. CASE Cleanup
    BY <1>3, <1>5 DEF Cleanup, CleanupStarts, Candidate, Skip, Unlink, DeleteWatch, DeleteRow,
                TotalSize, List, QueryFails, CleanupEnds, Aside
  <1>6. CASE Refresh
    BY <1>3, <1>6 DEF Refresh, RefreshStarts, WatchesDue, RefreshWatch, CheckedWatch, RefreshEnds
  <1>7. CASE Tick \/ \E k \in Keys : Publish(k) \/ RemoveByHand(k)
    BY <1>3, <1>7 DEF Tick, Publish, RemoveByHand, Inside
  <1> QED
    BY <1>1, <1>2, <1>3, <1>4, <1>5, <1>6, <1>7 DEF Next, vars

(* The world, the disk and the database.                                   *)

LEMMA WorldTypeStep == TypeOK /\ [Next]_vars => WorldType'
  <1> SUFFICES ASSUME TypeOK, [Next]_vars PROVE WorldType'
    OBVIOUS
  <1> USE DEF WorldType, world, disk, Remove
  <1>1. ASSUME NEW s \in Sessions, Download(s) PROVE WorldType'
    <2> USE DEF TypeOK, Others
    <2>1. CASE Rename(s)
      <3> DEFINE k == session[s].key
      <3>1. k \in Keys => session[part[k]].gen \in Generations
        BY <2>1 DEF Rename, SessionType, SessionFields
      <3>2. file' \in [Keys -> Generations]
        BY <2>1, <3>1 DEF Rename
      <3>3. newest' \in [Keys -> Generations]
        BY <2>1, <3>2 DEF Rename
      <3>4. part' \in [Keys -> Sessions \cup {"none"}]
        BY <2>1 DEF Rename
      <3> QED
        BY <2>1, <3>2, <3>3, <3>4 DEF Rename
    <2>2. CASE OpenPart(s)
      BY <2>2 DEF OpenPart
    <2>3. CASE NotModified(s)
      BY <2>3 DEF NotModified
    <2>4. CASE RemovePart(s)
      BY <2>4 DEF RemovePart
    <2>5. CASE UNCHANGED <<world, disk, newest>>
      BY <2>5
    <2> QED
      BY <1>1, <2>1, <2>2, <2>3, <2>4, <2>5
      DEF Download, FetchBody, TransferFails, BodyEOF, SetFilePath, Record, Revalidate, StoreFails, Exit
  <1>2. ASSUME NEW c \in Clients, Request(c) PROVE WorldType'
    BY <1>2 DEF TypeOK, Request, Get, Hit, Miss, Touch, Start, Headers, OpenFile,
              Cached, Watch, Prefetch, PrefetchStarts, Quiet
  <1>3. CASE Cleanup
    <2>1. CASE Unlink
      BY <2>1, ZeroGeneration DEF TypeOK, Unlink, Aside
    <2>2. CASE UNCHANGED <<world, disk, newest>>
      BY <2>2 DEF TypeOK
    <2> QED
      BY <1>3, <2>1, <2>2 DEF Cleanup, CleanupStarts, Candidate, Skip, DeleteWatch, DeleteRow,
                TotalSize, List, QueryFails, CleanupEnds, Aside
  <1>4. CASE Refresh
    BY <1>4 DEF TypeOK, Refresh, RefreshStarts, WatchesDue, RefreshWatch, CheckedWatch, RefreshEnds
  <1>5. CASE Tick
    BY <1>5, CacheAssumption DEF TypeOK, Tick, Inside
  <1>6. ASSUME NEW k \in Keys, Publish(k) \/ RemoveByHand(k) PROVE WorldType'
    BY <1>6, ZeroGeneration, Bounds DEF TypeOK, Publish, RemoveByHand, Inside
  <1>7. CASE Crash
    BY <1>7 DEF TypeOK, Crash, Restarted
  <1>8. CASE UNCHANGED vars
    BY <1>8 DEF TypeOK, vars
  <1> QED
    BY <1>1, <1>2, <1>3, <1>4, <1>5, <1>6, <1>7, <1>8 DEF Next

LEMMA RowFields ==
  ASSUME NEW g \in Generations, TypeOK
  PROVE  [gen |-> g, created |-> now, access |-> now] \in RowType
  BY CacheAssumption DEF TypeOK, WorldType, RowType

LEMMA StoreTypeStep == TypeOK /\ [Next]_vars => StoreType'
  <1> SUFFICES ASSUME TypeOK, [Next]_vars PROVE StoreType'
    OBVIOUS
  <1> USE DEF StoreType, db
  <1>0. /\ now \in Nat /\ NoRow \in RowType /\ NoWatch \in WatchType
        /\ row \in [Keys -> RowType] /\ watch \in [Keys -> WatchType]
    BY ZeroGeneration, CacheAssumption
    DEF TypeOK, WorldType, NoRow, NoWatch, RowType, WatchType
  <1>1. ASSUME NEW s \in Sessions, Download(s) PROVE StoreType'
    <2>1. CASE Record(s)
      <3>1. session[s].gen \in Generations
        BY DEF TypeOK, SessionType, SessionFields
      <3> QED
        BY <1>0, <2>1, <3>1, RowFields DEF Record
    <2>2. CASE Revalidate(s)
      <3> DEFINE k == session[s].key
      <3>1. k \in Keys => [row[k] EXCEPT !.created = now, !.access = now] \in RowType
        BY <1>0 DEF RowType
      <3>2. row' \in [Keys -> RowType]
        BY <1>0, <2>2, <3>1 DEF Revalidate
      <3> QED
        BY <1>0, <2>2, <3>2 DEF Revalidate
    <2>3. CASE UNCHANGED db
      BY <1>0, <2>3
    <2> QED
      BY <1>1, <2>1, <2>2, <2>3
      DEF Download, OpenPart, FetchBody, NotModified, TransferFails, RemovePart, BodyEOF, Rename,
          SetFilePath, StoreFails, Exit
  <1>2. ASSUME NEW c \in Clients, Request(c) PROVE StoreType'
    <2>1. CASE Touch(c)
      <3> DEFINE k == client[c].key
      <3>1. k \in Keys => [row[k] EXCEPT !.access = now] \in RowType
        BY <1>0 DEF RowType
      <3>2. row' \in [Keys -> RowType]
        BY <1>0, <2>1, <3>1 DEF Touch
      <3> QED
        BY <1>0, <2>1, <3>2 DEF Touch
    <2>2. CASE Watch(c)
      <3> DEFINE k == client[c].key
      <3>1. k \in Keys => [on |-> TRUE, requested |-> now,
                           checked |-> IF watch[k].on THEN watch[k].checked ELSE LongAgo] \in WatchType
        BY <1>0, CacheAssumption DEF WatchType, LongAgo
      <3>2. watch' \in [Keys -> WatchType]
        BY <1>0, <2>2, <3>1 DEF Watch
      <3> QED
        BY <1>0, <2>2, <3>2 DEF Watch
    <2>3. CASE UNCHANGED db
      BY <1>0, <2>3
    <2> QED
      BY <1>2, <2>1, <2>2, <2>3 DEF Request, Get, Hit, Miss, Start, Headers, OpenFile,
                Cached, Prefetch, PrefetchStarts
  <1>3. CASE Cleanup
    <2>1. CASE DeleteWatch
      BY <1>0, <2>1 DEF DeleteWatch, Aside
    <2>2. CASE DeleteRow
      BY <1>0, <2>2 DEF DeleteRow, Aside
    <2>3. CASE UNCHANGED db
      BY <1>0, <2>3
    <2> QED
      BY <1>3, <2>1, <2>2, <2>3 DEF Cleanup, CleanupStarts, Candidate, Skip, Unlink,
                TotalSize, List, QueryFails, CleanupEnds, Aside
  <1>4. CASE Refresh
    <2>1. CASE RefreshStarts
      BY <1>0, <2>1 DEF RefreshStarts
    <2>2. CASE CheckedWatch
      <3> DEFINE k == refresher.at
      <3>1. k \in Keys => [watch[k] EXCEPT !.checked = now] \in WatchType
        BY <1>0 DEF WatchType
      <3>2. watch' \in [Keys -> WatchType]
        BY <1>0, <2>2, <3>1 DEF CheckedWatch
      <3> QED
        BY <1>0, <2>2, <3>2 DEF CheckedWatch
    <2>3. CASE UNCHANGED db
      BY <1>0, <2>3
    <2> QED
      BY <1>4, <2>1, <2>2, <2>3 DEF Refresh, WatchesDue, RefreshWatch, RefreshEnds
  <1>5. CASE Tick \/ \E k \in Keys : Publish(k) \/ RemoveByHand(k)
    BY <1>0, <1>5 DEF Tick, Publish, RemoveByHand, Inside
  <1>6. CASE Crash
    BY <1>0, <1>6 DEF Crash
  <1>7. CASE UNCHANGED vars
    BY <1>0, <1>7 DEF vars
  <1> QED
    BY <1>1, <1>2, <1>3, <1>4, <1>5, <1>6, <1>7 DEF Next

(* The workers.                                                            *)

\* The bytes of one object, as a set, and as many as its length.
LEMMA BytesOf ==
  ASSUME NEW k, NEW n \in Nat
  PROVE  IsFiniteSet({k} \X (1..n)) /\ Cardinality({k} \X (1..n)) = n
  <1> DEFINE f == [i \in 1..n |-> <<k, i>>]
  <1>1. f \in Bijection(1..n, {k} \X (1..n))
    <2>1. \A i \in 1..n : f[i] = <<k, i>>
      OBVIOUS
    <2>2. f \in [1..n -> {k} \X (1..n)]
      OBVIOUS
    <2>3. \A i, j \in 1..n : f[i] = f[j] => i = j
      BY <2>1
    <2>4. \A x \in {k} \X (1..n) : \E i \in 1..n : f[i] = x
      BY <2>1
    <2> HIDE DEF f
    <2> QED
      BY <2>2, <2>3, <2>4 DEF Bijection, Injection, Surjection, IsInjective
  <1>2. IsFiniteSet(1..n) /\ Cardinality(1..n) = n
    BY FS_Interval
  <1>3. ExistsBijection(1..n, {k} \X (1..n))
    BY <1>1 DEF ExistsBijection
  <1> QED
    BY <1>2, <1>3, FS_Bijection

LEMMA LengthType ==
  ASSUME TypeOK, NEW k \in Keys
  PROVE  Size(k) \in Nat
  BY CacheAssumption DEF Size, TypeOK, StoreType, RowType

LEMMA StoredFinite ==
  ASSUME TypeOK
  PROVE  IsFiniteSet(Stored) /\ Cardinality(Stored) \in Nat
  <1> DEFINE of(k) == {k} \X (1..Size(k))
  <1>1. \A k \in Keys : IsFiniteSet(of(k))
    BY LengthType, BytesOf
  <1>2. IsFiniteSet({of(k) : k \in Keys})
    <2> DEFINE f == [k \in Keys |-> of(k)]
    <2>1. f \in Surjection(Keys, {of(k) : k \in Keys})
      BY DEF Surjection
    <2> QED
      BY <2>1, CacheAssumption, FS_Surjection
  <1> QED
    BY <1>1, <1>2, FS_UNION, FS_CardinalityType DEF Stored

LEMMA CandidatesType ==
  ASSUME TypeOK, NEW ks \in SUBSET Keys
  PROVE  Candidates(ks) \subseteq Entries
  <1>1. \A k \in ks : row[k].access \in Nat /\ Size(k) \in Nat
    BY CacheAssumption DEF Size, TypeOK, StoreType, RowType
  <1> QED
    BY <1>1 DEF Candidates, Entries

\* A download touches the cleaner only to note that a row shrinks.
LEMMA DownloadCleaner ==
  ASSUME NEW s \in Sessions, Download(s)
  PROVE  /\ refresher' = refresher
         /\ ~Record(s) => cleaner' = cleaner
         /\ Record(s) => \E shrinks \in BOOLEAN :
              cleaner' = [cleaner EXCEPT !.shrunk = @ \/ shrinks]
  <1>1. CASE Record(s)
    BY <1>1 DEF Record
  <1>2. CASE ~Record(s)
    BY <1>2 DEF Download, OpenPart, FetchBody, NotModified, TransferFails, RemovePart, BodyEOF,
                Rename, SetFilePath, Revalidate, StoreFails, Exit, Others
  <1> QED
    BY <1>1, <1>2

LEMMA WorkerTypeStep == TypeOK /\ [Next]_vars => WorkerType'
  <1> SUFFICES ASSUME TypeOK, [Next]_vars PROVE WorkerType'
    OBVIOUS
  <1> USE DEF WorkerType, CleanerFields, RefresherFields
  <1>0. WorkerType
    BY DEF TypeOK
  <1>1. Asleep \in CleanerFields
    BY DEF Asleep
  <1>2. Resting \in RefresherFields
    BY DEF Resting
  <1>3. CASE Cleanup
    <2>0. UNCHANGED refresher
      BY <1>3 DEF Cleanup, CleanupStarts, Candidate, Skip, Unlink, DeleteWatch, DeleteRow,
                TotalSize, List, QueryFails, CleanupEnds, Aside
    <2>1. CASE CleanupStarts
      BY <1>0, <1>1, <2>0, <2>1, CandidatesType DEF CleanupStarts, Clean, InactiveTracked, Rows
    <2>2. CASE Candidate
      <3>1. PICK e \in cleaner.todo :
               cleaner' = [cleaner EXCEPT
                 !.pc = IF live[e.key] = "none" THEN "unlink" ELSE "pick",
                 !.todo = @ \ {e},
                 !.at = IF live[e.key] = "none" THEN e ELSE NoEntry]
        BY <2>2 DEF Candidate, Clean
      <3>2. e \in Entries
        BY <1>0
      <3> QED
        BY <1>0, <2>0, <3>1, <3>2
    <2>3. CASE Skip("unlink") \/ Skip("unwatch") \/ Skip("delete")
      BY <1>0, <2>0, <2>3 DEF Skip, Clean
    <2>4. CASE Unlink \/ DeleteWatch
      BY <1>0, <2>0, <2>4 DEF Unlink, DeleteWatch, Clean
    <2>5. CASE DeleteRow
      <3>1. cleaner.at.size \in Int
        BY <1>0 DEF Entries, NoEntry
      <3>2. cleaner.total - cleaner.at.size \in Int /\ cleaner.total \in Int
        BY <1>0, <3>1
      <3>3. NoEntry \in Entries \cup {NoEntry}
        OBVIOUS
      <3>4. PICK n \in Int :
              cleaner' = [cleaner EXCEPT !.pc = "pick", !.at = NoEntry, !.total = n]
        BY <2>5, <3>2 DEF DeleteRow, Clean
      <3> QED
        BY <1>0, <2>0, <3>3, <3>4
    <2>6. CASE TotalSize
      <3>1. Cardinality(Stored) \in Int
        BY StoredFinite
      <3> QED
        BY <1>0, <1>1, <2>0, <2>6, <3>1 DEF TotalSize, Clean
    <2>7. CASE List
      BY <1>0, <2>0, <2>7, CandidatesType DEF List, Clean, LeastRecentlyUsed, Rows
    <2>8. CASE QueryFails \/ CleanupEnds
      BY <1>0, <1>1, <2>0, <2>8 DEF QueryFails, CleanupEnds, Clean
    <2> QED
      BY <1>3, <2>1, <2>2, <2>3, <2>4, <2>5, <2>6, <2>7, <2>8 DEF Cleanup
  <1>4. CASE Refresh
    <2>0. UNCHANGED cleaner
      BY <1>4 DEF Refresh, RefreshStarts, WatchesDue, RefreshWatch, CheckedWatch, RefreshEnds
    <2>1. CASE RefreshStarts
      <3>1. now \in Nat
        BY CacheAssumption DEF TypeOK, WorldType
      <3> QED
        BY <1>0, <1>2, <2>0, <2>1, <3>1 DEF RefreshStarts, Turn
    <2>2. CASE WatchesDue
      <3>1. \A k \in Rows : [key |-> k, gen |-> row[k].gen, checked |-> watch[k].checked]
                             \in [key : Keys, gen : Generations, checked : Int]
        BY DEF TypeOK, StoreType, RowType, WatchType, Rows
      <3>2. PICK due \in SUBSET Rows :
               refresher' = [Resting EXCEPT !.pc = "pick",
                 !.todo = {[key |-> k, gen |-> row[k].gen, checked |-> watch[k].checked] : k \in due}]
        BY <2>2 DEF WatchesDue, Turn
      <3>3. {[key |-> k, gen |-> row[k].gen, checked |-> watch[k].checked] : k \in due}
              \subseteq [key : Keys, gen : Generations, checked : Int]
        BY <3>1
      <3>4. refresher' \in [pc : {"idle", "due", "pick", "stamp"}, began : Nat,
                           todo : SUBSET [key : Keys, gen : Generations, checked : Int],
                           at : Keys \cup {"none"}]
        BY <1>2, <3>2, <3>3
      <3> QED
        BY <1>0, <2>0, <3>4
    <2>3. ASSUME NEW s \in Sessions, RefreshWatch(s) PROVE WorkerType'
      <3>1. PICK e \in refresher.todo :
               refresher' = [refresher EXCEPT !.pc = "stamp", !.todo = @ \ {e}, !.at = e.key]
        BY <2>3 DEF RefreshWatch, Turn
      <3>2. e.key \in Keys
        BY <1>0
      <3> QED
        BY <1>0, <2>0, <3>1, <3>2
    <2>4. CASE CheckedWatch
      BY <1>0, <1>2, <2>0, <2>4 DEF CheckedWatch, Turn
    <2>5. CASE RefreshEnds
      BY <1>0, <1>2, <2>0, <2>5 DEF RefreshEnds, Turn
    <2> QED
      BY <1>4, <2>1, <2>2, <2>3, <2>4, <2>5 DEF Refresh
  <1>5. CASE Crash
    BY <1>1, <1>2, <1>5 DEF Crash, Restarted
  <1>6. CASE UNCHANGED <<cleaner, refresher>>
    BY <1>0, <1>6
  <1>7. ASSUME NEW s \in Sessions, Download(s) PROVE WorkerType'
    BY <1>0, <1>7, DownloadCleaner
  <1>8. ASSUME NEW c \in Clients, Request(c) PROVE UNCHANGED <<cleaner, refresher>>
    BY <1>8 DEF Request, Get, Hit, Miss, Touch, Start, Headers, OpenFile,
              Cached, Watch, Prefetch, PrefetchStarts, Quiet
  <1> QED
    BY <1>3, <1>4, <1>5, <1>6, <1>7, <1>8 DEF Next, vars, Tick, Publish, RemoveByHand, Inside

LEMMA TypeStep == TypeOK /\ Mapped /\ [Next]_vars => TypeOK'
  BY SessionTypeStep, ClientTypeStep, WorldTypeStep, StoreTypeStep, WorkerTypeStep DEF TypeOK

-----------------------------------------------------------------------------
(* The kinds of steps, as far as sessions and files are concerned.         *)

\* A client or a worker calls getOrStart.
Started(k, p, s) == GetOrStart(k, p, s) /\ UNCHANGED <<world, disk, db, newest>>

\* Nothing happens to the sessions; files and rows may disappear, and upstream
\* may publish.
Spared ==
  /\ UNCHANGED <<part, live, session, newest>>
  /\ \A k \in Keys : /\ file'[k] \in {0, file[k]}
                     /\ row'[k].gen \in {0, row[k].gen}
                     /\ upstream'[k] >= upstream[k]

LEMMA RequestSteps ==
  ASSUME NEW c \in Clients, TypeOK, Mapped, Request(c)
  PROVE  \/ \E s \in Sessions :
              /\ Start(c, s) \/ PrefetchStarts(c, s)
              /\ client[c].key \in Keys /\ client[c].prior \in Generations
              /\ Started(client[c].key, client[c].prior, s)
         \/ Spared /\ Quiet
  <1> USE DEF Spared, Quiet, world, disk, db
  <1>1. \A k \in Keys : upstream[k] \in Nat /\ row[k] \in RowType
    BY CacheAssumption DEF TypeOK, WorldType, StoreType
  <1>2. ASSUME NEW s \in Sessions, Start(c, s) \/ PrefetchStarts(c, s)
        PROVE  /\ client[c].key \in Keys /\ client[c].prior \in Generations
               /\ Started(client[c].key, client[c].prior, s)
    BY <1>2 DEF TypeOK, Mapped, Start, PrefetchStarts, ClientType, ClientFields, Started
  <1>3. CASE Touch(c)
    <2>1. \A k \in Keys : row'[k].gen = row[k].gen
      BY <1>1, <1>3 DEF Touch, TypeOK, StoreType, RowType
    <2> QED
      BY <1>1, <1>3, <2>1 DEF Touch
  <1>4. CASE Quiet /\ UNCHANGED row
    BY <1>1, <1>4
  <1> QED
    BY <1>2, <1>3, <1>4 DEF Request, Get, Hit, Miss, Headers, OpenFile, Cached, Watch, Prefetch

LEMMA CleanupSteps ==
  ASSUME TypeOK, Cleanup
  PROVE  Spared /\ UNCHANGED <<world, client, refresher>>
  <1> USE DEF Spared, Aside, world, disk, db
  <1>1. /\ \A k \in Keys : upstream[k] \in Nat
        /\ file \in [Keys -> Generations] /\ row \in [Keys -> RowType]
    BY CacheAssumption DEF TypeOK, WorldType, StoreType
  <1>2. CASE Unlink
    BY <1>1, <1>2 DEF Unlink
  <1>3. CASE DeleteRow
    BY <1>1, <1>3 DEF DeleteRow, NoRow
  <1>4. CASE Aside /\ UNCHANGED <<file, row>>
    BY <1>1, <1>4
  <1> QED
    BY <1>2, <1>3, <1>4 DEF Cleanup, CleanupStarts, Candidate, Skip, DeleteWatch,
                TotalSize, List, QueryFails, CleanupEnds

LEMMA RefreshSteps ==
  ASSUME TypeOK, Refresh
  PROVE  /\ UNCHANGED <<client, cleaner>>
         /\ \/ \E s \in Sessions, e \in refresher.todo :
                 /\ e.key \in Keys /\ e.gen \in Generations
                 /\ Started(e.key, e.gen, s)
                 /\ refresher' = [refresher EXCEPT !.pc = "stamp", !.todo = @ \ {e}, !.at = e.key]
            \/ Spared /\ UNCHANGED <<world, disk, row>>
  <1> USE DEF Spared, world, disk, db
  <1>1. \A k \in Keys : upstream[k] \in Nat
    BY CacheAssumption DEF TypeOK, WorldType
  <1>2. ASSUME NEW s \in Sessions, RefreshWatch(s)
        PROVE  \E e \in refresher.todo :
                 /\ e.key \in Keys /\ e.gen \in Generations
                 /\ Started(e.key, e.gen, s)
                 /\ refresher' = [refresher EXCEPT !.pc = "stamp", !.todo = @ \ {e}, !.at = e.key]
    <2>1. PICK e \in refresher.todo :
            /\ GetOrStart(e.key, e.gen, s)
            /\ refresher' = [refresher EXCEPT !.pc = "stamp", !.todo = @ \ {e}, !.at = e.key]
      BY <1>2 DEF RefreshWatch, Turn
    <2>2. e.key \in Keys /\ e.gen \in Generations
      BY DEF TypeOK, WorkerType, RefresherFields
    <2> QED
      BY <1>2, <2>1, <2>2 DEF RefreshWatch, Started
  <1>3. CASE UNCHANGED <<world, disk, row, live, session, client, cleaner, newest>>
    <2>1. Spared /\ UNCHANGED <<world, disk, row>>
      BY <1>1, <1>3
    <2> QED
      BY <1>3, <2>1
  <1> QED
    BY <1>2, <1>3 DEF Refresh, RefreshStarts, WatchesDue, RefreshWatch, CheckedWatch, RefreshEnds

LEMMA WorldSteps ==
  ASSUME TypeOK, Tick \/ (\E k \in Keys : Publish(k) \/ RemoveByHand(k)) \/ UNCHANGED vars
  PROVE  Spared /\ UNCHANGED <<row, client, cleaner, refresher>>
  <1> USE DEF Spared, Inside, world, disk, db
  <1>1. /\ \A k \in Keys : upstream[k] \in Nat
        /\ file \in [Keys -> Generations] /\ upstream \in [Keys -> 1..MaxGen]
    BY CacheAssumption DEF TypeOK, WorldType
  <1>2. CASE Tick
    BY <1>1, <1>2 DEF Tick
  <1>3. ASSUME NEW k \in Keys, Publish(k) PROVE Spared /\ UNCHANGED <<row, client, cleaner, refresher>>
    BY <1>1, <1>3 DEF Publish
  <1>4. ASSUME NEW k \in Keys, RemoveByHand(k) PROVE Spared /\ UNCHANGED <<row, client, cleaner, refresher>>
    BY <1>1, <1>4 DEF RemoveByHand
  <1>5. CASE UNCHANGED vars
    BY <1>1, <1>5 DEF vars
  <1> QED
    BY <1>2, <1>3, <1>4, <1>5

LEMMA Kinds ==
  ASSUME TypeOK, Mapped, [Next]_vars
  PROVE  \/ \E s \in Sessions : Download(s)
         \/ \E k \in Keys, p \in Generations, s \in Sessions : Started(k, p, s)
         \/ Crash
         \/ Spared
  BY RequestSteps, CleanupSteps, RefreshSteps, WorldSteps DEF Next

-----------------------------------------------------------------------------
(* What one step of a download does, and what it leaves alone.             *)

LEMMA DownloadFrame ==
  ASSUME NEW s \in Sessions, TypeOK, Mapped, Download(s)
  PROVE  /\ Active(s) /\ session[s].key \in Keys
         /\ \A x \in Sessions \ {s} : session'[x] = session[x]
         /\ \A k \in Keys \ {session[s].key} :
              live'[k] = live[k] /\ part'[k] = part[k] /\ file'[k] = file[k]
              /\ row'[k] = row[k] /\ newest'[k] = newest[k]
         /\ UNCHANGED <<world, client, refresher>>
  <1> DEFINE r == session[s]
  <1> USE DEF Stage, Finish, Others, disk, db, Remove
  <1>1. /\ session \in [Sessions -> SessionFields] /\ r \in SessionFields
        /\ DOMAIN live = Keys /\ DOMAIN part = Keys /\ DOMAIN file = Keys /\ DOMAIN row = Keys
        /\ DOMAIN newest = Keys
    BY DEF TypeOK, SessionType, WorldType, StoreType
  <1>2. Active(s) => r.key \in Keys
    BY DEF Mapped
  <1>3. CASE OpenPart(s)
    BY <1>1, <1>2, <1>3 DEF OpenPart, Active
  <1>4. ASSUME NEW g \in Generations, FetchBody(s, g)
        PROVE  Active(s) /\ (\A x \in Sessions \ {s} : session'[x] = session[x])
               /\ UNCHANGED <<disk, db, live>> /\ Others
    BY <1>1, <1>4 DEF FetchBody, Active
  <1>5. CASE NotModified(s)
    BY <1>1, <1>2, <1>5 DEF NotModified, Active
  <1>6. CASE TransferFails(s)
    BY <1>1, <1>2, <1>6 DEF TransferFails, Active
  <1>7. CASE RemovePart(s)
    BY <1>1, <1>2, <1>7 DEF RemovePart, Active
  <1>8. CASE BodyEOF(s)
    BY <1>1, <1>2, <1>8 DEF BodyEOF, Active
  <1>9. CASE Rename(s)
    BY <1>1, <1>2, <1>9 DEF Rename, Active
  <1>10. CASE SetFilePath(s)
    BY <1>1, <1>2, <1>10 DEF SetFilePath, Active
  <1>11. CASE Record(s)
    BY <1>1, <1>2, <1>11 DEF Record, Active
  <1>12. CASE Revalidate(s)
    BY <1>1, <1>2, <1>12 DEF Revalidate, Active
  <1>13. CASE StoreFails(s)
    BY <1>1, <1>2, <1>13 DEF StoreFails, Active
  <1>14. CASE Exit(s)
    BY <1>1, <1>2, <1>14 DEF Exit, Active
  <1> QED
    BY <1>2, <1>3, <1>4, <1>5, <1>6, <1>7, <1>8, <1>9, <1>10, <1>11, <1>12, <1>13, <1>14 DEF Download

LEMMA FinishFrame ==
  ASSUME NEW s \in Sessions, TypeOK,
         TransferFails(s) \/ Record(s) \/ Revalidate(s) \/ StoreFails(s)
  PROVE  /\ session'[s].pc \in {"remove", "exit"} /\ session'[s].key = session[s].key
         /\ session'[s].prior = session[s].prior /\ session'[s].gen = session[s].gen
  <1>1. \E to \in {"remove", "exit"}, e \in BOOLEAN :
          session' = [session EXCEPT ![s] = [@ EXCEPT !.pc = to, !.ready = TRUE, !.err = e]]
    BY DEF TransferFails, Record, Revalidate, StoreFails, Finish
  <1>2. session \in [Sessions -> SessionFields] /\ session[s] \in SessionFields
    BY DEF TypeOK, SessionType
  <1> QED
    BY <1>1, <1>2 DEF SessionFields

LEMMA StageFrame ==
  ASSUME NEW s \in Sessions, TypeOK, NEW from, NEW to, Stage(s, from, to)
  PROVE  /\ session'[s].pc = to /\ session'[s].key = session[s].key
         /\ session'[s].prior = session[s].prior /\ session'[s].gen = session[s].gen
         /\ session[s].pc = from
  BY DEF Stage, TypeOK, SessionType, SessionFields

\* Until it exits, a session keeps its key and its row, and the map keeps it.
LEMMA DownloadStays ==
  ASSUME NEW s \in Sessions, TypeOK, Mapped, Download(s), ~Exit(s)
  PROVE  /\ live' = live
         /\ session'[s].key = session[s].key /\ session'[s].prior = session[s].prior
         /\ session'[s].pc # "gone"
         /\ part'[session[s].key] \in {part[session[s].key], "none", s}
  <1> USE DEF disk
  <1>1. /\ session \in [Sessions -> SessionFields] /\ session[s] \in SessionFields
        /\ DOMAIN part = Keys
    BY DEF TypeOK, SessionType, WorldType
  <1>2. session[s].key \in Keys
    BY DownloadFrame
  <1>3. CASE OpenPart(s)
    BY <1>1, <1>2, <1>3, StageFrame DEF OpenPart
  <1>4. ASSUME NEW g \in Generations, FetchBody(s, g)
        PROVE  /\ UNCHANGED <<live, part>> /\ session'[s].key = session[s].key
               /\ session'[s].prior = session[s].prior /\ session'[s].pc # "gone"
    BY <1>1, <1>4 DEF FetchBody, SessionFields
  <1>5. CASE NotModified(s)
    BY <1>1, <1>2, <1>5 DEF NotModified, Remove, SessionFields
  <1>6. CASE TransferFails(s)
    BY <1>6, FinishFrame DEF TransferFails
  <1>7. CASE RemovePart(s)
    BY <1>1, <1>2, <1>7, StageFrame DEF RemovePart, Remove
  <1>8. CASE BodyEOF(s)
    BY <1>8, StageFrame DEF BodyEOF
  <1>9. CASE Rename(s)
    BY <1>1, <1>2, <1>9, StageFrame DEF Rename
  <1>10. CASE SetFilePath(s)
    BY <1>1, <1>10 DEF SetFilePath, SessionFields
  <1>11. CASE Record(s)
    BY <1>11, FinishFrame DEF Record
  <1>12. CASE Revalidate(s)
    BY <1>12, FinishFrame DEF Revalidate
  <1>13. CASE StoreFails(s)
    BY <1>13, FinishFrame DEF StoreFails
  <1> QED
    BY <1>3, <1>4, <1>5, <1>6, <1>7, <1>8, <1>9, <1>10, <1>11, <1>12, <1>13 DEF Download

LEMMA StartedFrame ==
  ASSUME NEW k \in Keys, NEW p \in Generations, NEW s \in Sessions, TypeOK, Started(k, p, s)
  PROVE  /\ UNCHANGED <<world, disk, db, newest>>
         /\ \/ UNCHANGED <<live, session>>
            \/ /\ live[k] = "none" /\ live'[k] = s
               /\ session[s].pc = "gone"
               /\ session'[s].pc = "open" /\ session'[s].key = k /\ session'[s].gen = 0
               /\ session'[s].prior = p
               /\ \A x \in Sessions \ {s} : session'[x] = session[x]
               /\ \A j \in Keys \ {k} : live'[j] = live[j]
               /\ \A j \in Keys : part[j] = s => j = k
  <1>1. UNCHANGED <<world, disk, db, newest>>
    BY DEF Started
  <1>2. CASE UNCHANGED <<live, session>>
    BY <1>1, <1>2
  <1>3. ASSUME live[k] = "none", Free(s, k), live' = [live EXCEPT ![k] = s],
               session' = [session EXCEPT ![s] =
                 [Gone EXCEPT !.pc = "open", !.key = k, !.prior = p]]
        PROVE  /\ live[k] = "none" /\ live'[k] = s
               /\ session[s].pc = "gone"
               /\ session'[s].pc = "open" /\ session'[s].key = k /\ session'[s].gen = 0
               /\ session'[s].prior = p
               /\ \A x \in Sessions \ {s} : session'[x] = session[x]
               /\ \A j \in Keys \ {k} : live'[j] = live[j]
               /\ \A j \in Keys : part[j] = s => j = k
    <2>1. session'[s] = [Gone EXCEPT !.pc = "open", !.key = k, !.prior = p]
      BY <1>3 DEF TypeOK, SessionType
    <2>2. session[s].pc = "gone" /\ \A j \in Keys : part[j] = s => j = k
      BY <1>3 DEF Free
    <2>3. live'[k] = s /\ \A j \in Keys \ {k} : live'[j] = live[j]
      BY <1>3 DEF TypeOK, SessionType
    <2>4. \A x \in Sessions \ {s} : session'[x] = session[x]
      BY <1>3 DEF TypeOK, SessionType
    <2>5. /\ session'[s].pc = "open" /\ session'[s].key = k
          /\ session'[s].gen = 0 /\ session'[s].prior = p
      BY <2>1 DEF Gone
    <2> QED
      BY <1>3, <2>2, <2>3, <2>4, <2>5
  <1> QED
    BY <1>1, <1>2, <1>3 DEF Started, GetOrStart

-----------------------------------------------------------------------------
(* The session map.                                                        *)

MapOfSessions ==
  /\ \A s \in Sessions : Active(s) => session[s].key \in Keys
  /\ OneTransfer
  /\ \A k \in Keys : live[k] # "none" =>
       Active(live[k]) /\ session[live[k]].key = k
  /\ \A k \in Keys : part[k] # "none" /\ Active(part[k]) =>
       session[part[k]].key = k

LEMMA MapDownload ==
  ASSUME NEW s \in Sessions, TypeOK, Mapped, Download(s)
  PROVE  MapOfSessions'
  <1> DEFINE k == session[s].key
  <1> USE DEF MapOfSessions, OneTransfer, Active
  <1>0. /\ Active(s) /\ k \in Keys /\ MapOfSessions
        /\ \A x \in Sessions \ {s} : session'[x] = session[x]
        /\ \A j \in Keys \ {k} : live'[j] = live[j] /\ part'[j] = part[j]
        /\ \A j \in Keys : part[j] \in Sessions \cup {"none"} /\ live[j] \in Sessions \cup {"none"}
        /\ "none" \notin Sessions
    BY DownloadFrame, CacheAssumption DEF Mapped, TypeOK, WorldType, SessionType
  <1>1. CASE ~Exit(s)
    <2>1. /\ live' = live /\ session'[s].key = k /\ session'[s].pc # "gone"
          /\ part'[k] \in {part[k], "none", s}
      BY <1>1, DownloadStays
    <2> QED
      BY <1>0, <2>1
  <1>2. CASE Exit(s)
    <2>1. /\ live'[k] = "none" /\ session'[s].pc = "gone" /\ part' = part
      BY <1>0, <1>2, DownloadSessionType DEF Exit, disk, TypeOK, SessionType, SessionFields, Gone
    <2> QED
      BY <1>0, <2>1
  <1> QED
    BY <1>1, <1>2

LEMMA MapStep == TypeOK /\ Mapped /\ [Next]_vars => MapOfSessions'
  <1> SUFFICES ASSUME TypeOK, Mapped, [Next]_vars PROVE MapOfSessions'
    OBVIOUS
  <1> USE DEF OneTransfer, Active
  <1>0. /\ MapOfSessions /\ "none" \notin Sessions
        /\ \A j \in Keys : part[j] \in Sessions \cup {"none"} /\ live[j] \in Sessions \cup {"none"}
    BY CacheAssumption DEF Mapped, MapOfSessions, TypeOK, WorldType, SessionType
  <1>1. ASSUME NEW s \in Sessions, Download(s) PROVE MapOfSessions'
    BY <1>1, MapDownload
  <1>2. ASSUME NEW k \in Keys, NEW p \in Generations, NEW s \in Sessions, Started(k, p, s)
        PROVE  MapOfSessions'
    <2>1. part' = part
      BY <1>2, StartedFrame DEF disk
    <2>2. CASE UNCHANGED <<live, session>>
      BY <1>0, <2>1, <2>2 DEF MapOfSessions
    <2>3. ASSUME live[k] = "none", live'[k] = s, session[s].pc = "gone",
                 session'[s].pc = "open", session'[s].key = k,
                 \A x \in Sessions \ {s} : session'[x] = session[x],
                 \A j \in Keys \ {k} : live'[j] = live[j],
                 \A j \in Keys : part[j] = s => j = k
          PROVE  MapOfSessions'
      BY <1>0, <2>1, <2>3 DEF MapOfSessions
    <2> QED
      BY <1>2, <2>2, <2>3, StartedFrame
  <1>3. CASE Crash
    BY <1>3 DEF Crash, Restarted, Gone, MapOfSessions
  <1>4. CASE Spared
    BY <1>0, <1>4 DEF Spared, MapOfSessions
  <1> QED
    BY <1>1, <1>2, <1>3, <1>4, Kinds

\* What a request refers to.
Requesting ==
  \A c \in Clients : /\ client[c].pc # "idle" => client[c].key \in Keys
                     /\ client[c].pc = "wait" => client[c].in \in Sessions

LEMMA RequestFrame ==
  ASSUME NEW c \in Clients, TypeOK, Mapped, Request(c)
  PROVE  /\ \A d \in Clients \ {c} : client'[d] = client[d]
         /\ client'[c].pc # "idle" => client'[c].key \in Keys
         /\ client'[c].pc = "wait" => client'[c].in \in Sessions
  <1> DEFINE r == client[c]
  <1>0. /\ client \in [Clients -> ClientFields] /\ r \in ClientFields
        /\ r.pc # "idle" => r.key \in Keys
    BY DEF Mapped, TypeOK, ClientType
  <1>1. \E f : Put(c, f)
    BY DEF Request, Get, Hit, Miss, Touch, Start, Headers, OpenFile, Cached, Watch, Prefetch, PrefetchStarts
  <1>2. \A d \in Clients \ {c} : client'[d] = client[d]
    BY <1>0, <1>1 DEF Put
  <1> USE DEF Put
  <1>3. ASSUME NEW k \in Keys, Get(c, k)
        PROVE  client'[c].key = k /\ client'[c].pc # "wait"
    <2>1. CASE client' = [client EXCEPT ![c] = [Idle EXCEPT !.pc = "tail", !.key = k]]
      BY <1>0, <2>1 DEF Idle
    <2>2. CASE ~(client' = [client EXCEPT ![c] = [Idle EXCEPT !.pc = "tail", !.key = k]])
      <3>1. client'[c] = [Idle EXCEPT !.pc = IF row[k].gen = 0 THEN "start" ELSE "lookup",
                            !.key = k, !.floor = newest[k],
                            !.snap = [gen |-> row[k].gen, created |-> row[k].created]]
        BY <1>0, <1>3, <2>2 DEF Get
      <3> QED
        BY <3>1 DEF Idle
    <2> QED
      BY <2>1, <2>2
  <1>4. ASSUME Hit(c) \/ Miss(c) \/ Touch(c) \/ Headers(c) \/ OpenFile(c)
        PROVE  client'[c].key \in Keys /\ client'[c].pc # "wait"
    <2>1. r.key \in Keys
      BY <1>0, <1>4 DEF Hit, Miss, Touch, Headers, OpenFile
    <2>2. CASE Hit(c)
      BY <1>0, <2>1, <2>2 DEF Hit, ClientFields
    <2>3. CASE Miss(c)
      BY <1>0, <2>1, <2>3 DEF Miss, ClientFields
    <2>4. CASE Touch(c)
      BY <1>0, <2>1, <2>4 DEF Touch, ClientFields
    <2>5. CASE Headers(c)
      BY <1>0, <2>1, <2>5 DEF Headers, ClientFields
    <2>6. CASE OpenFile(c)
      BY <1>0, <2>1, <2>6 DEF OpenFile, ClientFields
    <2> QED
      BY <1>4, <2>2, <2>3, <2>4, <2>5, <2>6
  <1>5. ASSUME NEW s \in Sessions, Start(c, s)
        PROVE  client'[c].key \in Keys /\ client'[c].in = s
    BY <1>0, <1>5 DEF Start, ClientFields
  <1>6. ASSUME Cached(c)
        PROVE  client'[c].pc # "idle" => client'[c].key \in Keys /\ client'[c].pc = "watch"
    <2>1. client'[c] \in {Idle, [Idle EXCEPT !.pc = "watch", !.key = r.key]}
      BY <1>0, <1>6 DEF Cached
    <2>2. r.key \in Keys
      BY <1>0, <1>6 DEF Cached
    <2>3. CASE client'[c] = Idle
      BY <2>3 DEF Idle
    <2>4. CASE client'[c] = [Idle EXCEPT !.pc = "watch", !.key = r.key]
      BY <2>2, <2>4 DEF Idle
    <2> QED
      BY <2>1, <2>3, <2>4
  <1>7. ASSUME Watch(c) \/ \E s \in Sessions : PrefetchStarts(c, s)
        PROVE  client'[c].pc = "idle"
    BY <1>0, <1>7 DEF Watch, PrefetchStarts, Idle
  <1>8. ASSUME NEW k \in Keys, Prefetch(c, k)
        PROVE  client'[c].key = k /\ client'[c].pc = "ahead"
    BY <1>0, <1>8 DEF Prefetch, Idle
  <1> QED
    BY <1>2, <1>3, <1>4, <1>5, <1>6, <1>7, <1>8 DEF Request

LEMMA ClientUntouched ==
  ASSUME TypeOK, [Next]_vars, ~Crash, \A c \in Clients : ~Request(c)
  PROVE  UNCHANGED client
  <1>1. ASSUME NEW s \in Sessions, Download(s) PROVE UNCHANGED client
    BY <1>1 DEF Download, OpenPart, FetchBody, NotModified, TransferFails, RemovePart, BodyEOF,
                Rename, SetFilePath, Record, Revalidate, StoreFails, Exit, Others
  <1> QED
    BY <1>1, CleanupSteps, RefreshSteps, WorldSteps DEF Next

LEMMA RequestingStep == TypeOK /\ Mapped /\ [Next]_vars => Requesting'
  <1> SUFFICES ASSUME TypeOK, Mapped, [Next]_vars PROVE Requesting'
    OBVIOUS
  <1>0. Requesting
    BY DEF Mapped, Requesting
  <1>1. ASSUME NEW c \in Clients, Request(c) PROVE Requesting'
    BY <1>0, <1>1, RequestFrame DEF Requesting
  <1>2. CASE Crash
    BY <1>2 DEF Crash, Restarted, Idle, Requesting
  <1>3. CASE UNCHANGED client
    BY <1>0, <1>3 DEF Requesting
  <1> QED
    BY <1>1, <1>2, <1>3, ClientUntouched

LEMMA MappedStep == TypeOK /\ Mapped /\ [Next]_vars => Mapped'
  BY MapStep, RequestingStep DEF Mapped, MapOfSessions, Requesting

-----------------------------------------------------------------------------
(* Downloads and their files.                                              *)

\* What a step of download leaves in its session.
LEMMA DownloadFields ==
  ASSUME NEW s \in Sessions, TypeOK
  PROVE  /\ OpenPart(s) => session'[s].pc = "fetch" /\ session'[s].gen = session[s].gen
         /\ \A g \in Generations :
              FetchBody(s, g) => session'[s].pc = "body" /\ session'[s].gen = g
         /\ NotModified(s) =>
              session'[s].pc = "revalidate" /\ session'[s].gen = session[s].gen
         /\ BodyEOF(s) => /\ session[s].pc = "body" /\ session'[s].pc = "rename"
                          /\ session'[s].gen = session[s].gen
         /\ Rename(s) => /\ session[s].pc = "rename" /\ session'[s].pc = "setpath"
                         /\ session'[s].gen = session[s].gen
         /\ SetFilePath(s) => /\ session[s].pc = "setpath" /\ session'[s].pc = "record"
                              /\ session'[s].gen = session[s].gen
         /\ TransferFails(s) \/ RemovePart(s) \/ Record(s) \/ Revalidate(s) \/ StoreFails(s)
              => session'[s].pc \in {"remove", "exit"} /\ session'[s].gen = session[s].gen
         /\ Exit(s) => session'[s].pc = "gone" /\ session'[s].gen \in {0, session[s].gen}
  <1>0. session \in [Sessions -> SessionFields] /\ session[s] \in SessionFields
    BY DEF TypeOK, SessionType
  <1>1. ASSUME OpenPart(s) PROVE session'[s].pc = "fetch" /\ session'[s].gen = session[s].gen
    BY <1>1, StageFrame DEF OpenPart
  <1>2. ASSUME NEW g \in Generations, FetchBody(s, g)
        PROVE  session'[s].pc = "body" /\ session'[s].gen = g
    BY <1>0, <1>2 DEF FetchBody, SessionFields
  <1>3. ASSUME NotModified(s)
        PROVE  session'[s].pc = "revalidate" /\ session'[s].gen = session[s].gen
    BY <1>0, <1>3 DEF NotModified, SessionFields
  <1>4. ASSUME BodyEOF(s)
        PROVE  session[s].pc = "body" /\ session'[s].pc = "rename" /\ session'[s].gen = session[s].gen
    BY <1>4, StageFrame DEF BodyEOF
  <1>5. ASSUME Rename(s)
        PROVE  session[s].pc = "rename" /\ session'[s].pc = "setpath" /\ session'[s].gen = session[s].gen
    BY <1>5, StageFrame DEF Rename
  <1>6. ASSUME SetFilePath(s)
        PROVE  session[s].pc = "setpath" /\ session'[s].pc = "record" /\ session'[s].gen = session[s].gen
    BY <1>0, <1>6 DEF SetFilePath, SessionFields
  <1>7. ASSUME RemovePart(s)
        PROVE  session'[s].pc = "exit" /\ session'[s].gen = session[s].gen
    BY <1>7, StageFrame DEF RemovePart
  <1>8. ASSUME Exit(s)
        PROVE  session'[s].pc = "gone" /\ session'[s].gen \in {0, session[s].gen}
    BY <1>0, <1>8 DEF Exit, SessionFields, Gone
  <1> QED
    BY <1>1, <1>2, <1>3, <1>4, <1>5, <1>6, <1>7, <1>8, FinishFrame

LEMMA PartExclusiveStep == TypeOK /\ Mapped /\ PartExclusive /\ [Next]_vars => PartExclusive'
  <1> SUFFICES ASSUME TypeOK, Mapped, PartExclusive, [Next]_vars PROVE PartExclusive'
    OBVIOUS
  <1> USE DEF PartExclusive, disk
  <1>1. ASSUME NEW s \in Sessions, Download(s) PROVE PartExclusive'
    <2> DEFINE k == session[s].key
    <2>1. /\ Active(s) /\ k \in Keys /\ DOMAIN part = Keys
          /\ \A x \in Sessions \ {s} : session'[x] = session[x]
          /\ \A j \in Keys \ {k} : part'[j] = part[j]
      BY <1>1, DownloadFrame DEF TypeOK, WorldType
    <2>2. \A x \in Sessions \ {s} : session[x].pc \in {"fetch", "body", "rename"} =>
            session[x].key \in Keys \ {k}
      BY <2>1 DEF Mapped, OneTransfer, Active
    <2>3. session'[s].pc \in {"fetch", "body", "rename"} => part'[session'[s].key] = s
      <3>1. session'[s].pc # "gone" => session'[s].key = k
        BY <1>1, DownloadStays, DownloadFields
      <3>2. CASE OpenPart(s)
        BY <2>1, <3>1, <3>2, DownloadFields DEF OpenPart, Stage
      <3>3. ASSUME NEW g \in Generations, FetchBody(s, g) PROVE part'[k] = s
        BY <3>3 DEF FetchBody
      <3>4. ASSUME BodyEOF(s) PROVE part'[k] = s
        BY <3>4 DEF BodyEOF, Stage
      <3> QED
        BY <1>1, <3>1, <3>2, <3>3, <3>4, DownloadFields DEF Download
    <2> QED
      BY <2>1, <2>2, <2>3
  <1>2. ASSUME NEW k \in Keys, NEW p \in Generations, NEW s \in Sessions, Started(k, p, s)
        PROVE  PartExclusive'
    BY <1>2, StartedFrame
  <1>3. CASE Crash
    BY <1>3 DEF Crash, Restarted, Gone
  <1>4. CASE Spared
    BY <1>4 DEF Spared
  <1> QED
    BY <1>1, <1>2, <1>3, <1>4, Kinds

LEMMA AnsweredStep == TypeOK /\ Mapped /\ PartExclusive /\ Answered /\ [Next]_vars => Answered'
  <1> SUFFICES ASSUME TypeOK, Mapped, PartExclusive, Answered, [Next]_vars PROVE Answered'
    OBVIOUS
  <1> USE DEF Answered, disk
  <1>1. ASSUME NEW s \in Sessions, Download(s) PROVE Answered'
    <2> DEFINE k == session[s].key
    <2>1. /\ Active(s) /\ k \in Keys /\ file \in [Keys -> Generations]
          /\ \A x \in Sessions \ {s} : session'[x] = session[x]
          /\ \A j \in Keys \ {k} : file'[j] = file[j]
      BY <1>1, DownloadFrame DEF TypeOK, WorldType
    <2>2. \A x \in Sessions \ {s} : session[x].pc \in {"setpath", "record"} =>
            session[x].key \in Keys \ {k}
      BY <2>1 DEF Mapped, OneTransfer, Active
    <2>3. /\ session'[s].pc \in {"open", "fetch"} => session'[s].gen = 0
          /\ session'[s].pc \in {"body", "rename", "setpath", "record"} => session'[s].gen # 0
          /\ session'[s].pc \in {"setpath", "record"}
               => file'[session'[s].key] \in {0, session'[s].gen}
      <3>1. session'[s].pc # "gone" => session'[s].key = k
        BY <1>1, DownloadStays, DownloadFields
      <3>2. ASSUME NEW g \in Generations, FetchBody(s, g) PROVE g # 0
        BY <2>1, <3>2, CacheAssumption DEF FetchBody, Published, TypeOK, WorldType
      <3>3. CASE Rename(s)
        <4>0. Stage(s, "rename", "setpath") /\ session[s].pc = "rename"
          BY <3>3 DEF Rename, Stage
        <4>1. part[k] = s /\ session'[s].pc = "setpath" /\ session'[s].key = k
              /\ session'[s].gen = session[s].gen /\ session[s].gen # 0
          BY <3>1, <4>0, StageFrame DEF PartExclusive
        <4>2. file'[k] = session[s].gen
          BY <2>1, <3>3, <4>1 DEF Rename
        <4> QED
          BY <4>1, <4>2
      <3>4. CASE SetFilePath(s)
        BY <3>1, <3>4, DownloadFields DEF SetFilePath
      <3>5. CASE OpenPart(s)
        BY <3>5, DownloadFields DEF OpenPart, Stage
      <3> QED
        BY <1>1, <3>1, <3>2, <3>3, <3>4, <3>5, DownloadFields DEF Download
    <2> QED
      BY <2>1, <2>2, <2>3
  <1>2. ASSUME NEW k \in Keys, NEW p \in Generations, NEW s \in Sessions, Started(k, p, s)
        PROVE  Answered'
    BY <1>2, StartedFrame
  <1>3. CASE Crash
    BY <1>3 DEF Crash, Restarted, Gone
  <1>4. CASE Spared
    <2>1. \A s \in Sessions : session[s].pc \in {"setpath", "record"} => session[s].key \in Keys
      BY DEF Mapped, Active
    <2> QED
      BY <1>4, <2>1 DEF Spared
  <1> QED
    BY <1>1, <1>2, <1>3, <1>4, Kinds

-----------------------------------------------------------------------------
(* The cleanup worker.                                                     *)

\* Only the second statement of store.Delete takes a row away.
LEMMA RowDeletedBy ==
  ASSUME TypeOK, Mapped, Answered, [Next]_vars, NEW k \in Keys, row[k].gen # 0, row'[k].gen = 0
  PROVE  DeleteRow /\ k = cleaner.at.key
  <1> USE DEF db
  <1>0. row \in [Keys -> RowType]
    BY DEF TypeOK, StoreType
  <1>1. ASSUME NEW s \in Sessions, Download(s) PROVE FALSE
    <2>1. CASE Record(s)
      <3>1. session[s].pc = "record"
        BY <2>1 DEF Record, Finish
      <3>2. session[s].gen # 0
        BY <3>1 DEF Answered
      <3> QED
        BY <1>0, <2>1, <3>2 DEF Record
    <2>2. CASE Revalidate(s)
      <3>1. row'[k].gen = row[k].gen
        BY <1>0, <2>2 DEF Revalidate, RowType
      <3> QED
        BY <3>1
    <2> QED
      BY <1>1, <2>1, <2>2
      DEF Download, OpenPart, FetchBody, NotModified, TransferFails, RemovePart, BodyEOF, Rename,
          SetFilePath, StoreFails, Exit
  <1>2. ASSUME NEW c \in Clients, Request(c) PROVE FALSE
    <2>1. CASE Touch(c)
      <3>1. row'[k].gen = row[k].gen
        BY <1>0, <2>1 DEF Touch, RowType
      <3> QED
        BY <3>1
    <2> QED
      BY <1>2, <2>1 DEF Request, Get, Hit, Miss, Start, Headers, OpenFile,
                Cached, Watch, Prefetch, PrefetchStarts
  <1>3. CASE Cleanup
    <2>1. CASE DeleteRow
      BY <1>0, <2>1 DEF DeleteRow
    <2> QED
      BY <1>3, <2>1 DEF Cleanup, CleanupStarts, Candidate, Skip, Unlink, DeleteWatch,
                TotalSize, List, QueryFails, CleanupEnds
  <1>4. CASE Refresh
    BY <1>4 DEF Refresh, RefreshStarts, WatchesDue, RefreshWatch, CheckedWatch, RefreshEnds
  <1>5. CASE Crash
    BY <1>5 DEF Crash
  <1> QED
    BY <1>1, <1>2, <1>3, <1>4, <1>5, WorldSteps DEF Next

\* The rows keep their generations, and so their sizes, in all other steps but
\* in store.Complete.
LEMMA SizesKept ==
  ASSUME TypeOK, [Next]_vars, ~DeleteRow, \A s \in Sessions : ~Record(s), NEW k \in Keys
  PROVE  Size(k)' = Size(k)
  <1> USE DEF db, Size
  <1>0. row[k] \in RowType /\ row \in [Keys -> RowType]
    BY DEF TypeOK, StoreType
  <1>1. ASSUME NEW s \in Sessions, Download(s) PROVE row'[k].gen = row[k].gen
    <2>1. CASE Revalidate(s)
      BY <1>0, <2>1 DEF Revalidate, RowType
    <2> QED
      BY <1>1, <2>1
      DEF Download, OpenPart, FetchBody, NotModified, TransferFails, RemovePart, BodyEOF, Rename,
          SetFilePath, StoreFails, Exit
  <1>2. ASSUME NEW c \in Clients, Request(c) PROVE row'[k].gen = row[k].gen
    <2>1. CASE Touch(c)
      BY <1>0, <2>1 DEF Touch, RowType
    <2> QED
      BY <1>2, <2>1 DEF Request, Get, Hit, Miss, Start, Headers, OpenFile,
                Cached, Watch, Prefetch, PrefetchStarts
  <1>3. CASE Cleanup
    BY <1>3 DEF Cleanup, CleanupStarts, Candidate, Skip, Unlink, DeleteWatch,
              TotalSize, List, QueryFails, CleanupEnds
  <1>4. CASE Refresh
    BY <1>4 DEF Refresh, RefreshStarts, WatchesDue, RefreshWatch, CheckedWatch, RefreshEnds
  <1>5. CASE Crash
    BY <1>5 DEF Crash
  <1> QED
    BY <1>1, <1>2, <1>3, <1>4, <1>5, WorldSteps DEF Next

LEMMA ClaimedHas ==
  ASSUME NEW x
  PROVE  x \in Claimed <=>
           \/ \E e \in OnList : x \in {e.key} \X (1..e.size)
           \/ \E k \in Keys : (\A e \in OnList : e.key # k) /\ x \in {k} \X (1..Size(k))
  BY DEF Claimed

\* Nothing is claimed that is not there, while the sizes on the list are not
\* above those in the rows.
LEMMA ClaimedStored ==
  ASSUME TypeOK, \A e \in OnList : e \in Entries /\ e.size <= Size(e.key)
  PROVE  /\ Claimed \subseteq Stored /\ IsFiniteSet(Claimed)
         /\ Cardinality(Claimed) \in Nat /\ Cardinality(Claimed) <= Cardinality(Stored)
  <1>1. ASSUME NEW x \in Claimed PROVE x \in Stored
    <2>1. \A k \in Keys : {k} \X (1..Size(k)) \subseteq Stored
      BY DEF Stored
    <2>2. ASSUME NEW e \in OnList PROVE {e.key} \X (1..e.size) \subseteq {e.key} \X (1..Size(e.key))
      <3>1. e.key \in Keys /\ e.size \in Nat /\ e.size <= Size(e.key) /\ Size(e.key) \in Nat
        BY LengthType DEF Entries
      <3>2. 1..e.size \subseteq 1..Size(e.key)
        BY <3>1
      <3> QED
        BY <3>2
    <2>3. \A e \in OnList : e.key \in Keys
      BY DEF Entries
    <2> QED
      BY <1>1, <2>1, <2>2, <2>3, ClaimedHas
  <1> QED
    BY <1>1, StoredFinite, FS_Subset, FS_CardinalityType

\* The list gets shorter and no row smaller.
LEMMA ClaimedGrows ==
  ASSUME TypeOK, Listed, OnList' \subseteq OnList,
         \A e \in OnList : e \in Entries /\ e.size <= Size(e.key),
         \A k \in Keys : Size(k) \in Nat /\ Size(k)' \in Nat /\ Size(k) <= Size(k)'
  PROVE  /\ Claimed \subseteq Claimed'
         /\ \A e \in OnList' : e.size <= Size(e.key)'
  <1>1. \A e \in OnList : e.key \in Keys /\ e.size \in Nat /\ e.size <= Size(e.key)'
    BY DEF Entries
  <1>2. \A x : x \in Claimed' <=>
           \/ \E e \in OnList' : x \in {e.key} \X (1..e.size)
           \/ \E k \in Keys : (\A e \in OnList' : e.key # k) /\ x \in {k} \X (1..Size(k)')
    BY DEF Claimed
  <1>3. ASSUME NEW x, NEW e \in OnList, x \in {e.key} \X (1..e.size) PROVE x \in Claimed'
    <2>1. CASE e \in OnList'
      BY <1>2, <1>3, <2>1
    <2>2. CASE e \notin OnList'
      <3>1. \A f \in OnList' : f.key # e.key
        BY <2>2 DEF Listed
      <3>2. 1..e.size \subseteq 1..(Size(e.key)')
        BY <1>1
      <3>3. x \in {e.key} \X (1..(Size(e.key)'))
        BY <1>3, <3>2
      <3> QED
        BY <1>1, <1>2, <3>1, <3>3
    <2> QED
      BY <2>1, <2>2
  <1>4. ASSUME NEW x, NEW k \in Keys, \A e \in OnList : e.key # k, x \in {k} \X (1..Size(k))
        PROVE  x \in Claimed'
    <2>1. 1..Size(k) \subseteq 1..(Size(k)')
      OBVIOUS
    <2>2. x \in {k} \X (1..(Size(k)')) /\ \A e \in OnList' : e.key # k
      BY <1>4, <2>1
    <2> QED
      BY <1>2, <2>2
  <1> QED
    BY <1>1, <1>3, <1>4, ClaimedHas

LEMMA ClaimedFinite ==
  TypeOK /\ (\A e \in OnList : e \in Entries /\ e.size <= Size(e.key))
    => IsFiniteSet(Claimed) /\ Cardinality(Claimed) \in Nat
  BY ClaimedStored

\* The same of the next state.
LEMMA ClaimedStoredNext ==
  ASSUME TypeOK', \A e \in OnList' : e \in Entries /\ e.size <= Size(e.key)'
  PROVE  IsFiniteSet(Claimed') /\ Cardinality(Claimed') \in Nat
  <1>1. (TypeOK /\ (\A e \in OnList : e \in Entries /\ e.size <= Size(e.key))
           => IsFiniteSet(Claimed) /\ Cardinality(Claimed) \in Nat)'
    BY ClaimedFinite, PTL
  <1> QED
    BY <1>1

LEMMA SizeTypes == TypeOK => \A k \in Keys : Size(k) \in Nat
  BY LengthType

LEMMA SizeTypesNext ==
  ASSUME TypeOK'
  PROVE  \A k \in Keys : Size(k)' \in Nat
  <1>1. TypeOK' => (\A k \in Keys : Size(k) \in Nat)'
    BY SizeTypes, PTL
  <1> QED
    BY <1>1

LEMMA OnListType ==
  ASSUME TypeOK, Listed
  PROVE  OnList \subseteq Entries
  BY DEF TypeOK, WorkerType, CleanerFields, Listed, OnList

\* What moves the clock and the cleaner.
LEMMA CleanerSteps ==
  ASSUME TypeOK, Mapped, [Next]_vars
  PROVE  /\ now \in Nat /\ now' \in Nat /\ now' >= now
         /\ \/ Cleanup \/ cleaner' = Asleep \/ (\E s \in Sessions : Record(s))
            \/ cleaner' = cleaner /\ ~DeleteRow /\ \A s \in Sessions : ~Record(s)
  <1>1. now \in Nat
    BY CacheAssumption DEF TypeOK, WorldType
  <1>2. now' \in Nat /\ now' >= now
    <2>1. CASE UNCHANGED now
      BY <1>1, <2>1
    <2>2. CASE Tick
      BY <1>1, <2>2 DEF Tick
    <2>3. ASSUME NEW k \in Keys, Publish(k) \/ RemoveByHand(k) PROVE UNCHANGED now
      BY <2>3 DEF Publish, RemoveByHand, Inside, world
    <2>4. ASSUME NEW c \in Clients, Request(c) PROVE UNCHANGED now
      BY <2>4 DEF Request, Get, Hit, Miss, Touch, Start, Headers, OpenFile,
                Cached, Watch, Prefetch, PrefetchStarts, Quiet, world
    <2>5. ASSUME NEW s \in Sessions, Download(s) PROVE UNCHANGED now
      BY <2>5 DEF Download, OpenPart, FetchBody, NotModified, TransferFails, RemovePart, BodyEOF,
                Rename, SetFilePath, Record, Revalidate, StoreFails, Exit, Others, world
    <2>6. CASE Cleanup
      BY <1>1, <2>6, CleanupSteps DEF world
    <2>7. CASE Refresh
      <3>1. UNCHANGED world
        BY <2>7 DEF Refresh, RefreshStarts, WatchesDue, RefreshWatch, CheckedWatch, RefreshEnds
      <3> QED
        BY <1>1, <3>1 DEF world
    <2>8. CASE Crash
      BY <1>1, <2>8 DEF Crash, world
    <2>9. CASE UNCHANGED vars
      BY <1>1, <2>9 DEF vars, world
    <2> QED
      BY <2>1, <2>2, <2>3, <2>4, <2>5, <2>6, <2>7, <2>8, <2>9 DEF Next
  <1>3. CASE UNCHANGED cleaner
    <2>1. CASE DeleteRow
      BY <1>3, <2>1 DEF DeleteRow, Clean, TypeOK, WorkerType, CleanerFields
    <2> QED
      BY <1>1, <1>2, <1>3, <2>1
  <1>4. CASE Crash
    BY <1>1, <1>2, <1>4 DEF Crash, Restarted
  <1>5. ASSUME NEW s \in Sessions, Download(s), ~Record(s) PROVE UNCHANGED cleaner
    BY <1>5, DownloadCleaner
  <1>6. ASSUME NEW c \in Clients, Request(c) PROVE UNCHANGED cleaner
    BY <1>6 DEF Request, Get, Hit, Miss, Touch, Start, Headers, OpenFile,
              Cached, Watch, Prefetch, PrefetchStarts, Quiet
  <1> QED
    BY <1>1, <1>2, <1>3, <1>4, <1>5, <1>6, RefreshSteps, WorldSteps DEF Next

\* Within a pass the list only gets shorter.
LEMMA ShorterList ==
  ASSUME TypeOK, Listed, now \in Nat, now' \in Nat, now' >= now,
         OnList' \subseteq OnList, cleaner'.pass = cleaner.pass,
         cleaner'.pc = "list" => cleaner'.todo = {},
         cleaner'.pc \in Evicting => cleaner'.at \in Entries /\ cleaner'.at \notin cleaner'.todo
  PROVE  Listed'
  <1>1. \A e \in OnList : e.access \in Nat
    BY OnListType DEF Entries
  <1>2. cleaner.pass = "inactive" =>
          \A e \in OnList' : Tracked(e.key) /\ e.access < now' - InactivityTTL
    BY <1>1, CacheAssumption DEF Listed
  <1> QED
    BY <1>2 DEF Listed, Tracked

LEMMA ListedStep == TypeOK /\ Mapped /\ Listed /\ [Next]_vars => Listed'
  <1> SUFFICES ASSUME TypeOK, Mapped, Listed, [Next]_vars PROVE Listed'
    OBVIOUS
  <1>0. cleaner \in CleanerFields /\ now \in Nat /\ now' \in Nat /\ now' >= now
    BY CleanerSteps DEF TypeOK, WorkerType
  <1>1. CASE cleaner' = Asleep
    BY <1>1 DEF Asleep, Listed, OnList, Evicting
  <1>2. CASE cleaner' = cleaner \/ \E s \in Sessions : Record(s)
    <2>1. /\ cleaner'.pc = cleaner.pc /\ cleaner'.pass = cleaner.pass
          /\ cleaner'.todo = cleaner.todo /\ cleaner'.at = cleaner.at
      BY <1>0, <1>2 DEF Record, CleanerFields
    <2>2. OnList' = OnList
      BY <2>1 DEF OnList
    <2> QED
      BY <1>0, <2>1, <2>2, ShorterList DEF Listed
  <1>3. CASE Cleanup
    <2>0. now' = now
      BY <1>3, CleanupSteps DEF world
    <2>1. CASE CleanupStarts
      <3>1. /\ cleaner'.pc = "pick" /\ cleaner'.pass = "inactive" /\ cleaner'.todo = InactiveTracked
        BY <2>1 DEF CleanupStarts, Clean, Asleep
      <3>2. OnList' = InactiveTracked
        BY <3>1 DEF OnList, Evicting
      <3>3. \A e \in InactiveTracked : Tracked(e.key) /\ e.access < now - InactivityTTL
        BY DEF InactiveTracked, Candidates
      <3>4. \A e, f \in InactiveTracked : e.key = f.key => e = f
        BY DEF InactiveTracked, Candidates
      <3> QED
        BY <2>0, <3>1, <3>2, <3>3, <3>4 DEF Listed, Evicting, Tracked
    <2>2. CASE Candidate
      <3>1. PICK e \in cleaner.todo :
               /\ cleaner.pc = "pick"
               /\ cleaner' = [cleaner EXCEPT
                    !.pc = IF live[e.key] = "none" THEN "unlink" ELSE "pick",
                    !.todo = @ \ {e},
                    !.at = IF live[e.key] = "none" THEN e ELSE NoEntry]
        BY <2>2 DEF Candidate, Clean
      <3>2. /\ cleaner'.pass = cleaner.pass /\ cleaner'.todo = cleaner.todo \ {e}
            /\ cleaner'.pc \in {"unlink", "pick"}
            /\ cleaner'.pc = "unlink" => cleaner'.at = e
        BY <1>0, <3>1 DEF CleanerFields
      <3>3. e \in Entries
        BY <1>0 DEF CleanerFields
      <3>4. OnList' \subseteq OnList
        BY <3>2 DEF OnList, Evicting
      <3> QED
        BY <1>0, <3>2, <3>3, <3>4, ShorterList DEF Evicting
    <2>3. CASE Skip("unlink") \/ Skip("unwatch") \/ Skip("delete") \/ DeleteRow
      <3>1. cleaner'.pc = "pick" /\ cleaner'.pass = cleaner.pass /\ cleaner'.todo = cleaner.todo
        BY <1>0, <2>3 DEF Skip, DeleteRow, Clean, CleanerFields
      <3>2. OnList' \subseteq OnList
        BY <3>1 DEF OnList, Evicting
      <3> QED
        BY <1>0, <3>1, <3>2, ShorterList DEF Evicting
    <2>4. CASE Unlink \/ DeleteWatch
      <3>1. /\ cleaner.pc \in Evicting /\ cleaner'.pc \in Evicting /\ cleaner'.pass = cleaner.pass
            /\ cleaner'.todo = cleaner.todo /\ cleaner'.at = cleaner.at
        BY <1>0, <2>4 DEF Unlink, DeleteWatch, Clean, CleanerFields, Evicting
      <3>2. OnList' = OnList
        BY <3>1 DEF OnList
      <3> QED
        BY <1>0, <3>1, <3>2, ShorterList DEF Evicting, Listed
    <2>5. CASE TotalSize
      <3>1. cleaner'.pc \in {"idle", "list"} /\ cleaner'.todo = {}
        BY <2>5 DEF TotalSize, Clean, Asleep
      <3>2. OnList' = {}
        BY <3>1 DEF OnList, Evicting
      <3> QED
        BY <3>1, <3>2 DEF Listed, Evicting
    <2>6. CASE List
      <3>1. cleaner'.pc = "pick" /\ cleaner'.pass = "capacity" /\ cleaner'.todo = LeastRecentlyUsed
        BY <1>0, <2>6 DEF List, Clean, CleanerFields
      <3>2. OnList' = LeastRecentlyUsed
        BY <3>1 DEF OnList, Evicting
      <3>3. \A e, f \in LeastRecentlyUsed : e.key = f.key => e = f
        BY DEF LeastRecentlyUsed, Candidates
      <3> QED
        BY <3>1, <3>2, <3>3 DEF Listed, Evicting
    <2>7. CASE QueryFails \/ CleanupEnds
      BY <1>1, <2>7 DEF QueryFails, CleanupEnds, Clean
    <2> QED
      BY <1>3, <2>1, <2>2, <2>3, <2>4, <2>5, <2>6, <2>7 DEF Cleanup
  <1> QED
    BY <1>1, <1>2, <1>3, CleanerSteps

\* While the list gets shorter and no row smaller, the total stays covered.
LEMMA StaysCounted ==
  ASSUME TypeOK, TypeOK', Listed, Listed', Counted, OnList' \subseteq OnList,
         Counting, ~cleaner.shrunk, cleaner'.total = cleaner.total,
         \A k \in Keys : Size(k) <= Size(k)'
  PROVE  /\ \A e \in OnList' : e.size <= Size(e.key)'
         /\ cleaner'.total <= Cardinality(Claimed')
  <1>1. OnList \subseteq Entries /\ \A e \in OnList : e.size <= Size(e.key)
    BY OnListType DEF Counted
  <1>2. \A k \in Keys : Size(k) \in Nat /\ Size(k)' \in Nat /\ Size(k) <= Size(k)'
    BY SizeTypes, SizeTypesNext
  <1>3. Claimed \subseteq Claimed' /\ \A e \in OnList' : e.size <= Size(e.key)'
    BY <1>1, <1>2, ClaimedGrows
  <1>4. IsFiniteSet(Claimed') /\ Cardinality(Claimed') \in Nat
    BY <1>1, <1>3, ClaimedStoredNext
  <1>5. Cardinality(Claimed) \in Nat /\ Cardinality(Claimed) <= Cardinality(Claimed')
    BY <1>3, <1>4, FS_Subset, FS_CardinalityType
  <1>6. cleaner.total \in Int /\ cleaner.total <= Cardinality(Claimed)
    BY DEF Counted, TypeOK, WorkerType, CleanerFields
  <1> QED
    BY <1>3, <1>4, <1>5, <1>6

\* The row that goes takes at most the bytes with it that the total loses.
LEMMA CountedDelete ==
  ASSUME TypeOK, TypeOK', Listed, Counted, DeleteRow, cleaner.pass = "capacity", ~cleaner.shrunk
  PROVE  /\ \A e \in OnList' : e.size <= Size(e.key)'
         /\ cleaner'.total <= Cardinality(Claimed')
  <1> DEFINE a == cleaner.at
             B == {a.key} \X (1..a.size)
  <1>0. cleaner \in CleanerFields
    BY DEF TypeOK, WorkerType
  <1>1. /\ cleaner.pc = "delete" /\ cleaner'.pc = "pick" /\ cleaner'.todo = cleaner.todo
        /\ cleaner'.total = cleaner.total - a.size
    BY <1>0 DEF DeleteRow, Clean, CleanerFields
  <1>2. OnList = cleaner.todo \cup {a} /\ OnList' = cleaner.todo
    BY <1>1 DEF OnList, Evicting
  <1>3. a \in Entries /\ a \notin cleaner.todo /\ \A e \in cleaner.todo : e.key # a.key
    BY <1>1, <1>2 DEF Listed, Evicting
  <1>4. \A e \in OnList : e \in Entries /\ e.size <= Size(e.key)
    BY OnListType DEF Counted, Counting
  <1>5. \A k \in Keys \ {a.key} : Size(k)' = Size(k)
    BY DEF DeleteRow, Size, TypeOK, StoreType
  <1>6. \A e \in OnList' : e.size <= Size(e.key)'
    <2>1. \A e \in cleaner.todo : e.key \in Keys \ {a.key}
      BY <1>2, <1>3, <1>4 DEF Entries
    <2> QED
      BY <1>2, <1>4, <1>5, <2>1
  <1>7. Claimed \ B \subseteq Claimed'
    <2>1. \A x : x \in Claimed' <=>
             \/ \E e \in OnList' : x \in {e.key} \X (1..e.size)
             \/ \E k \in Keys : (\A e \in OnList' : e.key # k) /\ x \in {k} \X (1..(Size(k)'))
      BY DEF Claimed
    <2>2. ASSUME NEW x \in Claimed, x \notin B, NEW e \in OnList, x \in {e.key} \X (1..e.size)
          PROVE  x \in Claimed'
      <3>1. e \in OnList'
        BY <1>2, <2>2
      <3> QED
        BY <2>1, <2>2, <3>1
    <2>3. ASSUME NEW x \in Claimed, NEW k \in Keys, \A e \in OnList : e.key # k,
                 x \in {k} \X (1..Size(k))
          PROVE  x \in Claimed'
      <3>1. k # a.key /\ \A e \in OnList' : e.key # k
        BY <1>2, <2>3
      <3>2. x \in {k} \X (1..(Size(k)'))
        BY <1>5, <2>3, <3>1
      <3> QED
        BY <2>1, <3>1, <3>2
    <2> QED
      BY <2>2, <2>3, ClaimedHas
  <1>8. IsFiniteSet(Claimed) /\ Cardinality(Claimed) \in Nat
    BY <1>4, ClaimedStored
  <1>9. IsFiniteSet(Claimed') /\ Cardinality(Claimed') \in Nat
    BY <1>2, <1>4, <1>6, ClaimedStoredNext
  <1>10. a.size \in Nat /\ IsFiniteSet(B) /\ Cardinality(B) = a.size
    BY <1>3, BytesOf DEF Entries
  <1>11. /\ Cardinality(Claimed \ B) = Cardinality(Claimed) - Cardinality(Claimed \cap B)
         /\ Cardinality(Claimed \cap B) \in Nat /\ Cardinality(Claimed \cap B) <= Cardinality(B)
         /\ Cardinality(Claimed \ B) <= Cardinality(Claimed')
    <2>1. Cardinality(Claimed \ B) = Cardinality(Claimed) - Cardinality(Claimed \cap B)
      BY <1>8, FS_Difference
    <2>2. IsFiniteSet(Claimed \cap B) /\ Cardinality(Claimed \cap B) <= Cardinality(B)
      BY <1>10, FS_Subset
    <2>3. Cardinality(Claimed \ B) <= Cardinality(Claimed')
      BY <1>7, <1>9, FS_Subset
    <2> QED
      BY <2>1, <2>2, <2>3, FS_CardinalityType
  <1>12. cleaner.total \in Int /\ cleaner.total <= Cardinality(Claimed)
    BY <1>0 DEF Counted, Counting, CleanerFields
  <1> QED
    BY <1>1, <1>6, <1>8, <1>9, <1>10, <1>11, <1>12

LEMMA CountedStep == TypeOK /\ TypeOK' /\ Mapped /\ Listed /\ Listed' /\ Counted /\ [Next]_vars => Counted'
  <1> SUFFICES ASSUME TypeOK, TypeOK', Mapped, Listed, Listed', Counted, [Next]_vars PROVE Counted'
    OBVIOUS
  <1>0. cleaner \in CleanerFields /\ \A k \in Keys : Size(k) \in Nat /\ Size(k)' \in Nat
    BY SizeTypes, SizeTypesNext DEF TypeOK, WorkerType
  <1>1. CASE cleaner'.pass = "inactive" /\ cleaner'.pc # "list"
    BY <1>1 DEF Counted, Counting
  <1>2. CASE cleaner' = cleaner /\ ~DeleteRow /\ \A s \in Sessions : ~Record(s)
    <2>1. OnList' = OnList /\ (Counting' <=> Counting)
      BY <1>2 DEF OnList, Counting
    <2>2. \A k \in Keys : Size(k) <= Size(k)'
      BY <1>0, <1>2, SizesKept
    <2> QED
      BY <1>2, <2>1, <2>2, StaysCounted DEF Counted
  <1>3. ASSUME NEW s \in Sessions, Record(s) PROVE Counted'
    <2> DEFINE k == session[s].key
    <2>1. /\ cleaner'.pc = cleaner.pc /\ cleaner'.pass = cleaner.pass
          /\ cleaner'.todo = cleaner.todo /\ cleaner'.at = cleaner.at
          /\ cleaner'.total = cleaner.total
          /\ ~cleaner'.shrunk =>
               ~cleaner.shrunk /\ (Counting => ~(Bytes[k][session[s].gen] < Size(k)))
      BY <1>0, <1>3 DEF Record, CleanerFields
    <2>2. OnList' = OnList /\ (Counting' <=> Counting)
      BY <2>1 DEF OnList, Counting
    <2>3. k \in Keys
      BY <1>3 DEF Record, Finish, Mapped, Active
    <2>4. \A j \in Keys : Size(j)' = IF j = k THEN Bytes[k][session[s].gen] ELSE Size(j)
      BY <1>3, <2>3 DEF Record, Size, TypeOK, StoreType
    <2>5. ASSUME Counting, ~cleaner'.shrunk PROVE \A j \in Keys : Size(j) <= Size(j)'
      BY <1>0, <2>1, <2>3, <2>4, <2>5
    <2> QED
      BY <2>1, <2>2, <2>5, StaysCounted DEF Counted
  <1>4. CASE Cleanup
    <2>1. CASE CleanupStarts \/ QueryFails \/ CleanupEnds
      <3>1. CASE CleanupStarts
        <4>1. cleaner'.pc = "pick" /\ cleaner'.pass = "inactive"
          BY <3>1 DEF CleanupStarts, Clean, Asleep
        <4> QED
          BY <1>1, <4>1
      <3>2. CASE QueryFails \/ CleanupEnds
        <4>1. cleaner'.pc = "idle" /\ cleaner'.pass = "inactive"
          BY <3>2 DEF QueryFails, CleanupEnds, Clean, Asleep
        <4> QED
          BY <1>1, <4>1
      <3> QED
        BY <2>1, <3>1, <3>2
    <2>2. CASE Candidate \/ Skip("unlink") \/ Skip("unwatch") \/ Skip("delete") \/ Unlink \/ DeleteWatch
      <3>1. PICK e \in cleaner.todo \cup {NoEntry} :
               /\ cleaner'.total = cleaner.total /\ cleaner'.pass = cleaner.pass
               /\ cleaner'.shrunk = cleaner.shrunk /\ cleaner.pc # "list" /\ cleaner'.pc # "list"
               /\ OnList' \subseteq OnList
        <4>1. CASE Candidate
          <5>1. PICK e \in cleaner.todo :
                   /\ cleaner.pc = "pick"
                   /\ cleaner' = [cleaner EXCEPT
                        !.pc = IF live[e.key] = "none" THEN "unlink" ELSE "pick",
                        !.todo = @ \ {e},
                        !.at = IF live[e.key] = "none" THEN e ELSE NoEntry]
            BY <4>1 DEF Candidate, Clean
          <5> QED
            BY <1>0, <5>1 DEF CleanerFields, OnList, Evicting
        <4>2. CASE Skip("unlink") \/ Skip("unwatch") \/ Skip("delete")
          BY <1>0, <4>2 DEF Skip, Clean, CleanerFields, OnList, Evicting
        <4>3. CASE Unlink \/ DeleteWatch
          BY <1>0, <4>3 DEF Unlink, DeleteWatch, Clean, CleanerFields, OnList, Evicting
        <4> QED
          BY <2>2, <4>1, <4>2, <4>3
      <3>2. \A k \in Keys : Size(k) <= Size(k)'
        <4>1. UNCHANGED row
          BY <2>2 DEF Candidate, Skip, Unlink, DeleteWatch, db
        <4> QED
          BY <1>0, <4>1 DEF Size
      <3>3. Counting' <=> Counting
        BY <3>1 DEF Counting
      <3>4. cleaner'.pass = "capacity" /\ cleaner'.pc \in Evicting => cleaner'.total > MaxSize
        <4>1. CASE Candidate
          BY <3>1, <4>1 DEF Candidate, Over
        <4>2. CASE Skip("unlink") \/ Skip("unwatch") \/ Skip("delete")
          BY <1>0, <4>2 DEF Skip, Clean, CleanerFields, Evicting
        <4>3. CASE Unlink \/ DeleteWatch
          BY <3>1, <4>3 DEF Unlink, DeleteWatch, Clean, Counted, Evicting
        <4> QED
          BY <2>2, <4>1, <4>2, <4>3
      <3> QED
        BY <3>1, <3>2, <3>3, <3>4, StaysCounted DEF Counted
    <2>3. CASE DeleteRow
      <3>1. cleaner'.pc = "pick" /\ cleaner'.pass = cleaner.pass /\ cleaner'.shrunk = cleaner.shrunk
        BY <1>0, <2>3 DEF DeleteRow, Clean, CleanerFields
      <3>2. CASE cleaner.pass = "inactive"
        BY <1>1, <3>1, <3>2
      <3>3. CASE cleaner.pass = "capacity"
        BY <2>3, <3>1, <3>3, CountedDelete DEF Counted, Evicting
      <3> QED
        BY <1>0, <3>2, <3>3 DEF CleanerFields
    <2>4. CASE TotalSize
      <3>1. CASE cleaner' = Asleep
        BY <1>1, <3>1 DEF Asleep
      <3>2. CASE cleaner' = [Asleep EXCEPT !.pc = "list", !.total = Cardinality(Stored)]
        <4>1. /\ cleaner'.pc = "list" /\ cleaner'.todo = {} /\ cleaner'.pass = "inactive"
              /\ cleaner'.total = Cardinality(Stored)
          BY <3>2 DEF Asleep
        <4>2. OnList' = {}
          BY <4>1 DEF OnList, Evicting
        <4>3. row' = row
          BY <2>4 DEF TotalSize, db
        <4>4. Claimed' = Stored
          BY <4>2, <4>3 DEF Claimed, Stored, Size
        <4>5. Cardinality(Stored) \in Nat
          BY StoredFinite
        <4> QED
          BY <4>1, <4>2, <4>4, <4>5 DEF Counted
      <3> QED
        BY <2>4, <3>1, <3>2 DEF TotalSize, Clean
    <2>5. CASE List
      <3>1. /\ cleaner.pc = "list" /\ cleaner'.pc = "pick" /\ cleaner'.todo = LeastRecentlyUsed
            /\ cleaner'.total = cleaner.total /\ cleaner'.shrunk = cleaner.shrunk
        BY <1>0, <2>5 DEF List, Clean, CleanerFields
      <3>2. OnList = {} /\ OnList' = LeastRecentlyUsed
        BY <3>1 DEF OnList, Evicting, Listed
      <3>3. row' = row
        BY <2>5 DEF List, db
      <3>4. \A e \in OnList' : e.key \in Rows /\ e.size = Size(e.key)
        BY <3>2 DEF LeastRecentlyUsed, Candidates
      <3>5. \A k \in Keys : Size(k)' = Size(k) /\ (k \notin Rows => Size(k) = 0)
        BY <3>3, CacheAssumption DEF Size, Rows
      <3>6. LeastRecentlyUsed \subseteq Entries
        BY CandidatesType DEF LeastRecentlyUsed, Rows
      <3>7. \A e \in OnList' : e \in Entries /\ e.size <= Size(e.key)'
        BY <1>0, <3>2, <3>4, <3>5, <3>6 DEF Entries
      <3>8. Claimed \subseteq Claimed'
        <4>1. \A x : x \in Claimed' <=>
                 \/ \E e \in OnList' : x \in {e.key} \X (1..e.size)
                 \/ \E k \in Keys : (\A e \in OnList' : e.key # k) /\ x \in {k} \X (1..(Size(k)'))
          BY DEF Claimed
        <4>2. ASSUME NEW x, NEW k \in Keys, x \in {k} \X (1..Size(k)) PROVE x \in Claimed'
          <5>1. CASE \E e \in OnList' : e.key = k
            BY <3>4, <4>1, <4>2, <5>1
          <5>2. CASE \A e \in OnList' : e.key # k
            BY <3>5, <4>1, <4>2, <5>2
          <5> QED
            BY <5>1, <5>2
        <4> QED
          BY <3>2, <4>2, ClaimedHas
      <3>9. IsFiniteSet(Claimed') /\ Cardinality(Claimed') \in Nat
        BY <3>7, ClaimedStoredNext
      <3>10. Cardinality(Claimed) \in Nat /\ Cardinality(Claimed) <= Cardinality(Claimed')
        BY <3>8, <3>9, FS_Subset, FS_CardinalityType
      <3>11. ~cleaner.shrunk => cleaner.total \in Int /\ cleaner.total <= Cardinality(Claimed)
        BY <1>0, <3>1 DEF Counted, Counting, CleanerFields
      <3> QED
        BY <3>1, <3>7, <3>9, <3>10, <3>11 DEF Counted, Evicting
    <2> QED
      BY <1>4, <2>1, <2>2, <2>3, <2>4, <2>5 DEF Cleanup
  <1>5. CASE cleaner' = Asleep
    BY <1>1, <1>5 DEF Asleep
  <1> QED
    BY <1>2, <1>3, <1>4, <1>5, CleanerSteps

-----------------------------------------------------------------------------
(* Generations.  None of them ever goes back, unless a backup lags behind. *)

LEMMA NewestType ==
  ASSUME TypeOK
  PROVE  \A k \in Keys : newest[k] \in Nat /\ upstream[k] \in Nat /\ file[k] \in Nat
                         /\ row[k].gen \in Nat
  BY CacheAssumption DEF TypeOK, WorldType, StoreType, RowType, Generations

LEMMA NewestGrows ==
  ASSUME TypeOK, Mapped, [Next]_vars, NEW k \in Keys
  PROVE  newest'[k] \in Nat /\ newest'[k] >= newest[k]
  <1>0. newest[k] \in Nat /\ newest \in [Keys -> Generations] /\ newest' \in [Keys -> Generations]
    BY NewestType, WorldTypeStep DEF TypeOK, WorldType
  <1>1. newest'[k] \in Nat
    BY <1>0, CacheAssumption DEF Generations
  <1>2. ASSUME NEW s \in Sessions, Download(s), newest' # newest PROVE newest'[k] >= newest[k]
    <2>1. Rename(s)
      BY <1>2 DEF Download, OpenPart, FetchBody, NotModified, TransferFails, RemovePart, BodyEOF,
                  SetFilePath, Record, Revalidate, StoreFails, Exit, Others
    <2>2. newest'[k] \in {newest[k], file'[k]} /\ (newest'[k] = file'[k] => newest'[k] >= newest[k])
      BY <1>0, <1>1, <2>1 DEF Rename
    <2> QED
      BY <1>0, <2>2
  <1>3. CASE newest' = newest
    BY <1>0, <1>3
  <1>4. ASSUME newest' # newest PROVE \E s \in Sessions : Download(s)
    BY <1>4, Kinds DEF Started, Spared, Crash
  <1> QED
    BY <1>1, <1>2, <1>3, <1>4

\* What the starter of a session offers for revalidation has been in place.
LEMMA KindsRemembered ==
  ASSUME TypeOK, Mapped, Remembered, [Next]_vars
  PROVE  \/ \E s \in Sessions : Download(s)
         \/ \E k \in Keys, p \in Generations, s \in Sessions : Started(k, p, s) /\ p <= newest[k]
         \/ Crash
         \/ Spared
  <1>1. ASSUME NEW c \in Clients, Request(c)
        PROVE  \/ \E k \in Keys, p \in Generations, s \in Sessions : Started(k, p, s) /\ p <= newest[k]
               \/ Spared
    <2>1. client[c].pc \in {"start", "ahead"} => client[c].prior <= newest[client[c].key]
      BY DEF Remembered
    <2> QED
      BY <1>1, <2>1, RequestSteps DEF Start, PrefetchStarts
  <1>2. CASE Refresh
    BY <1>2, RefreshSteps DEF Remembered
  <1> QED
    BY <1>1, <1>2, CleanupSteps, WorldSteps DEF Next

PromotedKey(k) ==
  /\ newest[k] <= upstream[k]
  /\ file[k] \in {0, newest[k]}
  /\ row[k].gen <= newest[k]
  /\ part[k] # "none" => session[part[k]].gen = 0 \/ session[part[k]].gen >= newest[k]

PromotedSession(s) ==
  LET top == newest[session[s].key] IN
  /\ session[s].prior <= top
  /\ session[s].gen <= upstream[session[s].key]
  /\ session[s].pc \in {"body", "rename"} => session[s].gen >= top
  /\ session[s].pc \in {"setpath", "record"} => session[s].gen = top
  /\ session[s].pc = "revalidate" => session[s].prior = top

LEMMA PromotedParts ==
  Promoted <=> /\ \A k \in Keys : PromotedKey(k)
               /\ \A s \in Sessions : Active(s) => PromotedSession(s)
  BY DEF Promoted, PromotedKey, PromotedSession

\* The key and the session that a step of a download is about.
LEMMA PromotedDownload ==
  ASSUME "lag" \notin Faults, NEW s \in Sessions, NEW k \in Keys, k = session[s].key,
         TypeOK, Mapped, PartExclusive, Answered, Promoted, Download(s)
  PROVE  PromotedKey(k)' /\ (~Exit(s) => PromotedSession(s)')
  <1> USE DEF disk, db, world, Others
  <1>1. Active(s) /\ PromotedKey(k) /\ PromotedSession(s) /\ upstream' = upstream
    BY DownloadFrame, PromotedParts
  <1>2. /\ newest[k] \in Nat /\ upstream[k] \in Nat /\ file[k] \in Nat /\ row[k].gen \in Nat
        /\ session[s].gen \in Nat /\ session[s].prior \in Nat
        /\ part \in [Keys -> Sessions \cup {"none"}] /\ file \in [Keys -> Generations]
        /\ row \in [Keys -> RowType] /\ newest \in [Keys -> Generations]
        /\ "none" \notin Sessions
    BY Bounds, NewestType
    DEF TypeOK, SessionType, SessionFields, WorldType, StoreType, RowType, Generations
  <1>3. ~Exit(s) => session'[s].key = k /\ session'[s].prior = session[s].prior
    BY DownloadStays
  <1>4. \A x \in Sessions \ {s} : session'[x] = session[x]
    BY DownloadFrame
  <1>5. Published(k) = {upstream[k]}
    BY DEF Published
  <1>6. ASSUME OpenPart(s) PROVE PromotedKey(k)' /\ PromotedSession(s)'
    <2>1. /\ UNCHANGED <<file, row, newest>> /\ part'[k] = s /\ ~Exit(s)
          /\ session'[s].pc = "fetch" /\ session'[s].gen = 0
      BY <1>1, <1>2, <1>6, DownloadFields DEF OpenPart, Stage, Answered, Exit
    <2> QED
      BY <1>1, <1>2, <1>3, <2>1 DEF PromotedKey, PromotedSession
  <1>7. ASSUME NEW g \in Generations, FetchBody(s, g) PROVE PromotedKey(k)' /\ PromotedSession(s)'
    <2>1. /\ UNCHANGED <<file, row, newest, part>> /\ part[k] = s /\ g = upstream[k] /\ ~Exit(s)
          /\ session'[s].pc = "body" /\ session'[s].gen = g
      BY <1>2, <1>5, <1>7, DownloadFields DEF FetchBody, PartExclusive, Exit
    <2> QED
      BY <1>1, <1>2, <1>3, <2>1 DEF PromotedKey, PromotedSession
  <1>8. ASSUME NotModified(s) PROVE PromotedKey(k)' /\ PromotedSession(s)'
    <2>1. /\ UNCHANGED <<file, row, newest>> /\ part'[k] \in {part[k], "none"} /\ ~Exit(s)
          /\ session[s].prior = upstream[k]
          /\ session'[s].pc = "revalidate" /\ session'[s].gen = session[s].gen
      BY <1>2, <1>5, <1>8, DownloadFields DEF NotModified, Remove, Exit
    <2>2. CASE part'[k] = part[k] /\ part[k] # "none"
      <3>1. session'[part'[k]].gen = session[part[k]].gen
        BY <1>2, <1>4, <2>1, <2>2
      <3> QED
        BY <1>1, <1>2, <1>3, <2>1, <2>2, <3>1 DEF PromotedKey, PromotedSession
    <2>3. CASE part'[k] = "none"
      BY <1>1, <1>2, <1>3, <2>1, <2>3 DEF PromotedKey, PromotedSession
    <2> QED
      BY <2>1, <2>2, <2>3
  <1>9. ASSUME Rename(s) PROVE PromotedKey(k)' /\ PromotedSession(s)'
    <2>1. /\ row' = row /\ part'[k] = "none" /\ ~Exit(s)
          /\ session[s].pc = "rename" /\ session'[s].pc = "setpath"
          /\ session'[s].gen = session[s].gen
      BY <1>2, <1>9, DownloadFields DEF Rename, Exit
    <2>2. file'[k] = session[s].gen /\ newest'[k] = IF file'[k] > newest[k] THEN file'[k] ELSE newest[k]
      BY <1>2, <1>9, <2>1 DEF Rename, PartExclusive
    <2>3. session[s].gen >= newest[k] /\ session[s].gen <= upstream[k]
      BY <1>1, <2>1 DEF PromotedSession
    <2>4. newest'[k] = session[s].gen
      BY <1>2, <2>2, <2>3
    <2> QED
      BY <1>1, <1>2, <1>3, <2>1, <2>2, <2>3, <2>4 DEF PromotedKey, PromotedSession
  <1>10. ASSUME RemovePart(s) PROVE PromotedKey(k)' /\ PromotedSession(s)'
    <2>1. /\ UNCHANGED <<file, row, newest>> /\ part'[k] \in {part[k], "none"} /\ ~Exit(s)
          /\ session'[s].pc \in {"remove", "exit"} /\ session'[s].gen = session[s].gen
      BY <1>2, <1>10, DownloadFields DEF RemovePart, Remove, Stage, Exit
    <2>2. CASE part'[k] = part[k] /\ part[k] # "none"
      <3>1. session'[part'[k]].gen = session[part[k]].gen
        BY <1>2, <1>4, <2>1, <2>2
      <3> QED
        BY <1>1, <1>2, <1>3, <2>1, <2>2, <3>1 DEF PromotedKey, PromotedSession
    <2>3. CASE part'[k] = "none"
      BY <1>1, <1>2, <1>3, <2>1, <2>3 DEF PromotedKey, PromotedSession
    <2> QED
      BY <2>1, <2>2, <2>3
  <1>11. ASSUME Record(s) PROVE PromotedKey(k)' /\ PromotedSession(s)'
    <2>1. /\ UNCHANGED <<file, part, newest>> /\ row'[k].gen = session[s].gen /\ ~Exit(s)
          /\ session[s].pc = "record"
          /\ session'[s].pc \in {"remove", "exit"} /\ session'[s].gen = session[s].gen
      BY <1>2, <1>11, DownloadFields DEF Record, Finish, Exit
    <2> QED
      BY <1>1, <1>2, <1>3, <1>4, <2>1 DEF PromotedKey, PromotedSession
  <1>12. ASSUME Revalidate(s) PROVE PromotedKey(k)' /\ PromotedSession(s)'
    <2>1. /\ UNCHANGED <<file, part, newest>> /\ ~Exit(s)
          /\ session'[s].pc \in {"remove", "exit"} /\ session'[s].gen = session[s].gen
      BY <1>12, DownloadFields DEF Revalidate, Finish, Exit
    <2>2. row'[k].gen = row[k].gen
      BY <1>2, <1>12 DEF Revalidate, RowType
    <2> QED
      BY <1>1, <1>2, <1>3, <1>4, <2>1, <2>2 DEF PromotedKey, PromotedSession
  <1>13. ASSUME UNCHANGED <<file, part, row, newest>>, session'[s].gen = session[s].gen, ~Exit(s),
                \/ session'[s].pc \in {"remove", "exit"}
                \/ session[s].pc = "body" /\ session'[s].pc = "rename"
                \/ session[s].pc = "setpath" /\ session'[s].pc = "record"
         PROVE  PromotedKey(k)' /\ PromotedSession(s)'
    BY <1>1, <1>2, <1>3, <1>4, <1>13 DEF PromotedKey, PromotedSession
  <1>14. ASSUME Exit(s) PROVE PromotedKey(k)'
    <2>1. /\ UNCHANGED <<file, part, row, newest>> /\ session'[s].gen \in {0, session[s].gen}
      BY <1>14, DownloadFields DEF Exit
    <2> QED
      BY <1>1, <1>2, <1>4, <2>1 DEF PromotedKey
  <1>15. ASSUME TransferFails(s) \/ BodyEOF(s) \/ SetFilePath(s) \/ StoreFails(s)
         PROVE  /\ UNCHANGED <<file, part, row, newest>> /\ session'[s].gen = session[s].gen
                /\ ~Exit(s)
                /\ \/ session'[s].pc \in {"remove", "exit"}
                   \/ session[s].pc = "body" /\ session'[s].pc = "rename"
                   \/ session[s].pc = "setpath" /\ session'[s].pc = "record"
    BY <1>15, DownloadFields DEF TransferFails, BodyEOF, SetFilePath, StoreFails, Finish, Stage, Exit
  <1> QED
    BY <1>6, <1>7, <1>8, <1>9, <1>10, <1>11, <1>12, <1>13, <1>14, <1>15 DEF Download

LEMMA PromotedStep ==
  ASSUME "lag" \notin Faults, TypeOK, Mapped, PartExclusive, Answered, Promoted, Remembered,
         [Next]_vars
  PROVE  Promoted'
  <1> USE DEF disk, db, world
  <1>0. /\ \A k \in Keys : PromotedKey(k)
        /\ \A s \in Sessions : Active(s) => PromotedSession(s) /\ session[s].key \in Keys
        /\ part \in [Keys -> Sessions \cup {"none"}] /\ "none" \notin Sessions
    BY PromotedParts, CacheAssumption DEF Mapped, TypeOK, WorldType
  <1> DEFINE Goal == /\ \A k \in Keys : PromotedKey(k)'
                     /\ \A s \in Sessions : Active(s)' => PromotedSession(s)'
  <1>1. SUFFICES Goal
    BY DEF Promoted, PromotedKey, PromotedSession
  <1>2. ASSUME NEW s \in Sessions, Download(s) PROVE Goal
    <2>1. PICK k \in Keys : k = session[s].key
      BY <1>2, DownloadFrame
    <2>2. /\ Active(s) /\ upstream' = upstream
          /\ \A x \in Sessions \ {s} : session'[x] = session[x]
          /\ \A j \in Keys \ {k} : live'[j] = live[j] /\ part'[j] = part[j] /\ file'[j] = file[j]
                                   /\ row'[j] = row[j] /\ newest'[j] = newest[j]
      BY <1>2, <2>1, DownloadFrame
    <2>3. PromotedKey(k)' /\ (Active(s)' => PromotedSession(s)')
      BY <1>2, <2>1, PromotedDownload, DownloadFields DEF Active
    <2>4. \A j \in Keys \ {k} : part[j] # s
      BY <1>0, <2>1, <2>2 DEF Mapped
    <2>5. \A j \in Keys \ {k} : PromotedKey(j)'
      BY <1>0, <2>2, <2>4 DEF PromotedKey
    <2>6. \A x \in Sessions \ {s} : Active(x) => session[x].key \in Keys \ {k}
      BY <1>0, <2>1, <2>2 DEF Mapped, OneTransfer
    <2>7. \A x \in Sessions \ {s} : Active(x)' => PromotedSession(x)'
      BY <1>0, <2>2, <2>6 DEF PromotedSession, Active
    <2> QED
      BY <2>3, <2>5, <2>7
  <1>3. ASSUME NEW k \in Keys, NEW p \in Generations, NEW s \in Sessions, Started(k, p, s),
               p <= newest[k]
        PROVE  Goal
    <2>1. CASE UNCHANGED <<live, session>>
      BY <1>0, <1>3, <2>1, StartedFrame DEF PromotedKey, PromotedSession, Active
    <2>2. ASSUME session'[s].pc = "open", session'[s].key = k, session'[s].gen = 0,
                 session'[s].prior = p,
                 \A x \in Sessions \ {s} : session'[x] = session[x]
          PROVE  Goal
      <3>1. UNCHANGED <<world, disk, db, newest>>
        BY <1>3, StartedFrame
      <3>2. upstream[k] \in Nat
        BY NewestType
      <3>3. PromotedSession(s)'
        BY <1>3, <2>2, <3>1, <3>2 DEF PromotedSession
      <3> QED
        BY <1>0, <2>2, <3>1, <3>3 DEF PromotedKey, PromotedSession, Active
    <2> QED
      BY <1>3, <2>1, <2>2, StartedFrame
  <1>4. CASE Crash
    BY <1>0, <1>4 DEF Crash, Restarted, Gone, PromotedKey, Active
  <1>5. CASE Spared
    <2>1. \A k \in Keys : /\ newest[k] \in Nat /\ upstream[k] \in Nat /\ upstream'[k] \in Nat
                          /\ row[k].gen \in Nat
      BY NewestType, WorldTypeStep, CacheAssumption DEF WorldType
    <2>2. \A s \in Sessions : session[s].gen \in Nat
      BY CacheAssumption DEF TypeOK, SessionType, SessionFields, Generations
    <2>3. \A k \in Keys : PromotedKey(k)'
      BY <1>0, <1>5, <2>1 DEF Spared, PromotedKey
    <2>4. \A s \in Sessions : Active(s)' => PromotedSession(s)'
      BY <1>0, <1>5, <2>1, <2>2 DEF Spared, PromotedSession, Active
    <2> QED
      BY <2>3, <2>4
  <1> QED
    BY <1>2, <1>3, <1>4, <1>5, KindsRemembered

\* What one step leaves a request with.
LEMMA RequestMemory ==
  ASSUME NEW c \in Clients, TypeOK, Mapped, Promoted, Remembered, NeverOlder, Request(c)
  PROVE  /\ newest' = newest
         /\ client'[c].pc # "idle" =>
              LET top == newest[client'[c].key] IN
              client'[c].floor <= top /\ client'[c].snap.gen <= top /\ client'[c].prior <= top
         /\ client'[c].gen # 0 => client'[c].gen >= client'[c].floor
  <1> DEFINE r == client[c]
  <1> USE DEF Put
  <1>0. /\ client \in [Clients -> ClientFields] /\ r \in ClientFields
        /\ r.pc # "idle" => r.key \in Keys
        /\ \A k \in Keys : newest[k] \in Nat /\ row[k].gen \in Nat /\ row[k].gen <= newest[k]
                           /\ file[k] \in {0, newest[k]}
    BY NewestType DEF Mapped, TypeOK, ClientType, Promoted
  <1>1. /\ r.floor \in Nat /\ r.gen \in Nat /\ r.snap.gen \in Nat
        /\ r.gen # 0 => r.gen >= r.floor
        /\ r.pc # "idle" => /\ r.floor <= newest[r.key] /\ r.snap.gen <= newest[r.key]
                            /\ r.prior <= newest[r.key]
    BY <1>0, Bounds DEF ClientFields, Generations, NeverOlder, Remembered
  <1>2. newest' = newest
    BY DEF Request, Get, Hit, Miss, Touch, Start, Headers, OpenFile,
              Cached, Watch, Prefetch, PrefetchStarts, Quiet
  <1>3. ASSUME NEW k \in Keys, Get(c, k)
        PROVE  /\ client'[c].key = k /\ client'[c].gen = 0 /\ client'[c].prior = 0
               /\ client'[c].floor \in {0, newest[k]} /\ client'[c].snap.gen \in {0, row[k].gen}
    <2>1. CASE client' = [client EXCEPT ![c] =
                 [Idle EXCEPT !.pc = IF row[k].gen = 0 THEN "start" ELSE "lookup",
                              !.key = k, !.floor = newest[k],
                              !.snap = [gen |-> row[k].gen, created |-> row[k].created]]]
      BY <1>0, <2>1 DEF Idle
    <2>2. CASE client' = [client EXCEPT ![c] = [Idle EXCEPT !.pc = "tail", !.key = k]]
      BY <1>0, <2>2 DEF Idle, NoSnap
    <2> QED
      BY <1>3, <2>1, <2>2 DEF Get
  <1>4. ASSUME Hit(c)
        PROVE  /\ r.pc # "idle" /\ client'[c].key = r.key /\ client'[c].gen = file[r.key]
               /\ client'[c].prior = r.prior /\ client'[c].floor = r.floor
               /\ client'[c].snap.gen = 0
    BY <1>0, <1>4 DEF Hit, NoSnap, ClientFields
  <1>5. ASSUME Miss(c)
        PROVE  /\ r.pc # "idle" /\ client'[c].key = r.key /\ client'[c].gen = r.gen
               /\ client'[c].prior \in {0, r.snap.gen} /\ client'[c].floor = r.floor
               /\ client'[c].snap = r.snap
    BY <1>0, <1>5 DEF Miss, ClientFields
  <1>6. ASSUME Touch(c) \/ Headers(c) \/ \E s \in Sessions : Start(c, s)
        PROVE  /\ r.pc # "idle" /\ client'[c].key = r.key /\ client'[c].gen = r.gen
               /\ client'[c].prior \in {0, r.prior} /\ client'[c].floor = r.floor
               /\ client'[c].snap.gen \in {0, r.snap.gen}
    <2>1. CASE Touch(c)
      BY <1>0, <2>1 DEF Touch, ClientFields
    <2>2. CASE Headers(c)
      BY <1>0, <2>2 DEF Headers, ClientFields
    <2>3. ASSUME NEW s \in Sessions, Start(c, s)
          PROVE  /\ r.pc # "idle" /\ client'[c].key = r.key /\ client'[c].gen = r.gen
                 /\ client'[c].prior \in {0, r.prior} /\ client'[c].floor = r.floor
                 /\ client'[c].snap.gen \in {0, r.snap.gen}
      BY <1>0, <2>3 DEF Start, NoSnap, ClientFields
    <2> QED
      BY <1>6, <2>1, <2>2, <2>3
  <1>7. ASSUME OpenFile(c)
        PROVE  /\ r.pc # "idle" /\ client'[c].key = r.key
               /\ client'[c].gen # 0 => client'[c].gen >= r.floor
               /\ client'[c].prior = r.prior /\ client'[c].floor = r.floor
               /\ client'[c].snap = r.snap
    <2>1. /\ r.pc # "idle" /\ client'[c].key = r.key /\ client'[c].gen = Opened(c)
          /\ client'[c].prior = r.prior /\ client'[c].floor = r.floor
          /\ client'[c].snap = r.snap
      BY <1>0, <1>7 DEF OpenFile, ClientFields
    <2>2. r.key \in Keys /\ part[r.key] \in Sessions \cup {"none"}
      BY <1>0, <2>1 DEF TypeOK, WorldType
    <2>3. \A s \in Sessions : session[s].gen \in Nat
      BY CacheAssumption DEF TypeOK, SessionType, SessionFields, Generations
    <2>4. part[r.key] # "none" => session[part[r.key]].gen = 0
                                  \/ session[part[r.key]].gen >= newest[r.key]
      BY <2>2 DEF Promoted
    <2>5. Opened(c) # 0 => Opened(c) >= r.floor
      BY <1>0, <1>1, <2>1, <2>2, <2>3, <2>4 DEF Opened, Partial
    <2> QED
      BY <2>1, <2>5
  <1>8. ASSUME Cached(c)
        PROVE  /\ client'[c].gen = 0 /\ client'[c].prior = 0 /\ client'[c].floor = 0
               /\ client'[c].snap.gen = 0
               /\ client'[c].pc # "idle" => client'[c].key \in Keys
    <2>1. client'[c] \in {Idle, [Idle EXCEPT !.pc = "watch", !.key = r.key]} /\ r.key \in Keys
      BY <1>0, <1>8 DEF Cached
    <2> HIDE DEF r
    <2>2. CASE client'[c] = Idle
      BY <2>2 DEF Idle, NoSnap
    <2>3. CASE client'[c] = [Idle EXCEPT !.pc = "watch", !.key = r.key]
      BY <2>1, <2>3 DEF Idle, NoSnap
    <2> QED
      BY <2>1, <2>2, <2>3
  <1>9. ASSUME Watch(c) \/ \E s \in Sessions : PrefetchStarts(c, s)
        PROVE  client'[c].pc = "idle" /\ client'[c].gen = 0
    BY <1>0, <1>9 DEF Watch, PrefetchStarts, Idle
  <1>16. ASSUME NEW k \in Keys, Prefetch(c, k)
         PROVE  /\ client'[c].key = k /\ client'[c].gen = 0 /\ client'[c].prior = row[k].gen
                /\ client'[c].floor = 0 /\ client'[c].snap.gen = 0
    BY <1>0, <1>16 DEF Prefetch, Idle, NoSnap
  <1> HIDE DEF r
  <1>10. CASE \E k \in Keys : Get(c, k)
    BY <1>0, <1>2, <1>3, <1>10
  <1>11. CASE Hit(c)
    BY <1>0, <1>1, <1>2, <1>4, <1>11
  <1>12. CASE Miss(c)
    BY <1>0, <1>1, <1>2, <1>5, <1>12
  <1>13. CASE Touch(c) \/ Headers(c) \/ \E s \in Sessions : Start(c, s)
    BY <1>0, <1>1, <1>2, <1>6, <1>13
  <1>14. CASE OpenFile(c)
    BY <1>1, <1>2, <1>7, <1>14
  <1>15. CASE Cached(c) \/ Watch(c) \/ \E s \in Sessions : PrefetchStarts(c, s)
    BY <1>0, <1>2, <1>8, <1>9, <1>15
  <1>17. CASE \E k \in Keys : Prefetch(c, k)
    BY <1>0, <1>2, <1>16, <1>17
  <1> QED
    BY <1>10, <1>11, <1>12, <1>13, <1>14, <1>15, <1>17 DEF Request

LEMMA NeverOlderStep ==
  ASSUME TypeOK, Mapped, Promoted, Remembered, NeverOlder, [Next]_vars
  PROVE  NeverOlder'
  <1>1. ASSUME NEW c \in Clients, Request(c) PROVE NeverOlder'
    BY <1>1, RequestFrame, RequestMemory DEF NeverOlder
  <1>2. CASE Crash
    BY <1>2 DEF Crash, Restarted, Idle, NeverOlder
  <1>3. CASE UNCHANGED client
    BY <1>3 DEF NeverOlder
  <1> QED
    BY <1>1, <1>2, <1>3, ClientUntouched

RememberedBy(c) ==
  client[c].pc # "idle" =>
    LET top == newest[client[c].key] IN
    client[c].floor <= top /\ client[c].snap.gen <= top /\ client[c].prior <= top

LEMMA RememberedStep ==
  ASSUME TypeOK, Mapped, Promoted, Remembered, NeverOlder, [Next]_vars
  PROVE  Remembered'
  <1>0. /\ \A k \in Keys : newest[k] \in Nat /\ newest'[k] \in Nat /\ newest'[k] >= newest[k]
        /\ \A c \in Clients : RememberedBy(c)
        /\ \A e \in refresher.todo : e.key \in Keys /\ e.gen \in Nat /\ e.gen <= newest[e.key]
    BY NewestType, NewestGrows, Bounds
    DEF Remembered, RememberedBy, TypeOK, WorkerType, RefresherFields, Generations
  <1>1. \A c \in Clients : RememberedBy(c)'
    <2>1. ASSUME NEW c \in Clients, Request(c) PROVE \A d \in Clients : RememberedBy(d)'
      <3>1. RememberedBy(c)' /\ newest' = newest
        BY <2>1, RequestMemory DEF RememberedBy
      <3>2. \A d \in Clients \ {c} : client'[d] = client[d]
        BY <2>1, RequestFrame
      <3> QED
        BY <1>0, <3>1, <3>2 DEF RememberedBy
    <2>2. CASE Crash
      BY <2>2 DEF Crash, Restarted, Idle, RememberedBy
    <2>3. CASE UNCHANGED client
      <3>1. \A c \in Clients : client[c].pc # "idle" =>
              /\ client[c].key \in Keys /\ client[c].floor \in Nat
              /\ client[c].snap.gen \in Nat /\ client[c].prior \in Nat
        BY CacheAssumption DEF Mapped, TypeOK, ClientType, ClientFields, Generations
      <3> QED
        BY <1>0, <2>3, <3>1 DEF RememberedBy
    <2> QED
      BY <2>1, <2>2, <2>3, ClientUntouched
  <1>2. \A e \in refresher'.todo : e.gen <= newest'[e.key]
    <2>1. CASE UNCHANGED refresher
      BY <1>0, <2>1
    <2>2. CASE Crash
      BY <2>2 DEF Crash, Restarted, Resting
    <2>3. CASE Refresh
      <3>0. refresher.todo \subseteq [key : Keys, gen : Generations, checked : Int]
        BY DEF TypeOK, WorkerType, RefresherFields
      <3>1. CASE RefreshStarts
        BY <3>1 DEF RefreshStarts, Turn, Resting
      <3>2. CASE WatchesDue
        <4>1. PICK due \in SUBSET Rows :
                refresher' = [Resting EXCEPT !.pc = "pick",
                  !.todo = {[key |-> k, gen |-> row[k].gen, checked |-> watch[k].checked] : k \in due}]
          BY <3>2 DEF WatchesDue, Turn
        <4>2. refresher'.todo =
                {[key |-> k, gen |-> row[k].gen, checked |-> watch[k].checked] : k \in due}
          BY <4>1 DEF Resting
        <4>3. \A k \in due : k \in Keys /\ row[k].gen <= newest[k] /\ row[k].gen \in Nat
          BY NewestType DEF Rows, Promoted
        <4> QED
          BY <1>0, <4>2, <4>3
      <3>3. ASSUME NEW s \in Sessions, RefreshWatch(s) PROVE refresher'.todo \subseteq refresher.todo
        BY <3>3 DEF RefreshWatch, Turn, TypeOK, WorkerType
      <3>4. CASE CheckedWatch \/ RefreshEnds
        <4>1. refresher' = Resting \/ refresher' = [refresher EXCEPT !.pc = "pick", !.at = "none"]
          BY <3>4 DEF CheckedWatch, RefreshEnds, Turn
        <4>2. refresher'.todo \subseteq refresher.todo
          <5>1. CASE refresher' = Resting
            BY <5>1 DEF Resting
          <5>2. CASE refresher' = [refresher EXCEPT !.pc = "pick", !.at = "none"]
            BY <5>2 DEF TypeOK, WorkerType
          <5> QED
            BY <4>1, <5>1, <5>2
        <4> QED
          BY <1>0, <4>2
      <3> QED
        BY <1>0, <2>3, <3>1, <3>2, <3>3, <3>4 DEF Refresh
    <2>4. ASSUME NEW s \in Sessions, Download(s) PROVE UNCHANGED refresher
      BY <2>4, DownloadFrame
    <2>5. ASSUME NEW c \in Clients, Request(c) PROVE UNCHANGED refresher
      BY <2>5 DEF Request, Get, Hit, Miss, Touch, Start, Headers, OpenFile,
                Cached, Watch, Prefetch, PrefetchStarts, Quiet
    <2> QED
      BY <2>1, <2>2, <2>3, <2>4, <2>5, CleanupSteps, WorldSteps DEF Next
  <1> QED
    BY <1>1, <1>2 DEF Remembered, RememberedBy

-----------------------------------------------------------------------------
(* Rows and files.                                                         *)

AgreedKey(k) ==
  \/ file[k] # 0 /\ row[k].gen # 0 => row[k].gen = file[k]
  \/ live[k] # "none" /\ session[live[k]].pc \in {"setpath", "record"}

LEMMA AgreedStep ==
  ASSUME Faults \cap {"crash", "record"} = {}, TypeOK, Mapped, PartExclusive, Answered, Agreed,
         [Next]_vars
  PROVE  Agreed'
  <1> USE DEF disk, db
  <1>0. /\ \A k \in Keys : AgreedKey(k) /\ live[k] \in Sessions \cup {"none"}
        /\ file \in [Keys -> Generations] /\ row \in [Keys -> RowType]
        /\ "none" \notin Sessions
    BY CacheAssumption DEF Agreed, AgreedKey, TypeOK, WorldType, StoreType, SessionType
  <1> DEFINE Goal == \A k \in Keys : AgreedKey(k)'
  <1>1. SUFFICES Goal
    BY DEF Agreed, AgreedKey
  <1>2. ASSUME NEW s \in Sessions, Download(s) PROVE Goal
    <2>1. PICK k \in Keys : k = session[s].key
      BY <1>2, DownloadFrame
    <2>2. /\ live[k] = s
          /\ \A x \in Sessions \ {s} : session'[x] = session[x]
          /\ \A j \in Keys \ {k} : live'[j] = live[j] /\ file'[j] = file[j] /\ row'[j] = row[j]
      BY <1>2, <2>1, DownloadFrame DEF Mapped, OneTransfer
    <2>3. \A j \in Keys \ {k} : live[j] # s
      BY <1>0, <2>1 DEF Mapped
    <2>4. \A j \in Keys \ {k} : AgreedKey(j)'
      BY <1>0, <2>2, <2>3 DEF AgreedKey
    <2>5. AgreedKey(k)'
      <3>1. CASE Rename(s) \/ SetFilePath(s)
        <4>1. live'[k] = s /\ session'[s].pc \in {"setpath", "record"}
          BY <2>2, <3>1, DownloadFields DEF Rename, SetFilePath
        <4> QED
          BY <1>0, <4>1 DEF AgreedKey
      <3>2. CASE Record(s)
        <4>1. session[s].pc = "record" /\ row'[k].gen = session[s].gen /\ file' = file
          BY <1>0, <2>1, <3>2 DEF Record, Finish
        <4> QED
          BY <2>1, <4>1 DEF AgreedKey, Answered
      <3>3. ASSUME session[s].pc \notin {"setpath", "record"}, UNCHANGED file,
                   row'[k].gen = row[k].gen
            PROVE  AgreedKey(k)'
        BY <1>0, <2>2, <3>3 DEF AgreedKey
      <3>4. CASE Revalidate(s)
        <4>1. row'[k].gen = row[k].gen /\ session[s].pc = "revalidate" /\ file' = file
          BY <1>0, <2>1, <3>4 DEF Revalidate, Finish, RowType
        <4> QED
          BY <3>3, <4>1
      <3>5. CASE OpenPart(s) \/ NotModified(s) \/ RemovePart(s) \/ Exit(s) \/ BodyEOF(s)
        BY <3>3, <3>5 DEF OpenPart, NotModified, RemovePart, Exit, BodyEOF, Stage
      <3>6. CASE TransferFails(s)
        BY <3>3, <3>6 DEF TransferFails, Finish
      <3>7. ASSUME NEW g \in Generations, FetchBody(s, g) PROVE AgreedKey(k)'
        BY <3>3, <3>7 DEF FetchBody
      <3>8. ~StoreFails(s)
        BY DEF StoreFails
      <3> QED
        BY <1>2, <3>1, <3>2, <3>4, <3>5, <3>6, <3>7, <3>8 DEF Download
    <2> QED
      BY <2>4, <2>5
  <1>3. ASSUME NEW k \in Keys, NEW p \in Generations, NEW s \in Sessions, Started(k, p, s)
        PROVE  Goal
    <2>1. UNCHANGED <<disk, db>>
      BY <1>3, StartedFrame
    <2>2. CASE UNCHANGED <<live, session>>
      BY <1>0, <2>1, <2>2 DEF AgreedKey
    <2>3. ASSUME live[k] = "none", session[s].pc = "gone",
                 \A x \in Sessions \ {s} : session'[x] = session[x],
                 \A j \in Keys \ {k} : live'[j] = live[j]
          PROVE  Goal
      <3>1. AgreedKey(k)'
        BY <1>0, <2>1, <2>3 DEF AgreedKey
      <3>2. \A j \in Keys \ {k} : AgreedKey(j)'
        BY <1>0, <2>1, <2>3 DEF AgreedKey
      <3> QED
        BY <3>1, <3>2
    <2> QED
      BY <1>3, <2>2, <2>3, StartedFrame
  <1>4. ~Crash
    BY DEF Crash
  <1>5. CASE Spared
    BY <1>0, <1>5 DEF Spared, AgreedKey
  <1> QED
    BY <1>2, <1>3, <1>4, <1>5, Kinds

LEMMA BackedStep ==
  ASSUME "cleanup" \notin Workers, "hand" \notin Faults,
         TypeOK, Mapped, PartExclusive, Answered, Backed, [Next]_vars
  PROVE  Backed'
  <1> USE DEF disk, db, Backed, RowBacked
  <1>0. /\ file \in [Keys -> Generations] /\ row \in [Keys -> RowType]
        /\ \A s \in Sessions : session[s].pc \in {"setpath", "record"} => session[s].key \in Keys
    BY DEF TypeOK, WorldType, StoreType, Mapped, Active
  <1>1. ASSUME NEW s \in Sessions, Download(s) PROVE Backed'
    <2>1. PICK k \in Keys : k = session[s].key
      BY <1>1, DownloadFrame
    <2>2. /\ Active(s)
          /\ \A x \in Sessions \ {s} : session'[x] = session[x]
          /\ \A j \in Keys \ {k} : file'[j] = file[j] /\ row'[j] = row[j]
      BY <1>1, <2>1, DownloadFrame
    <2>3. \A x \in Sessions \ {s} : session[x].pc \in {"setpath", "record"} =>
            session[x].key \in Keys \ {k}
      BY <2>1, <2>2 DEF Mapped, OneTransfer, Active
    <2>4. /\ row'[k].gen # 0 => file'[k] # 0
          /\ session'[s].pc \in {"setpath", "record"} => file'[session'[s].key] # 0
      <3>1. ~Exit(s) => session'[s].key = k
        BY <1>1, <2>1, DownloadStays
      <3>2. CASE Rename(s)
        <4>1. file'[k] = session[s].gen /\ session[s].gen # 0 /\ ~Exit(s)
          BY <1>0, <2>1, <3>2 DEF Rename, Stage, PartExclusive, Answered, Exit
        <4> QED
          BY <3>1, <4>1
      <3>3. CASE SetFilePath(s)
        BY <2>1, <3>1, <3>3 DEF SetFilePath, Exit
      <3>4. CASE Record(s)
        <4>1. file'[k] # 0 /\ session'[s].pc \in {"remove", "exit"}
          BY <2>1, <3>4, DownloadFields DEF Record, Finish
        <4> QED
          BY <4>1
      <3>5. CASE Revalidate(s)
        <4>1. row'[k].gen = row[k].gen
          BY <1>0, <2>1, <3>5 DEF Revalidate, RowType
        <4>2. file' = file /\ session'[s].pc \in {"remove", "exit"}
          BY <3>5, DownloadFields DEF Revalidate
        <4> QED
          BY <4>1, <4>2
      <3> QED
        BY <1>1, <3>2, <3>3, <3>4, <3>5, DownloadFields
        DEF Download, OpenPart, FetchBody, NotModified, TransferFails, RemovePart, BodyEOF,
            StoreFails, Exit
    <2> QED
      BY <2>2, <2>3, <2>4
  <1>2. ASSUME NEW k \in Keys, NEW p \in Generations, NEW s \in Sessions, Started(k, p, s)
        PROVE  Backed'
    BY <1>2, StartedFrame
  <1>3. CASE Crash
    BY <1>3 DEF Crash, Restarted, Gone
  <1>4. ASSUME Spared, UNCHANGED file PROVE Backed'
    BY <1>0, <1>4 DEF Spared
  <1>5. ASSUME NEW c \in Clients, Request(c)
        PROVE  \/ \E k \in Keys, p \in Generations, s \in Sessions : Started(k, p, s)
               \/ Spared /\ UNCHANGED file
    BY <1>5, RequestSteps DEF Quiet
  <1>6. CASE Tick \/ (\E k \in Keys : Publish(k) \/ RemoveByHand(k)) \/ UNCHANGED vars
    <2>1. UNCHANGED file
      BY <1>6 DEF Tick, Publish, RemoveByHand, vars
    <2> QED
      BY <1>4, <1>6, <2>1, WorldSteps
  <1>7. ~Cleanup
    BY DEF Cleanup
  <1>8. CASE Refresh
    BY <1>2, <1>4, <1>8, RefreshSteps
  <1> QED
    BY <1>1, <1>2, <1>3, <1>4, <1>5, <1>6, <1>7, <1>8 DEF Next

-----------------------------------------------------------------------------
(* The theorems.                                                           *)

LEMMA InitInductive == Init => Inductive
  <1> SUFFICES ASSUME Init PROVE Inductive
    OBVIOUS
  <1>1. TypeOK
    BY InitType
  <1>2. Mapped
    BY DEF Init, Mapped, OneTransfer, Active, Gone, Idle
  <1>3. Answered /\ PartExclusive
    BY DEF Init, Answered, PartExclusive, Gone
  <1>4. Listed /\ Counted
    BY DEF Init, Listed, Counted, Counting, OnList, Asleep, Evicting
  <1>5. Promoted
    BY DEF Init, Promoted, Active, Gone, NoRow
  <1>6. Remembered /\ NeverOlder
    BY DEF Init, Remembered, NeverOlder, Idle, Resting
  <1>7. Agreed /\ Backed
    BY DEF Init, Agreed, Backed, RowBacked, NoRow, Gone
  <1> QED
    BY <1>1, <1>2, <1>3, <1>4, <1>5, <1>6, <1>7 DEF Inductive

LEMMA StepInductive == Inductive /\ [Next]_vars => Inductive'
  <1> SUFFICES ASSUME Inductive, [Next]_vars PROVE Inductive'
    OBVIOUS
  <1>1. TypeOK /\ Mapped /\ Answered /\ PartExclusive /\ Listed /\ Counted
    BY DEF Inductive
  <1>2. TypeOK' /\ Mapped' /\ Answered' /\ PartExclusive' /\ Listed' /\ Counted'
    BY <1>1, TypeStep, MappedStep, AnsweredStep, PartExclusiveStep, ListedStep, CountedStep
  <1>3. "lag" \notin Faults => Promoted' /\ Remembered' /\ NeverOlder'
    BY <1>1, PromotedStep, RememberedStep, NeverOlderStep DEF Inductive
  <1>4. Faults \cap {"crash", "record"} = {} => Agreed'
    BY <1>1, AgreedStep DEF Inductive
  <1>5. "cleanup" \notin Workers /\ "hand" \notin Faults => Backed'
    BY <1>1, BackedStep DEF Inductive
  <1> QED
    BY <1>2, <1>3, <1>4, <1>5 DEF Inductive

\* The invariant behind the rest: the map and the sessions agree, the files
\* belong to whom they should, and generations only go forward.
THEOREM InductiveInvariant == Spec => []Inductive
  BY InitInductive, StepInductive, PTL DEF Spec

\* The variables keep their types: no session without its key, no generation
\* that upstream does not have, no entry without its key and its size.
THEOREM TypeCorrect == Spec => []TypeOK
  BY InductiveInvariant, PTL DEF Inductive

\* Two sessions of one key are never at work at once: getOrStart shares the one
\* in the map, and download leaves the map only when it is done.
THEOREM TransfersShared == Spec => []OneTransfer
  BY InductiveInvariant, PTL DEF Inductive, Mapped

\* The .part file that a session writes and renames is its own.
THEOREM PartsExclusive == Spec => []PartExclusive
  BY InductiveInvariant, PTL DEF Inductive

\* Unless a backup lags behind, no response is older than what was complete when
\* its request began, whatever crashes, fails or is evicted.
THEOREM AnswersNeverOlder ==
  ASSUME "lag" \notin Faults
  PROVE  Spec => []NeverOlder
  <1>1. Inductive => NeverOlder
    BY DEF Inductive
  <1> QED
    BY <1>1, InductiveInvariant, PTL

\* Unless a backup lags behind, a 304 leads the readers to the generation that
\* was revalidated, or to a file that is gone.
THEOREM RevalidatedInPlace ==
  ASSUME "lag" \notin Faults
  PROVE  Spec => []CachedIsPrior
  <1>1. Inductive => CachedIsPrior
    <2> SUFFICES ASSUME Inductive, NEW s \in Sessions, session[s].pc = "revalidate"
                 PROVE  file[session[s].key] \in {0, session[s].prior}
      BY DEF CachedIsPrior
    <2>1. Promoted /\ Active(s) /\ session[s].key \in Keys
      BY DEF Inductive, Mapped, Active
    <2>2. session[s].prior = newest[session[s].key]
      BY <2>1 DEF Promoted
    <2> QED
      BY <2>1, <2>2 DEF Promoted
  <1> QED
    BY <1>1, InductiveInvariant, PTL

\* Without crashes and statements that fail to record a download, the row of an idle key describes the
\* file in its place, whatever cleanup and hands remove meanwhile.
THEOREM RowsDescribeFiles ==
  ASSUME Faults \cap {"crash", "record"} = {}
  PROVE  Spec => []RowDescribesFile
  <1>1. Inductive => RowDescribesFile
    BY DEF Inductive, Agreed, RowDescribesFile
  <1> QED
    BY <1>1, InductiveInvariant, PTL

\* Where nothing removes files, a row never stands without its file, not after a
\* crash or a failing statement either: Complete follows Rename.
THEOREM RowsBacked ==
  ASSUME "cleanup" \notin Workers, "hand" \notin Faults
  PROVE  Spec => []RowBacked
  <1>1. Inductive => RowBacked
    BY DEF Inductive, Backed
  <1> QED
    BY <1>1, InductiveInvariant, PTL

\* Every eviction has one of the two reasons at the moment it happens, although
\* the lists and the total it goes by are older, and sessions record rows anew
\* meanwhile.
THEOREM EvictionsJustified == Spec => EvictsForReason
  <1> DEFINE Justified ==
        \A k \in Keys : row[k].gen # 0 /\ row'[k].gen = 0 =>
          \/ /\ cleaner.pass = "inactive" /\ Tracked(k)
             /\ row[k].access < now - InactivityTTL \/ row[k].access # cleaner.at.access
          \/ cleaner.pass = "capacity" /\ (Cardinality(Stored) > MaxSize \/ cleaner.shrunk)
  <1>1. Inductive /\ [Next]_vars => [Justified]_vars
    <2> SUFFICES ASSUME Inductive, [Next]_vars, NEW k \in Keys, row[k].gen # 0, row'[k].gen = 0
                 PROVE  \/ /\ cleaner.pass = "inactive" /\ Tracked(k)
                           /\ \/ row[k].access < now - InactivityTTL
                              \/ row[k].access # cleaner.at.access
                        \/ /\ cleaner.pass = "capacity"
                           /\ Cardinality(Stored) > MaxSize \/ cleaner.shrunk
      OBVIOUS
    <2>0. TypeOK /\ Mapped /\ Answered /\ Listed /\ Counted /\ cleaner \in CleanerFields
      BY DEF Inductive, TypeOK, WorkerType
    <2>1. DeleteRow /\ k = cleaner.at.key
      BY <2>0, RowDeletedBy
    <2>2. cleaner.pc = "delete" /\ cleaner.at \in OnList
      BY <2>1 DEF DeleteRow, Clean, OnList, Evicting
    <2>3. CASE cleaner.pass = "inactive"
      <3>1. Tracked(k) /\ cleaner.at.access < now - InactivityTTL
        BY <2>0, <2>1, <2>2, <2>3 DEF Listed
      <3> QED
        BY <2>3, <3>1
    <2>4. CASE cleaner.pass = "capacity" /\ ~cleaner.shrunk
      <3>1. cleaner.total > MaxSize /\ cleaner.total <= Cardinality(Claimed)
        BY <2>0, <2>2, <2>4 DEF Counted, Counting, Evicting
      <3>2. \A e \in OnList : e \in Entries /\ e.size <= Size(e.key)
        BY <2>0, <2>4, OnListType DEF Counted, Counting
      <3>3. Cardinality(Claimed) \in Nat /\ Cardinality(Claimed) <= Cardinality(Stored)
        BY <2>0, <3>2, ClaimedStored
      <3>4. cleaner.total \in Int /\ Cardinality(Stored) \in Nat /\ MaxSize \in Nat
        BY <2>0, StoredFinite, CacheAssumption DEF CleanerFields
      <3> QED
        BY <2>4, <3>1, <3>3, <3>4
    <2>5. CASE cleaner.pass = "capacity" /\ cleaner.shrunk
      BY <2>5
    <2> QED
      BY <2>0, <2>3, <2>4, <2>5 DEF CleanerFields
  <1> QED
    BY <1>1, InductiveInvariant, PTL DEF Spec, EvictsForReason, Justified
=============================================================================
