--------------------------- MODULE SessionProofs ---------------------------
(***************************************************************************)
(* Machine-checked proofs about Session, for every set of clients, every   *)
(* object length and every way upstream may delimit its response.          *)
(***************************************************************************)
EXTENDS Session, FiniteSetTheorems, TLAPS

-----------------------------------------------------------------------------
(* Init.                                                                   *)

LEMMA InitType == Init => TypeOK
  <1> SUFFICES ASSUME Init PROVE TypeOK
    OBVIOUS
  <1>1. FlagType
    BY SessionAssumption DEF Init, FlagType
  <1>2. CountType
    <2>1. length = 0 \/ length \in Leftovers
      BY DEF Init
    <2>2. Leftovers \subseteq Nat
      BY SessionAssumption
    <2>3. /\ total = -1 /\ available = 0 /\ written = 0 /\ kept = 0 /\ readers = 0
          /\ idleTimer = 0 /\ lastTimer = 0 /\ callbacks = {}
      BY DEF Init
    <2>4. length \in Nat
      <3>1. CASE length \in Leftovers
        BY <2>2, <3>1
      <3>2. CASE length = 0
        BY <3>2
      <3> QED
        BY <2>1, <3>1, <3>2
    <2>5. Size \in Nat
      BY SessionAssumption
    <2> QED
      BY <2>3, <2>4, <2>5 DEF CountType
  <1>3. NameType
    BY DEF Init, NameType, Phases
  <1>4. RequestType
    BY SessionAssumption DEF Init, RequestType, Outcomes
  <1>5. PeerType
    BY DEF Init, PeerType
  <1>6. pc \in [Clients -> Places]
    BY DEF Init, Places, Attached
  <1> QED
    BY <1>1, <1>2, <1>3, <1>4, <1>5, <1>6 DEF TypeOK

(* Flags.                                                                  *)

LEMMA FlagFinish ==
  ASSUME NEW e \in BOOLEAN, FlagType, Finish(e), prior' = prior, inMap' = inMap, UNCHANGED disk
  PROVE  FlagType'
  BY DEF Finish, StopTimer, FlagType, disk

LEMMA FlagSilent ==
  ASSUME FlagType, Silent, prior' = prior, inMap' = inMap, recorded' \in BOOLEAN
  PROVE  FlagType'
  BY DEF Silent, FlagType, stream, lease

LEMMA FlagProceed == FlagType /\ Proceed => FlagType'
  <1> SUFFICES ASSUME FlagType, Proceed PROVE FlagType'
    OBVIOUS
  <1>0. recorded \in BOOLEAN /\ TRUE \in BOOLEAN /\ FALSE \in BOOLEAN
    BY DEF FlagType
  <1>1. CASE OpenPart
    <2>1. prior' = prior /\ inMap' = inMap
      BY <1>1 DEF OpenPart, Goto
    <2>2. \/ Silent /\ recorded' = recorded
          \/ Finish(TRUE) /\ UNCHANGED disk
      BY <1>1 DEF OpenPart
    <2> QED
      BY <1>0, <2>1, <2>2, FlagFinish, FlagSilent
  <1>2. CASE UseCached
    BY <1>2 DEF UseCached, FlagType, Goto, Silent, StopTimer, stream, lease, disk
  <1>3. CASE Revalidate
    <2>1. prior' = prior /\ inMap' = inMap
      BY <1>3 DEF Revalidate, Goto
    <2>2. (Silent \/ Finish(TRUE)) /\ UNCHANGED disk
      BY <1>3 DEF Revalidate
    <2> QED
      BY <1>0, <2>1, <2>2, FlagFinish, FlagSilent DEF disk
  <1>4. CASE Announce
    BY <1>4 DEF Announce, FlagType, Goto, Silent, StopTimer, stream, lease, disk
  <1>5. CASE Sync
    <2>1. prior' = prior /\ inMap' = inMap
      BY <1>5 DEF Sync, Goto
    <2>2. (Silent \/ Finish(TRUE)) /\ UNCHANGED disk
      BY <1>5 DEF Sync
    <2> QED
      BY <1>0, <2>1, <2>2, FlagFinish, FlagSilent DEF disk
  <1>6. CASE Rename
    <2>1. prior' = prior /\ inMap' = inMap
      BY <1>6 DEF Rename, Goto
    <2>2. \/ Silent /\ recorded' = FALSE
          \/ Finish(TRUE) /\ UNCHANGED disk
      BY <1>6 DEF Rename
    <2> QED
      BY <1>0, <2>1, <2>2, FlagFinish, FlagSilent
  <1>7. CASE SetFilePath
    BY <1>7 DEF SetFilePath, FlagType, Goto, Silent, StopTimer, stream, lease, disk
  <1>8. CASE Record
    <2>1. prior' = prior /\ inMap' = inMap
      BY <1>8 DEF Record, Goto
    <2>2. \/ Silent /\ recorded' = TRUE
          \/ Finish(TRUE) /\ UNCHANGED disk
      BY <1>8 DEF Record
    <2> QED
      BY <1>0, <2>1, <2>2, FlagFinish, FlagSilent
  <1>9. CASE FinishOK
    BY <1>0, <1>9, FlagFinish DEF FinishOK, Goto
  <1>10. CASE RemovePart
    BY <1>10 DEF RemovePart, Remove, FlagType, Goto, Silent, StopTimer, stream, lease, disk
  <1>11. CASE Exit
    BY <1>11 DEF Exit, FlagType, Goto, Silent, StopTimer, stream, lease, disk
  <1> QED
    BY <1>1, <1>2, <1>3, <1>4, <1>5, <1>6, <1>7, <1>8, <1>9, <1>10, <1>11 DEF Proceed

LEMMA FlagTransfer == FlagType /\ (Respond \/ Transmit \/ BodyCancelled) => FlagType'
  <1> SUFFICES ASSUME FlagType, Respond \/ Transmit \/ BodyCancelled PROVE FlagType'
    OBVIOUS
  <1> USE DEF FlagType, Goto, Silent, Finish, StopTimer, stream, lease, disk
  <1>1. CASE FetchFails
    BY <1>1 DEF FetchFails
  <1>2. CASE NotModified
    BY <1>2 DEF NotModified, Remove
  <1>3. ASSUME NEW f, FetchBody(f) PROVE FlagType'
    BY <1>3 DEF FetchBody
  <1>4. ASSUME NEW n, ReadBody(n) PROVE FlagType'
    <2>1. CASE Goto("body", "announce") /\ Silent /\ UNCHANGED recorded
      BY <2>1
    <2>2. CASE Goto("body", "remove") /\ Finish(TRUE) /\ UNCHANGED disk
      BY <2>2
    <2> QED
      BY <1>4, <2>1, <2>2 DEF ReadBody
  <1>5. CASE BodyEOF
    BY <1>5 DEF BodyEOF
  <1>6. CASE BodyFails
    BY <1>6 DEF BodyFails
  <1> QED
    BY <1>1, <1>2, <1>3, <1>4, <1>5, <1>6 DEF Respond, Transmit, BodyCancelled

LEMMA FlagHandle ==
  ASSUME NEW c \in Clients, FlagType, Handle(c) PROVE FlagType'
  <1> USE DEF FlagType, Step, Private, Return, StopTimer, stream, lease, disk, routine
  <1>1. CASE AddReader(c)
    BY <1>1 DEF AddReader
  <1>2. CASE AnswerBadGateway(c)
    BY <1>2 DEF AnswerBadGateway
  <1>3. CASE AnswerRangeError(c)
    BY <1>3 DEF AnswerRangeError
  <1>4. CASE AnswerHeaders(c)
    BY <1>4 DEF AnswerHeaders
  <1>5. CASE Open(c)
    BY <1>5 DEF Open
  <1>6. CASE OpenFails(c)
    BY <1>6 DEF OpenFails
  <1>7. CASE Wait(c)
    BY <1>7 DEF Wait
  <1>8. CASE Abort(c)
    BY <1>8 DEF Abort
  <1>9. CASE Drained(c)
    BY <1>9 DEF Drained
  <1>10. CASE RangeSent(c)
    BY <1>10 DEF RangeSent
  <1>11. CASE RemoveReader(c)
    BY <1>11 DEF RemoveReader
  <1> QED
    BY <1>1, <1>2, <1>3, <1>4, <1>5, <1>6, <1>7, <1>8, <1>9, <1>10, <1>11 DEF Handle

LEMMA FlagRest ==
  FlagType /\ (Runtime \/ Prefetch \/ \E c \in Clients : Join(c) \/ Serve(c) \/ Disconnect(c))
    => FlagType'
  <1> SUFFICES ASSUME FlagType,
        Runtime \/ Prefetch \/ \E c \in Clients : Join(c) \/ Serve(c) \/ Disconnect(c)
      PROVE FlagType'
    OBVIOUS
  <1> USE DEF FlagType, Private, StopTimer, stream, lease, disk, routine
  <1>1. CASE TimerFires
    BY <1>1 DEF TimerFires
  <1>2. ASSUME NEW t, IdleCallback(t) PROVE FlagType'
    BY <1>2 DEF IdleCallback
  <1>3. ASSUME NEW c, WakeAll(c) \/ Join(c) \/ Disconnect(c) PROVE FlagType'
    BY <1>3 DEF WakeAll, Join, Disconnect
  <1>4. ASSUME NEW c, Serve(c) PROVE FlagType'
    BY <1>4 DEF Serve, OpenRefused, Copy, Spin, CopyFails, Return, vars
  <1>5. CASE PrefetchJoins
    BY <1>5 DEF PrefetchJoins
  <1>6. CASE KeepAlive
    BY <1>6 DEF KeepAlive
  <1> QED
    BY <1>1, <1>2, <1>3, <1>4, <1>5, <1>6 DEF Runtime, Prefetch

(* Counts.                                                                 *)

LEMMA CountFinish ==
  ASSUME NEW e, CountType, Finish(e), UNCHANGED disk PROVE CountType'
  BY DEF Finish, StopTimer, CountType, disk

LEMMA CountSilent ==
  ASSUME CountType, Silent, written' \in 0..Size, length' \in Nat, kept' \in Nat
  PROVE  CountType'
  BY DEF Silent, CountType, stream, lease

LEMMA CountProceed == CountType /\ Proceed => CountType'
  <1> SUFFICES ASSUME CountType, Proceed PROVE CountType'
    OBVIOUS
  <1> USE SessionAssumption DEF CountType
  <1>1. CASE OpenPart
    <2>1. \/ Silent /\ written' = written /\ length' \in {0, length} /\ kept' = kept
          \/ UNCHANGED disk /\ \E e \in BOOLEAN : Finish(e)
      BY <1>1 DEF OpenPart, disk
    <2> QED
      BY <2>1, CountFinish, CountSilent
  <1>2. CASE UseCached
    <2>0. KeptLengths \subseteq Nat
      BY SessionAssumption
    <2>1. (kept' = 0 \/ kept' \in KeptLengths) /\ total' = Size /\ available' = Size
      BY <1>2 DEF UseCached
    <2>2. UNCHANGED <<written, length, readers, idleTimer, lastTimer, callbacks>>
      BY <1>2 DEF UseCached, lease
    <2>3. kept' \in Nat
      <3>1. CASE kept' \in KeptLengths
        BY <2>0, <3>1
      <3>2. CASE kept' = 0
        BY <3>2
      <3> QED
        BY <2>1, <3>1, <3>2
    <2> QED
      BY <2>1, <2>2, <2>3
  <1>3. CASE Revalidate
    <2>1. \/ Silent /\ written' = written /\ length' \in {0, length} /\ kept' = kept
          \/ UNCHANGED disk /\ \E e \in BOOLEAN : Finish(e)
      BY <1>3 DEF Revalidate, disk
    <2> QED
      BY <2>1, CountFinish, CountSilent
  <1>4. CASE Announce
    BY <1>4 DEF Announce, Silent, Finish, StopTimer, stream, lease, disk
  <1>5. CASE Sync
    <2>1. \/ Silent /\ written' = written /\ length' \in {0, length} /\ kept' = kept
          \/ UNCHANGED disk /\ \E e \in BOOLEAN : Finish(e)
      BY <1>5 DEF Sync, disk
    <2> QED
      BY <2>1, CountFinish, CountSilent
  <1>6. CASE Rename
    <2>1. \/ Silent /\ written' = written /\ length' \in {0, length} /\ kept' = kept
          \/ UNCHANGED disk /\ \E e \in BOOLEAN : Finish(e)
      BY <1>6 DEF Rename, disk
    <2> QED
      BY <2>1, CountFinish, CountSilent
  <1>7. CASE SetFilePath
    BY <1>7 DEF SetFilePath, Silent, Finish, StopTimer, stream, lease, disk
  <1>8. CASE Record
    <2>1. \/ Silent /\ written' = written /\ length' \in {0, length} /\ kept' = kept
          \/ UNCHANGED disk /\ \E e \in BOOLEAN : Finish(e)
      BY <1>8 DEF Record, disk
    <2> QED
      BY <2>1, CountFinish, CountSilent
  <1>9. CASE FinishOK
    BY <1>9 DEF FinishOK, Silent, Finish, StopTimer, stream, lease, disk
  <1>10. CASE RemovePart
    BY <1>10 DEF RemovePart, Remove, Silent, stream, lease
  <1>11. CASE Exit
    BY <1>11 DEF Exit, Silent, Finish, StopTimer, stream, lease, disk
  <1> QED
    BY <1>1, <1>2, <1>3, <1>4, <1>5, <1>6, <1>7, <1>8, <1>9, <1>10, <1>11 DEF Proceed

LEMMA CountTransfer == CountType /\ (Respond \/ Transmit \/ BodyCancelled) => CountType'
  <1> SUFFICES ASSUME CountType, Respond \/ Transmit \/ BodyCancelled PROVE CountType'
    OBVIOUS
  <1> USE SessionAssumption DEF CountType, Goto, Silent, Finish, StopTimer, stream, lease, disk
  <1>1. CASE FetchFails
    BY <1>1 DEF FetchFails
  <1>2. CASE NotModified
    BY <1>2 DEF NotModified, Remove
  <1>3. ASSUME NEW f, FetchBody(f) PROVE CountType'
    BY <1>3 DEF FetchBody
  <1>4. ASSUME NEW n \in 1..(Size - written), ReadBody(n) PROVE CountType'
    <2>1. CASE Finish(TRUE) /\ UNCHANGED disk
      BY <2>1, CountFinish
    <2>2. CASE Silent /\ written' = written + n /\ UNCHANGED kept
               /\ length' = IF length > written' THEN length ELSE written'
      <3>1. written' \in 0..Size /\ length' \in Nat /\ kept' \in Nat
        BY <2>2
      <3> QED
        BY <2>2, <3>1, CountSilent
    <2> QED
      BY <1>4, <2>1, <2>2 DEF ReadBody
  <1>5. CASE BodyEOF
    BY <1>5 DEF BodyEOF
  <1>6. CASE BodyFails
    BY <1>6 DEF BodyFails
  <1> QED
    BY <1>1, <1>2, <1>3, <1>4, <1>5, <1>6 DEF Respond, Transmit, BodyCancelled

LEMMA CountHandle ==
  ASSUME NEW c \in Clients, CountType, Handle(c) PROVE CountType'
  <1> USE DEF CountType, Step, Private, Return, StopTimer, stream, lease, disk, routine
  <1>1. CASE AddReader(c)
    BY <1>1 DEF AddReader
  <1>2. CASE AnswerBadGateway(c)
    BY <1>2 DEF AnswerBadGateway
  <1>3. CASE AnswerRangeError(c)
    BY <1>3 DEF AnswerRangeError
  <1>4. CASE AnswerHeaders(c)
    BY <1>4 DEF AnswerHeaders
  <1>5. CASE Open(c)
    BY <1>5 DEF Open
  <1>6. CASE OpenFails(c)
    BY <1>6 DEF OpenFails
  <1>7. CASE Wait(c)
    BY <1>7 DEF Wait
  <1>8. CASE Abort(c)
    BY <1>8 DEF Abort
  <1>9. CASE Drained(c)
    BY <1>9 DEF Drained
  <1>10. CASE RangeSent(c)
    BY <1>10 DEF RangeSent
  <1>11. CASE RemoveReader(c)
    BY <1>11 DEF RemoveReader
  <1> QED
    BY <1>1, <1>2, <1>3, <1>4, <1>5, <1>6, <1>7, <1>8, <1>9, <1>10, <1>11 DEF Handle

LEMMA CountRest ==
  CountType /\ (Runtime \/ Prefetch \/ \E c \in Clients : Join(c) \/ Serve(c) \/ Disconnect(c))
    => CountType'
  <1> SUFFICES ASSUME CountType,
        Runtime \/ Prefetch \/ \E c \in Clients : Join(c) \/ Serve(c) \/ Disconnect(c)
      PROVE CountType'
    OBVIOUS
  <1> USE DEF CountType, Private, StopTimer, stream, lease, disk, routine
  <1>1. CASE TimerFires
    BY <1>1 DEF TimerFires
  <1>2. ASSUME NEW t, IdleCallback(t) PROVE CountType'
    BY <1>2 DEF IdleCallback
  <1>3. ASSUME NEW c, WakeAll(c) \/ Join(c) \/ Disconnect(c) \/ Serve(c) PROVE CountType'
    BY <1>3 DEF WakeAll, Join, Disconnect, Serve, OpenRefused, Copy, Spin, CopyFails, Return, vars
  <1>4. CASE PrefetchJoins
    BY <1>4 DEF PrefetchJoins
  <1>5. CASE KeepAlive
    BY <1>5 DEF KeepAlive
  <1> QED
    BY <1>1, <1>2, <1>3, <1>4, <1>5 DEF Runtime, Prefetch

(* Names.                                                                  *)

LEMMA NameDownload == NameType /\ Download => NameType'
  <1> SUFFICES ASSUME NameType, Download PROVE NameType'
    OBVIOUS
  <1> USE DEF NameType, Goto, Silent, Remove, Finish, stream, disk, Phases
  <1>1. CASE Proceed
    BY <1>1 DEF Proceed, OpenPart, UseCached, Revalidate, Announce, Sync, Rename, SetFilePath, Record, FinishOK, RemovePart, Exit
  <1>2. CASE Respond
    BY <1>2, SessionAssumption DEF Respond, FetchFails, NotModified, FetchBody, ReadBody, BodyEOF, BodyFails, BodyCancelled
  <1>3. CASE Transmit \/ BodyCancelled
    BY <1>3 DEF Transmit, FetchFails, NotModified, FetchBody, ReadBody, BodyEOF, BodyFails, BodyCancelled
  <1> QED
    BY <1>1, <1>2, <1>3 DEF Download

LEMMA NameOthers == NameType /\ (Runtime \/ Prefetch \/ Requests) => NameType'
  <1> SUFFICES ASSUME NameType, Runtime \/ Prefetch \/ Requests PROVE NameType'
    OBVIOUS
  <1> USE DEF NameType, Private, stream, disk, routine
  <1>1. CASE Runtime
    BY <1>1 DEF Runtime, TimerFires, IdleCallback, WakeAll
  <1>2. CASE Prefetch
    BY <1>2 DEF Prefetch, PrefetchJoins, KeepAlive
  <1>3. CASE Requests
    BY <1>3 DEF Requests, Join, Serve, OpenRefused, Copy, Spin, CopyFails, vars, Disconnect, Handle, Return, AddReader, AnswerBadGateway, AnswerRangeError, AnswerHeaders, Open, OpenFails, Wait, Abort, Drained, RangeSent, RemoveReader
  <1> QED
    BY <1>1, <1>2, <1>3

(* The requests.                                                           *)

LEMMA RequestDownload == RequestType /\ PeerType /\ Download => RequestType' /\ PeerType'
  <1> SUFFICES ASSUME RequestType, PeerType, Download PROVE RequestType' /\ PeerType'
    OBVIOUS
  <1>1. UNCHANGED request
    BY DEF Download, Proceed, Respond, Transmit, OpenPart, UseCached, Revalidate, Announce, Sync, Rename, SetFilePath, Record, FinishOK, RemovePart, Exit, FetchFails, NotModified, FetchBody, ReadBody, BodyEOF, BodyFails, BodyCancelled, Silent, Finish
  <1> QED
    BY <1>1 DEF request, RequestType, PeerType

\* The clamp of parseRange: no range ends after the object.
LEMMA RangeEndType ==
  ASSUME NEW h \in RangeHeader, NEW tot \in -1..Size, Satisfiable(h, tot)
  PROVE  RangeEnd(h, tot) \in -1..(Size - 1)
  <1>1. Size \in Nat
    BY SessionAssumption
  <1>2. h.to \in Nat \cup {-1} /\ h.from \in Nat
    BY DEF RangeHeader
  <1>3. CASE ~h.ranged
    <2>1. RangeEnd(h, tot) = -1
      BY <1>3 DEF RangeEnd
    <2> HIDE DEF RangeEnd
    <2> QED
      BY <1>1, <2>1
  <1>4. CASE h.ranged
    <2>1. tot >= 0 /\ h.from < tot /\ (h.to = -1 \/ h.from <= h.to)
      BY <1>4 DEF Satisfiable
    <2>2. RangeEnd(h, tot) = IF h.to = -1 \/ h.to >= tot THEN tot - 1 ELSE h.to
      BY <1>4 DEF RangeEnd
    <2>3. CASE h.to = -1 \/ h.to >= tot
      BY <1>1, <1>2, <2>1, <2>2, <2>3
    <2>4. CASE h.to # -1 /\ h.to < tot
      BY <1>1, <1>2, <2>1, <2>2, <2>4
    <2> QED
      BY <1>2, <2>3, <2>4
  <1> QED
    BY <1>3, <1>4

LEMMA RequestHandle ==
  ASSUME NEW c \in Clients, RequestType, CountType, NameType, Handle(c)
  PROVE  RequestType'
  <1> USE DEF RequestType, Step, Private, Return, request, Outcomes
  <1>1. CASE AddReader(c)
    BY <1>1 DEF AddReader
  <1>2. CASE AnswerBadGateway(c)
    BY <1>2 DEF AnswerBadGateway
  <1>3. CASE AnswerRangeError(c)
    BY <1>3 DEF AnswerRangeError
  <1>4. CASE AnswerHeaders(c)
    <2>1. hdr[c] \in RangeHeader
      BY SessionAssumption
    <2>2. RangeStart(hdr[c]) \in Nat
      BY <2>1 DEF RangeStart, RangeHeader
    <2>3. RangeEnd(hdr[c], total) \in -1..(Size - 1)
      BY <1>4, <2>1, RangeEndType DEF AnswerHeaders, CountType
    <2>4. offset' \in [Clients -> Nat]
      BY <1>4, <2>2 DEF AnswerHeaders
    <2>5. stop' \in [Clients -> -1..(Size - 1)]
      BY <1>4, <2>3 DEF AnswerHeaders
    <2>6. seen' \in [Clients -> -1..Size]
      BY <1>4 DEF AnswerHeaders, CountType
    <2>7. path' \in [Clients -> {"none", "part", "final"}]
      BY <1>4 DEF AnswerHeaders, NameType
    <2> QED
      BY <1>4, <2>4, <2>5, <2>6, <2>7 DEF AnswerHeaders
  <1>5. CASE Open(c)
    <2>1. Found(path[c]) \subseteq {"prior", "own", "other"}
      BY DEF Found, NameType
    <2> QED
      BY <1>5, <2>1 DEF Open
  <1>6. CASE OpenFails(c)
    BY <1>6 DEF OpenFails
  <1>7. CASE Wait(c)
    BY <1>7 DEF Wait
  <1>8. CASE Abort(c)
    BY <1>8 DEF Abort
  <1>9. CASE Drained(c)
    BY <1>9 DEF Drained
  <1>10. CASE RangeSent(c)
    BY <1>10 DEF RangeSent
  <1>11. CASE RemoveReader(c)
    BY <1>11 DEF RemoveReader
  <1> QED
    BY <1>1, <1>2, <1>3, <1>4, <1>5, <1>6, <1>7, <1>8, <1>9, <1>10, <1>11 DEF Handle

\* What Copy sends goes no further than the frontier, the range and the file.
LEMMA LimitType ==
  ASSUME NEW c \in Clients, RequestType, CountType
  PROVE  /\ Limit(c) \in 0..available
         /\ stop[c] >= 0 => Limit(c) <= stop[c] + 1
         /\ Readable(c) \subseteq Nat
  BY SessionAssumption DEF Limit, Readable, RequestType, CountType

LEMMA CopyType ==
  ASSUME NEW c \in Clients, pc \in [Clients -> Places], RequestType, CountType, Copy(c)
  PROVE  \E to \in Nat :
           /\ offset' = [offset EXCEPT ![c] = to]
           /\ to = offset[c] \/ to \in (offset[c] + 1)..Limit(c) \/ to = Limit(c)
           /\ pc'[c] = "spinning" => to = offset[c] \/ to < Limit(c)
  <1>1. PICK n \in Readable(c) :
          /\ offset' = [offset EXCEPT ![c] =
               IF n >= Limit(c) THEN Limit(c) ELSE IF n > @ THEN n ELSE @]
          /\ pc' = [pc EXCEPT ![c] = IF n >= Limit(c) THEN "streaming" ELSE "spinning"]
    BY DEF Copy
  <1>2. n \in Nat /\ Limit(c) \in Nat /\ offset[c] \in Nat
    BY <1>1, LimitType, SessionAssumption DEF RequestType, CountType
  <1>3. CASE n >= Limit(c)
    BY <1>1, <1>2, <1>3 DEF RequestType
  <1>4. CASE ~(n >= Limit(c)) /\ n > offset[c]
    <2>1. offset' = [offset EXCEPT ![c] = n]
      BY <1>1, <1>4 DEF RequestType
    <2>2. n \in (offset[c] + 1)..Limit(c) /\ n < Limit(c)
      BY <1>2, <1>4
    <2> QED
      BY <1>2, <2>1, <2>2
  <1>5. CASE ~(n >= Limit(c)) /\ ~(n > offset[c])
    BY <1>1, <1>2, <1>5 DEF RequestType
  <1> QED
    BY <1>3, <1>4, <1>5

LEMMA PeerHandle ==
  ASSUME NEW c \in Clients, PeerType, Handle(c) PROVE PeerType'
  BY DEF PeerType, Handle, Return, request, AddReader, AnswerBadGateway, AnswerRangeError, AnswerHeaders, Open, OpenFails, Wait, Abort, Drained, RangeSent, RemoveReader

LEMMA RequestRest ==
  /\ pc \in [Clients -> Places] /\ RequestType /\ CountType
  /\ Runtime \/ Prefetch \/ \E c \in Clients : Join(c) \/ Serve(c) \/ Disconnect(c)
  => RequestType'
  <1> SUFFICES ASSUME pc \in [Clients -> Places], RequestType, CountType,
        Runtime \/ Prefetch \/ \E c \in Clients : Join(c) \/ Serve(c) \/ Disconnect(c)
      PROVE RequestType'
    OBVIOUS
  <1> USE DEF RequestType, request
  <1>1. CASE Runtime
    BY <1>1 DEF Runtime, TimerFires, IdleCallback, WakeAll
  <1>2. CASE Prefetch
    BY <1>2 DEF Prefetch, PrefetchJoins, KeepAlive
  <1>3. ASSUME NEW c \in Clients, Join(c) \/ Disconnect(c) PROVE RequestType'
    BY <1>3 DEF Join, Disconnect
  <1>4. ASSUME NEW c \in Clients, Serve(c) PROVE RequestType'
    <2>1. CASE Copy(c)
      <3>1. UNCHANGED <<hdr, stop, seen, path, opened, outcome>>
        BY <2>1 DEF Copy
      <3>2. offset' \in [Clients -> Nat]
        BY <2>1, CopyType
      <3> QED
        BY <3>1, <3>2
    <2>2. CASE OpenRefused(c) \/ Spin(c) \/ CopyFails(c)
      BY <2>2 DEF OpenRefused, Spin, CopyFails, Return, Outcomes, vars
    <2> QED
      BY <1>4, <2>1, <2>2 DEF Serve
  <1> QED
    BY <1>1, <1>2, <1>3, <1>4

LEMMA PeerRest ==
  PeerType /\ (Runtime \/ Prefetch \/ \E c \in Clients : Join(c) \/ Serve(c) \/ Disconnect(c))
    => PeerType'
  BY DEF PeerType, request, Runtime, TimerFires, IdleCallback, WakeAll, Prefetch,
         PrefetchJoins, KeepAlive, Join, Serve, OpenRefused, Copy, Spin, CopyFails, Return,
         Disconnect, vars

(* The program counters.                                                   *)

LEMMA PlaceDownload == pc \in [Clients -> Places] /\ Download => pc' \in [Clients -> Places]
  BY DEF Places, Attached, Awake, Download, Proceed, Respond, Transmit, OpenPart, UseCached, Revalidate, Announce, Sync, Rename, SetFilePath, Record, FinishOK, RemovePart, Exit,
         FetchFails, NotModified, FetchBody, ReadBody, BodyEOF, BodyFails, BodyCancelled, Silent, Finish

LEMMA PlaceOthers ==
  pc \in [Clients -> Places] /\ (Runtime \/ Prefetch \/ Requests) => pc' \in [Clients -> Places]
  <1> SUFFICES ASSUME pc \in [Clients -> Places], Runtime \/ Prefetch \/ Requests
               PROVE  pc' \in [Clients -> Places]
    OBVIOUS
  <1> USE DEF Places, Attached, Awake
  <1>1. CASE Runtime
    BY <1>1 DEF Runtime, TimerFires, IdleCallback, WakeAll
  <1>2. CASE Prefetch
    BY <1>2 DEF Prefetch, PrefetchJoins, KeepAlive
  <1>3. CASE Requests
    <2>1. PICK c \in Clients : Join(c) \/ Handle(c) \/ Serve(c) \/ Disconnect(c)
      BY <1>3 DEF Requests
    <2>2. CASE Handle(c)
      <3>1. \E to \in Places : pc' = [pc EXCEPT ![c] = to]
        BY <2>2 DEF Handle, Return, Step, AddReader, AnswerBadGateway, AnswerRangeError, AnswerHeaders, Open,
                    OpenFails, Wait, Abort, Drained, RangeSent, RemoveReader
      <3> QED
        BY <3>1
    <2>3. CASE Join(c) \/ Serve(c) \/ Disconnect(c)
      BY <2>3 DEF Join, Serve, OpenRefused, Copy, Spin, CopyFails, Return, Disconnect, Step, vars
    <2> QED
      BY <2>1, <2>2, <2>3
  <1> QED
    BY <1>1, <1>2, <1>3

(* Together.                                                               *)

LEMMA StepType == TypeOK /\ [Next]_vars => TypeOK'
  <1> SUFFICES ASSUME TypeOK, [Next]_vars PROVE TypeOK'
    OBVIOUS
  <1> USE DEF TypeOK
  <1>1. CASE Download
    BY <1>1, FlagProceed, FlagTransfer, CountProceed, CountTransfer, NameDownload,
       RequestDownload, PlaceDownload DEF Download
  <1>2. CASE Runtime \/ Prefetch
    BY <1>2, FlagRest, CountRest, NameOthers, RequestRest, PeerRest, PlaceOthers
  <1>3. CASE Requests
    BY <1>3, FlagRest, FlagHandle, CountRest, CountHandle, NameOthers, RequestRest,
       RequestHandle, PeerRest, PeerHandle, PlaceOthers DEF Requests
  <1>4. CASE UNCHANGED vars
    BY <1>4 DEF vars, stream, lease, disk, routine, request, FlagType, CountType,
                NameType, RequestType, PeerType
  <1> QED
    BY <1>1, <1>2, <1>3, <1>4 DEF Next, Finished

\* Every variable keeps its type; in particular the range that parseRange
\* computes never ends after the object.
THEOREM TypeCorrect == Spec => []TypeOK
  <1>1. Init => TypeOK
    BY InitType
  <1>2. TypeOK /\ [Next]_vars => TypeOK'
    BY StepType
  <1> QED
    BY <1>1, <1>2, PTL DEF Spec
-----------------------------------------------------------------------------
(* The download.                                                           *)

\* Timers, workers and handlers neither publish nor store anything.
LEMMA Elsewhere ==
  ASSUME Runtime \/ Prefetch \/ Requests
  PROVE  UNCHANGED <<stream, disk, routine>>
  <1>1. CASE Runtime
    BY <1>1 DEF Runtime, TimerFires, IdleCallback, WakeAll, Private
  <1>2. CASE Prefetch
    BY <1>2 DEF Prefetch, PrefetchJoins, KeepAlive
  <1>3. CASE Requests
    BY <1>3 DEF Requests, Join, Serve, OpenRefused, Copy, Spin, CopyFails, vars, Disconnect, Handle, Return, Private, AddReader,
         AnswerBadGateway, AnswerRangeError, AnswerHeaders, Open, OpenFails, Wait,
         Abort, Drained, RangeSent, RemoveReader
  <1> QED
    BY <1>1, <1>2, <1>3

LEMMA SettledStays ==
  ASSUME Settled, UNCHANGED <<stream, disk, routine>> PROVE Settled'
  BY DEF Settled, stream, disk, routine

LEMMA SettledStep == FlagType /\ Settled /\ [Next]_vars => Settled'
  <1> SUFFICES ASSUME FlagType, Settled, [Next]_vars PROVE Settled'
    OBVIOUS
  <1> USE DEF Settled, Goto, Silent, Remove, Finish, stream, disk, routine
  <1>1. CASE Proceed
    <2>1. CASE OpenPart
      BY <2>1 DEF OpenPart
    <2>2. CASE UseCached
      BY <2>2 DEF UseCached
    <2>3. CASE Revalidate
      BY <2>3 DEF Revalidate
    <2>4. CASE Announce
      BY <2>4 DEF Announce
    <2>5. CASE Sync
      BY <2>5 DEF Sync
    <2>6. CASE Rename
      BY <2>6 DEF Rename
    <2>7. CASE SetFilePath
      BY <2>7 DEF SetFilePath
    <2>8. CASE Record
      BY <2>8 DEF Record
    <2>9. CASE FinishOK
      BY <2>9 DEF FinishOK
    <2>10. CASE RemovePart
      BY <2>10 DEF RemovePart
    <2>11. CASE Exit
      BY <2>11 DEF Exit
    <2> QED
      BY <1>1, <2>1, <2>2, <2>3, <2>4, <2>5, <2>6, <2>7, <2>8, <2>9, <2>10, <2>11 DEF Proceed
  <1>2. CASE FetchFails
    BY <1>2 DEF FetchFails
  <1>3. CASE NotModified
    BY <1>3 DEF NotModified
  <1>4. ASSUME NEW f \in Framings, FetchBody(f) PROVE Settled'
    BY <1>4, SessionAssumption DEF FetchBody, AllFramings
  <1>5. ASSUME NEW n, ReadBody(n) PROVE Settled'
    BY <1>5 DEF ReadBody
  <1>6. CASE BodyEOF
    BY <1>6 DEF BodyEOF
  <1>7. CASE BodyFails
    BY <1>7 DEF BodyFails
  <1>8. CASE Runtime \/ Prefetch \/ Requests
    BY <1>8, Elsewhere, SettledStays
  <1>9. CASE UNCHANGED vars
    BY <1>9, SettledStays DEF vars
  <1> QED
    BY <1>1, <1>2, <1>3, <1>4, <1>5, <1>6, <1>7, <1>8, <1>9
    DEF Next, Download, Respond, Transmit, BodyCancelled, Finished

LEMMA StoredStays ==
  ASSUME Stored, UNCHANGED <<stream, disk, routine>> PROVE Stored'
  BY DEF Stored, Unfounded, stream, disk, routine

LEMMA StoredStep == FlagType /\ Stored /\ [Next]_vars => Stored'
  <1> SUFFICES ASSUME FlagType, Stored, [Next]_vars PROVE Stored'
    OBVIOUS
  <1> USE DEF Unfounded, Stored, Goto, Silent, Remove, Finish, stream, disk, routine
  <1>1. CASE Proceed
    <2>1. CASE OpenPart
      BY <2>1 DEF OpenPart
    <2>2. CASE UseCached
      BY <2>2 DEF UseCached
    <2>3. CASE Revalidate
      BY <2>3 DEF Revalidate
    <2>4. CASE Announce
      BY <2>4 DEF Announce
    <2>5. CASE Sync
      BY <2>5 DEF Sync
    <2>6. CASE Rename
      BY <2>6 DEF Rename
    <2>7. CASE SetFilePath
      BY <2>7 DEF SetFilePath
    <2>8. CASE Record
      <3>1. CASE Goto("record", "finish") /\ recorded' /\ UNCHANGED final
        BY <3>1
      <3>2. CASE Goto("record", "exit") /\ UNCHANGED disk
        BY <3>2
      <3> QED
        BY <2>8, <3>1, <3>2 DEF Record
    <2>9. CASE FinishOK
      BY <2>9 DEF FinishOK
    <2>10. CASE RemovePart
      BY <2>10 DEF RemovePart
    <2>11. CASE Exit
      BY <2>11 DEF Exit
    <2> QED
      BY <1>1, <2>1, <2>2, <2>3, <2>4, <2>5, <2>6, <2>7, <2>8, <2>9, <2>10, <2>11 DEF Proceed
  <1>2. CASE FetchFails
    BY <1>2 DEF FetchFails
  <1>3. CASE NotModified
    BY <1>3 DEF NotModified
  <1>4. ASSUME NEW f, FetchBody(f) PROVE Stored'
    BY <1>4 DEF FetchBody
  <1>5. ASSUME NEW n, ReadBody(n) PROVE Stored'
    BY <1>5 DEF ReadBody
  <1>6. CASE BodyEOF
    BY <1>6 DEF BodyEOF
  <1>7. CASE BodyFails
    BY <1>7 DEF BodyFails
  <1>8. CASE Runtime \/ Prefetch \/ Requests
    BY <1>8, Elsewhere, StoredStays
  <1>9. CASE UNCHANGED vars
    BY <1>9, StoredStays DEF vars
  <1> QED
    BY <1>1, <1>2, <1>3, <1>4, <1>5, <1>6, <1>7, <1>8, <1>9
    DEF Next, Download, Respond, Transmit, BodyCancelled, Finished

LEMMA FrontierStays ==
  ASSUME Frontier, UNCHANGED <<stream, disk, routine>> PROVE Frontier'
  BY DEF Frontier, stream, disk, routine

LEMMA FrontierStep == CountType /\ Frontier /\ [Next]_vars => Frontier'
  <1> SUFFICES ASSUME CountType, Frontier, [Next]_vars PROVE Frontier'
    OBVIOUS
  <1> USE DEF Frontier, Goto, Silent, Remove, Finish, stream, disk, routine
  <1>1. CASE Proceed
    <2>1. CASE OpenPart
      BY <2>1 DEF OpenPart
    <2>2. CASE UseCached
      BY <2>2 DEF UseCached
    <2>3. CASE Revalidate
      BY <2>3 DEF Revalidate
    <2>4. CASE Announce
      BY <2>4 DEF Announce
    <2>5. CASE Sync
      BY <2>5 DEF Sync
    <2>6. CASE Rename
      BY <2>6 DEF Rename
    <2>7. CASE SetFilePath
      BY <2>7 DEF SetFilePath
    <2>8. CASE Record
      BY <2>8 DEF Record
    <2>9. CASE FinishOK
      BY <2>9 DEF FinishOK
    <2>10. CASE RemovePart
      BY <2>10 DEF RemovePart
    <2>11. CASE Exit
      BY <2>11 DEF Exit
    <2> QED
      BY <1>1, <2>1, <2>2, <2>3, <2>4, <2>5, <2>6, <2>7, <2>8, <2>9, <2>10, <2>11 DEF Proceed
  <1>2. CASE FetchFails
    BY <1>2 DEF FetchFails
  <1>3. CASE NotModified
    BY <1>3 DEF NotModified
  <1>4. ASSUME NEW f, FetchBody(f) PROVE Frontier'
    <2>1. dl = "fetch" /\ dl' = "body" /\ UNCHANGED <<available, filePath, written>>
      BY <1>4 DEF FetchBody
    <2> QED
      BY <2>1
  <1>5. ASSUME NEW n \in 1..(Size - written), ReadBody(n) PROVE Frontier'
    BY <1>5 DEF ReadBody, CountType
  <1>6. CASE BodyEOF
    BY <1>6 DEF BodyEOF
  <1>7. CASE BodyFails
    BY <1>7 DEF BodyFails
  <1>8. CASE Runtime \/ Prefetch \/ Requests
    BY <1>8, Elsewhere, FrontierStays
  <1>9. CASE UNCHANGED vars
    BY <1>9, FrontierStays DEF vars
  <1> QED
    BY <1>1, <1>2, <1>3, <1>4, <1>5, <1>6, <1>7, <1>8, <1>9
    DEF Next, Download, Respond, Transmit, BodyCancelled, Finished

LEMMA SuccessIsDurableStays ==
  ASSUME SuccessIsDurable, UNCHANGED <<stream, disk, routine>> PROVE SuccessIsDurable'
  BY DEF SuccessIsDurable, Unfounded, stream, disk, routine

LEMMA SuccessIsDurableStep == FlagType /\ Settled /\ Stored /\ SuccessIsDurable /\ [Next]_vars => SuccessIsDurable'
  <1> SUFFICES ASSUME FlagType, Settled, Stored, SuccessIsDurable, [Next]_vars PROVE SuccessIsDurable'
    OBVIOUS
  <1> USE DEF Unfounded, SuccessIsDurable, Settled, Stored, Goto, Silent, Remove, Finish, stream, disk, routine
  <1>1. CASE Proceed
    <2>1. CASE OpenPart
      BY <2>1 DEF OpenPart
    <2>2. CASE UseCached
      BY <2>2 DEF UseCached
    <2>3. CASE Revalidate
      BY <2>3 DEF Revalidate
    <2>4. CASE Announce
      BY <2>4 DEF Announce
    <2>5. CASE Sync
      BY <2>5 DEF Sync
    <2>6. CASE Rename
      BY <2>6 DEF Rename
    <2>7. CASE SetFilePath
      BY <2>7 DEF SetFilePath
    <2>8. CASE Record
      BY <2>8 DEF Record
    <2>9. CASE FinishOK
      BY <2>9 DEF FinishOK
    <2>10. CASE RemovePart
      BY <2>10 DEF RemovePart
    <2>11. CASE Exit
      BY <2>11 DEF Exit
    <2> QED
      BY <1>1, <2>1, <2>2, <2>3, <2>4, <2>5, <2>6, <2>7, <2>8, <2>9, <2>10, <2>11 DEF Proceed
  <1>2. CASE FetchFails
    BY <1>2 DEF FetchFails
  <1>3. CASE NotModified
    BY <1>3 DEF NotModified
  <1>4. ASSUME NEW f, FetchBody(f) PROVE SuccessIsDurable'
    BY <1>4 DEF FetchBody
  <1>5. ASSUME NEW n, ReadBody(n) PROVE SuccessIsDurable'
    BY <1>5 DEF ReadBody
  <1>6. CASE BodyEOF
    BY <1>6 DEF BodyEOF
  <1>7. CASE BodyFails
    BY <1>7 DEF BodyFails
  <1>8. CASE Runtime \/ Prefetch \/ Requests
    BY <1>8, Elsewhere, SuccessIsDurableStays
  <1>9. CASE UNCHANGED vars
    BY <1>9, SuccessIsDurableStays DEF vars
  <1> QED
    BY <1>1, <1>2, <1>3, <1>4, <1>5, <1>6, <1>7, <1>8, <1>9
    DEF Next, Download, Respond, Transmit, BodyCancelled, Finished

LEMMA WholeStays ==
  ASSUME Whole, UNCHANGED <<stream, disk, routine>> PROVE Whole'
  BY DEF Whole, stream, disk, routine

LEMMA WholeStep == CountType /\ Settled /\ Frontier /\ Whole /\ [Next]_vars => Whole'
  <1> SUFFICES ASSUME CountType, Settled, Frontier, Whole, [Next]_vars PROVE Whole'
    OBVIOUS
  <1> USE DEF Whole, Settled, Frontier, Goto, Silent, Remove, Finish, stream, disk, routine
  <1>1. CASE Proceed
    <2>1. CASE OpenPart
      BY <2>1 DEF OpenPart
    <2>2. CASE UseCached
      BY <2>2 DEF UseCached
    <2>3. CASE Revalidate
      BY <2>3 DEF Revalidate
    <2>4. CASE Announce
      BY <2>4 DEF Announce
    <2>5. CASE Sync
      BY <2>5 DEF Sync
    <2>6. CASE Rename
      BY <2>6 DEF Rename
    <2>7. CASE SetFilePath
      BY <2>7 DEF SetFilePath
    <2>8. CASE Record
      BY <2>8 DEF Record
    <2>9. CASE FinishOK
      BY <2>9 DEF FinishOK
    <2>10. CASE RemovePart
      BY <2>10 DEF RemovePart
    <2>11. CASE Exit
      BY <2>11 DEF Exit
    <2> QED
      BY <1>1, <2>1, <2>2, <2>3, <2>4, <2>5, <2>6, <2>7, <2>8, <2>9, <2>10, <2>11 DEF Proceed
  <1>2. CASE FetchFails
    BY <1>2 DEF FetchFails
  <1>3. CASE NotModified
    BY <1>3 DEF NotModified
  <1>4. ASSUME NEW f, FetchBody(f) PROVE Whole'
    BY <1>4 DEF FetchBody
  <1>5. ASSUME NEW n, ReadBody(n) PROVE Whole'
    BY <1>5 DEF ReadBody
  <1>6. CASE BodyEOF
    BY <1>6 DEF BodyEOF
  <1>7. CASE BodyFails
    BY <1>7 DEF BodyFails
  <1>8. CASE Runtime \/ Prefetch \/ Requests
    BY <1>8, Elsewhere, WholeStays
  <1>9. CASE UNCHANGED vars
    BY <1>9, WholeStays DEF vars
  <1> QED
    BY <1>1, <1>2, <1>3, <1>4, <1>5, <1>6, <1>7, <1>8, <1>9
    DEF Next, Download, Respond, Transmit, BodyCancelled, Finished

LEMMA HeldStays ==
  ASSUME Held, UNCHANGED <<stream, disk, routine>> PROVE Held'
  BY DEF Held, stream, disk, routine

LEMMA HeldStep ==
  FlagType /\ CountType /\ NameType /\ RequestType /\ Settled /\ Frontier /\ Stored /\ Held /\ [Next]_vars => Held'
  <1> SUFFICES ASSUME FlagType, CountType, NameType, RequestType, Settled, Frontier, Stored, Held, [Next]_vars PROVE Held'
    OBVIOUS
  <1> USE DEF Held, Goto, Silent, Remove, Finish, stream, disk, routine
  <1>1. CASE Proceed
    <2>1. CASE OpenPart
      <3>1. CASE Goto("open", "fetch") /\ Silent /\ length' = 0 /\ UNCHANGED <<written, final>>
        BY <3>1 DEF Settled, Frontier, Stored
      <3>2. CASE Goto("open", "exit") /\ Finish(TRUE) /\ UNCHANGED disk
        BY <3>2 DEF Settled
      <3> QED
        BY <2>1, <3>1, <3>2 DEF OpenPart
    <2>2. CASE UseCached
      <3>1. framing' = framing /\ framing = "none" /\ dl' = "revalidate"
        BY <2>2 DEF UseCached, Settled
      <3>2. filePath' = "final" /\ final' # "own"
        BY <2>2 DEF UseCached
      <3> QED
        BY <3>1, <3>2
    <2>3. CASE Revalidate
      BY <2>3 DEF Revalidate
    <2>4. CASE Announce
      <3>1. available' = written /\ length = written /\ dl' = "body" /\ framing' = framing
        BY <2>4 DEF Announce
      <3>2. UNCHANGED <<written, length, final, ready, err, filePath>> /\ length \in Nat
        BY <2>4 DEF Announce, CountType
      <3> QED
        BY <3>1, <3>2
    <2>5. CASE Sync
      BY <2>5 DEF Sync
    <2>6. CASE Rename
      BY <2>6 DEF Rename, Settled
    <2>7. CASE SetFilePath
      BY <2>7 DEF SetFilePath
    <2>8. CASE Record
      BY <2>8 DEF Record
    <2>9. CASE FinishOK
      BY <2>9 DEF FinishOK, Frontier
    <2>10. CASE RemovePart
      BY <2>10 DEF RemovePart
    <2>11. CASE Exit
      BY <2>11 DEF Exit
    <2> QED
      BY <1>1, <2>1, <2>2, <2>3, <2>4, <2>5, <2>6, <2>7, <2>8, <2>9, <2>10, <2>11 DEF Proceed
  <1>2. CASE FetchFails
    BY <1>2 DEF FetchFails
  <1>3. CASE NotModified
    BY <1>3 DEF NotModified
  <1>4. ASSUME NEW f \in Framings, FetchBody(f) PROVE Held'
    BY <1>4, SessionAssumption DEF FetchBody, Settled, Frontier, CountType, AllFramings
  <1>5. ASSUME NEW n \in 1..(Size - written), ReadBody(n) PROVE Held'
    <2>1. CASE /\ Goto("body", "announce") /\ Silent /\ written' = written + n
               /\ length' = IF length > written' THEN length ELSE written'
               /\ UNCHANGED final
      <3>1. length = written /\ written \in Nat /\ n \in Nat /\ n > 0 /\ available \in Nat
        BY <2>1, SessionAssumption DEF CountType
      <3>2. written' = length + n /\ length' = written' /\ length <= length'
        BY <2>1, <3>1
      <3>3. UNCHANGED <<available, framing, final, ready, err, filePath>> /\ dl' = "announce"
        BY <2>1
      <3>4. framing # "none" => available <= length'
        BY <3>1, <3>2
      <3> QED
        BY <3>2, <3>3, <3>4
    <2>2. CASE Goto("body", "remove") /\ Finish(TRUE) /\ UNCHANGED disk
      BY <2>2
    <2> QED
      BY <1>5, <2>1, <2>2 DEF ReadBody
  <1>6. CASE BodyEOF
    BY <1>6 DEF BodyEOF
  <1>7. CASE BodyFails
    BY <1>7 DEF BodyFails
  <1>8. CASE Runtime \/ Prefetch \/ Requests
    BY <1>8, Elsewhere, HeldStays
  <1>9. CASE UNCHANGED vars
    BY <1>9, HeldStays DEF vars
  <1> QED
    BY <1>1, <1>2, <1>3, <1>4, <1>5, <1>6, <1>7, <1>8, <1>9
    DEF Next, Download, Respond, Transmit, BodyCancelled, Finished

LEMMA PromotedIsReceivedStays ==
  ASSUME PromotedIsReceived, UNCHANGED <<stream, disk, routine>> PROVE PromotedIsReceived'
  BY DEF PromotedIsReceived, stream, disk, routine

LEMMA PromotedIsReceivedStep ==
  CountType /\ Frontier /\ Stored /\ Held /\ PromotedIsReceived /\ [Next]_vars => PromotedIsReceived'
  <1> SUFFICES ASSUME CountType, Frontier, Stored, Held, PromotedIsReceived, [Next]_vars PROVE PromotedIsReceived'
    OBVIOUS
  <1> USE DEF PromotedIsReceived, Frontier, Stored, Held, Goto, Silent, Remove, Finish, stream, disk, routine
  <1>1. CASE Proceed
    <2>1. CASE OpenPart
      BY <2>1 DEF OpenPart
    <2>2. CASE UseCached
      BY <2>2 DEF UseCached
    <2>3. CASE Revalidate
      BY <2>3 DEF Revalidate
    <2>4. CASE Announce
      BY <2>4 DEF Announce
    <2>5. CASE Sync
      BY <2>5 DEF Sync
    <2>6. CASE Rename
      BY <2>6 DEF Rename
    <2>7. CASE SetFilePath
      BY <2>7 DEF SetFilePath
    <2>8. CASE Record
      BY <2>8 DEF Record
    <2>9. CASE FinishOK
      BY <2>9 DEF FinishOK
    <2>10. CASE RemovePart
      BY <2>10 DEF RemovePart
    <2>11. CASE Exit
      BY <2>11 DEF Exit
    <2> QED
      BY <1>1, <2>1, <2>2, <2>3, <2>4, <2>5, <2>6, <2>7, <2>8, <2>9, <2>10, <2>11 DEF Proceed
  <1>2. CASE FetchFails
    BY <1>2 DEF FetchFails
  <1>3. CASE NotModified
    BY <1>3 DEF NotModified
  <1>4. ASSUME NEW f, FetchBody(f) PROVE PromotedIsReceived'
    BY <1>4 DEF FetchBody
  <1>5. ASSUME NEW n, ReadBody(n) PROVE PromotedIsReceived'
    BY <1>5 DEF ReadBody
  <1>6. CASE BodyEOF
    BY <1>6 DEF BodyEOF
  <1>7. CASE BodyFails
    BY <1>7 DEF BodyFails
  <1>8. CASE Runtime \/ Prefetch \/ Requests
    BY <1>8, Elsewhere, PromotedIsReceivedStays
  <1>9. CASE UNCHANGED vars
    BY <1>9, PromotedIsReceivedStays DEF vars
  <1> QED
    BY <1>1, <1>2, <1>3, <1>4, <1>5, <1>6, <1>7, <1>8, <1>9
    DEF Next, Download, Respond, Transmit, BodyCancelled, Finished

-----------------------------------------------------------------------------
(* The handlers.                                                           *)

\* The download never touches what is local to a handler, and it wakes every
\* sleeping handler whenever it changes what they sleep on.
LEMMA DownloadWakes ==
  ASSUME Download
  PROVE  /\ UNCHANGED request
         /\ pc' = Awake \/ (pc' = pc /\ UNCHANGED <<available, complete>>)
  <1> USE DEF Goto, Silent, Finish, stream
  <1>1. CASE Proceed
    BY <1>1 DEF Proceed, OpenPart, UseCached, Revalidate, Announce, Sync, Rename,
                SetFilePath, Record, FinishOK, RemovePart, Exit
  <1>2. CASE Respond
    BY <1>2 DEF Respond, FetchFails, NotModified, FetchBody
  <1>3. CASE Transmit \/ BodyCancelled
    BY <1>3 DEF Transmit, BodyCancelled, ReadBody, BodyEOF, BodyFails
  <1> QED
    BY <1>1, <1>2, <1>3 DEF Download

\* So does the rest of the system: only Wait puts a handler to sleep.
LEMMA BackgroundWakes ==
  ASSUME TimerFires \/ (\E t \in callbacks : IdleCallback(t)) \/ Prefetch
  PROVE  UNCHANGED <<request, pc, available, complete>>
  BY DEF TimerFires, IdleCallback, Prefetch, PrefetchJoins, KeepAlive, stream

\* The channel ready stays closed, and a response is not forgotten.
LEMMA ReadyStays ==
  ASSUME Download PROVE (ready => ready') /\ (framing # "none" => framing' # "none")
  BY SessionAssumption DEF Download, Proceed, OpenPart, UseCached, Revalidate, Announce, Sync, Rename,
         SetFilePath, Record, FinishOK, RemovePart, Exit, Respond, FetchFails, NotModified,
         FetchBody, Transmit, BodyCancelled, ReadBody, BodyEOF, BodyFails, Goto, Silent,
         Finish, stream, AllFramings

LEMMA HandlersStep ==
  pc \in [Clients -> Places] /\ RequestType /\ NameType /\ Held /\ Handlers /\ [Next]_vars => Handlers'
  <1> SUFFICES ASSUME pc \in [Clients -> Places], RequestType, NameType, Held, Handlers, [Next]_vars PROVE Handlers'
    OBVIOUS
  <1> USE DEF Handlers, RequestType, Places, Attached, routine
  <1>1. CASE Download
    BY <1>1, DownloadWakes, ReadyStays DEF request, Awake
  <1>2. CASE TimerFires \/ (\E t \in callbacks : IdleCallback(t)) \/ Prefetch
    BY <1>2, BackgroundWakes, Elsewhere DEF request, Runtime, stream
  <1>3. ASSUME NEW c \in Clients, WakeAll(c) PROVE Handlers'
    BY <1>3 DEF WakeAll, Awake, Private, stream
  <1>4. ASSUME NEW c \in Clients, Handle(c) PROVE Handlers'
    <2> USE DEF Step, Return, Private, request, stream
    <2>1. CASE AddReader(c)
      BY <2>1 DEF AddReader
    <2>2. CASE AnswerBadGateway(c)
      BY <2>2 DEF AnswerBadGateway
    <2>3. CASE AnswerRangeError(c)
      BY <2>3 DEF AnswerRangeError
    <2>4. CASE AnswerHeaders(c)
      BY <2>4 DEF AnswerHeaders, NameType, Held
    <2>5. CASE Open(c)
      BY <2>5 DEF Open, Found, Held
    <2>6. CASE OpenFails(c)
      BY <2>6 DEF OpenFails
    <2>7. CASE Wait(c)
      BY <2>7 DEF Wait
    <2>8. CASE Abort(c)
      BY <2>8 DEF Abort
    <2>9. CASE Drained(c)
      BY <2>9 DEF Drained
    <2>10. CASE RangeSent(c)
      BY <2>10 DEF RangeSent
    <2>11. CASE RemoveReader(c)
      BY <2>11 DEF RemoveReader
    <2> QED
      BY <1>4, <2>1, <2>2, <2>3, <2>4, <2>5, <2>6, <2>7, <2>8, <2>9, <2>10, <2>11 DEF Handle
  <1>5. ASSUME NEW c \in Clients, Join(c) \/ Disconnect(c) PROVE Handlers'
    BY <1>5 DEF Join, Disconnect, Step, Private, request, stream
  <1>6. ASSUME NEW c \in Clients, Serve(c) PROVE Handlers'
    <2>1. CASE Copy(c)
      BY <2>1 DEF Copy, Private, stream
    <2>2. CASE OpenRefused(c) \/ CopyFails(c)
      BY <2>2 DEF OpenRefused, CopyFails, Return, Step, Private, stream
    <2>3. CASE Spin(c)
      BY <2>3 DEF Spin, vars, request, stream
    <2> QED
      BY <1>6, <2>1, <2>2, <2>3 DEF Serve
  <1>7. CASE UNCHANGED vars
    BY <1>7 DEF vars, request, stream
  <1> QED
    BY <1>1, <1>2, <1>3, <1>4, <1>5, <1>6, <1>7 DEF Next, Runtime, Requests, Finished

LEMMA WokenStep == pc \in [Clients -> Places] /\ RequestType /\ PeerType /\ Woken /\ [Next]_vars => Woken'
  <1> SUFFICES ASSUME pc \in [Clients -> Places], RequestType, PeerType, Woken, [Next]_vars PROVE Woken'
    OBVIOUS
  <1> USE DEF Woken, PeerType
  <1>1. CASE Download
    BY <1>1, DownloadWakes DEF request, Awake
  <1>2. CASE TimerFires \/ (\E t \in callbacks : IdleCallback(t)) \/ Prefetch
    BY <1>2, BackgroundWakes DEF request
  <1>3. ASSUME NEW c \in Clients, WakeAll(c) PROVE Woken'
    BY <1>3 DEF WakeAll, Awake, Private, stream
  <1>4. ASSUME NEW c \in Clients, Handle(c) PROVE Woken'
    <2> USE DEF Step, Return, Private, request, stream
    <2>1. CASE AddReader(c)
      BY <2>1 DEF AddReader
    <2>2. CASE AnswerBadGateway(c)
      BY <2>2 DEF AnswerBadGateway
    <2>3. CASE AnswerRangeError(c)
      BY <2>3 DEF AnswerRangeError
    <2>4. CASE AnswerHeaders(c)
      BY <2>4 DEF AnswerHeaders
    <2>5. CASE Open(c)
      BY <2>5 DEF Open
    <2>6. CASE OpenFails(c)
      BY <2>6 DEF OpenFails
    <2>7. CASE Wait(c)
      BY <2>7 DEF Wait
    <2>8. CASE Abort(c)
      BY <2>8 DEF Abort
    <2>9. CASE Drained(c)
      BY <2>9 DEF Drained
    <2>10. CASE RangeSent(c)
      BY <2>10 DEF RangeSent
    <2>11. CASE RemoveReader(c)
      BY <2>11 DEF RemoveReader
    <2> QED
      BY <1>4, <2>1, <2>2, <2>3, <2>4, <2>5, <2>6, <2>7, <2>8, <2>9, <2>10, <2>11 DEF Handle
  <1>5. ASSUME NEW c \in Clients, Join(c) \/ Disconnect(c) PROVE Woken'
    BY <1>5 DEF Join, Disconnect, Step, Private, request, stream
  <1>6. ASSUME NEW c \in Clients, Serve(c) PROVE Woken'
    <2>1. CASE Copy(c)
      BY <2>1 DEF Copy, Private, stream
    <2>2. CASE OpenRefused(c) \/ CopyFails(c)
      BY <2>2 DEF OpenRefused, CopyFails, Return, Step, Private, stream
    <2>3. CASE Spin(c)
      BY <2>3 DEF Spin, vars, request, stream
    <2> QED
      BY <1>6, <2>1, <2>2, <2>3 DEF Serve
  <1>7. CASE UNCHANGED vars
    BY <1>7 DEF vars, request, stream
  <1> QED
    BY <1>1, <1>2, <1>3, <1>4, <1>5, <1>6, <1>7 DEF Next, Runtime, Requests, Finished

\* A range starts inside the object and not after its end.
LEMMA RangeStartType ==
  ASSUME NEW h \in RangeHeader, NEW tot \in -1..Size, Satisfiable(h, tot)
  PROVE  /\ RangeStart(h) \in 0..Size
         /\ RangeEnd(h, tot) >= 0 => RangeStart(h) <= RangeEnd(h, tot) + 1
  <1>1. Size \in Nat
    BY SessionAssumption
  <1>2. h.to \in Nat \cup {-1} /\ h.from \in Nat
    BY DEF RangeHeader
  <1>3. CASE ~h.ranged
    <2>1. RangeEnd(h, tot) = -1 /\ RangeStart(h) = 0
      BY <1>3 DEF RangeEnd, RangeStart
    <2> QED
      BY <1>1, <2>1
  <1>4. CASE h.ranged
    <2>1. tot >= 0 /\ h.from < tot /\ (h.to = -1 \/ h.from <= h.to)
      BY <1>4 DEF Satisfiable
    <2>2. RangeEnd(h, tot) = IF h.to = -1 \/ h.to >= tot THEN tot - 1 ELSE h.to
      BY <1>4 DEF RangeEnd
    <2>3. RangeStart(h) = h.from
      BY <1>4 DEF RangeStart
    <2>4. CASE h.to = -1 \/ h.to >= tot
      BY <1>1, <1>2, <2>1, <2>2, <2>3, <2>4
    <2>5. CASE h.to # -1 /\ h.to < tot
      BY <1>1, <1>2, <2>1, <2>2, <2>3, <2>5
    <2> QED
      BY <1>2, <2>4, <2>5
  <1> QED
    BY <1>3, <1>4

\* The frontier never moves back.
LEMMA FrontierGrows ==
  ASSUME CountType, Frontier, Download PROVE available <= available'
  <1> USE SessionAssumption DEF CountType, Frontier, Goto, Silent, Finish, stream
  <1>1. CASE UseCached \/ Announce
    BY <1>1 DEF UseCached, Announce
  <1>2. CASE OpenPart \/ Revalidate \/ Sync \/ Rename \/ SetFilePath \/ Record \/ FinishOK
             \/ RemovePart \/ Exit
    BY <1>2 DEF OpenPart, Revalidate, Sync, Rename, SetFilePath, Record, FinishOK, RemovePart, Exit
  <1>3. CASE Respond \/ Transmit \/ BodyCancelled
    BY <1>3 DEF Respond, FetchFails, NotModified, FetchBody, Transmit, BodyCancelled, ReadBody,
                BodyEOF, BodyFails
  <1> QED
    BY <1>1, <1>2, <1>3 DEF Download, Proceed

LEMMA BoundedStep ==
  pc \in [Clients -> Places] /\ RequestType /\ CountType /\ Frontier /\ Bounded /\ [Next]_vars
    => Bounded'
  <1> SUFFICES ASSUME pc \in [Clients -> Places], RequestType, CountType, Frontier, Bounded,
                      [Next]_vars
               PROVE  Bounded'
    OBVIOUS
  <1> USE DEF Bounded, RequestType, CountType, Wanting
  <1>1. CASE Download
    <2>1. available <= available' /\ available' \in Int
      BY <1>1, FrontierGrows, CountProceed, CountTransfer DEF Download
    <2>2. UNCHANGED request /\ (pc' = Awake \/ pc' = pc)
      BY <1>1, DownloadWakes
    <2>3. ASSUME NEW c \in Clients, pc'[c] = "spinning"
          PROVE  offset'[c] < available' /\ (stop'[c] < 0 \/ offset'[c] <= stop'[c])
      BY <2>1, <2>2, <2>3 DEF request, Awake
    <2> QED
      BY <2>2, <2>3 DEF request
  <1>2. CASE TimerFires \/ (\E t \in callbacks : IdleCallback(t)) \/ Prefetch
    BY <1>2, BackgroundWakes DEF request
  <1>3. ASSUME NEW c \in Clients, WakeAll(c) PROVE Bounded'
    BY <1>3 DEF WakeAll, Awake, Private, stream
  <1>4. ASSUME NEW c \in Clients, Handle(c) PROVE Bounded'
    <2> USE DEF Step, Return, Private, request, stream
    <2>1. CASE AddReader(c)
      BY <2>1 DEF AddReader
    <2>2. CASE AnswerBadGateway(c)
      BY <2>2 DEF AnswerBadGateway
    <2>3. CASE AnswerRangeError(c)
      BY <2>3 DEF AnswerRangeError
    <2>4. CASE AnswerHeaders(c)
      <3>1. hdr[c] \in RangeHeader /\ total \in -1..Size
        BY SessionAssumption
      <3>2. /\ offset' = [offset EXCEPT ![c] = RangeStart(hdr[c])]
            /\ stop' = [stop EXCEPT ![c] = RangeEnd(hdr[c], total)]
            /\ Satisfiable(hdr[c], total)
        BY <2>4 DEF AnswerHeaders
      <3>3. /\ RangeStart(hdr[c]) \in 0..Size
            /\ RangeEnd(hdr[c], total) >= 0
                 => RangeStart(hdr[c]) <= RangeEnd(hdr[c], total) + 1
        BY <3>1, <3>2, RangeStartType
      <3>4. pc' = [pc EXCEPT ![c] = "opening"] /\ UNCHANGED available
        BY <2>4 DEF AnswerHeaders
      <3> QED
        BY <3>2, <3>3, <3>4
    <2>5. CASE Open(c)
      BY <2>5 DEF Open
    <2>6. CASE OpenFails(c)
      BY <2>6 DEF OpenFails
    <2>7. CASE Wait(c)
      BY <2>7 DEF Wait
    <2>8. CASE Abort(c)
      BY <2>8 DEF Abort
    <2>9. CASE Drained(c)
      BY <2>9 DEF Drained
    <2>10. CASE RangeSent(c)
      BY <2>10 DEF RangeSent
    <2>11. CASE RemoveReader(c)
      BY <2>11 DEF RemoveReader
    <2> QED
      BY <1>4, <2>1, <2>2, <2>3, <2>4, <2>5, <2>6, <2>7, <2>8, <2>9, <2>10, <2>11 DEF Handle
  <1>5. ASSUME NEW c \in Clients, Join(c) \/ Disconnect(c) PROVE Bounded'
    BY <1>5 DEF Join, Disconnect, Step, Private, request, stream
  <1>6. ASSUME NEW c \in Clients, Serve(c) PROVE Bounded'
    <2>1. CASE Copy(c)
      <3>1. UNCHANGED stop
        BY <2>1 DEF Copy
      <3>2. PICK to \in Nat :
              /\ offset' = [offset EXCEPT ![c] = to]
              /\ to = offset[c] \/ to \in (offset[c] + 1)..Limit(c) \/ to = Limit(c)
              /\ pc'[c] = "spinning" => to = offset[c] \/ to < Limit(c)
        BY <2>1, CopyType
      <3>3. Limit(c) \in 0..available /\ (stop[c] >= 0 => Limit(c) <= stop[c] + 1)
        BY LimitType
      <3>4. to <= Size /\ (stop[c] >= 0 => to <= stop[c] + 1)
        BY <3>2, <3>3, SessionAssumption
      <3>5. pc'[c] = "spinning" => to < available /\ (stop[c] < 0 \/ to <= stop[c])
        <4>1. offset[c] < available /\ (stop[c] < 0 \/ offset[c] <= stop[c])
          BY <2>1 DEF Copy
        <4>2. available \in Nat /\ stop[c] \in Int /\ offset[c] \in Nat
          BY SessionAssumption
        <4>3. Limit(c) = available \/ Limit(c) = stop[c] + 1
          BY DEF Limit
        <4> QED
          BY <3>2, <3>3, <4>1, <4>2, <4>3
      <3>6. UNCHANGED available /\ \A d \in Clients \ {c} : pc'[d] = pc[d]
        BY <2>1 DEF Copy, Private, stream
      <3> QED
        BY <3>1, <3>2, <3>4, <3>5, <3>6
    <2>2. CASE OpenRefused(c) \/ CopyFails(c)
      BY <2>2 DEF OpenRefused, CopyFails, Return, Step, Private, stream
    <2>3. CASE Spin(c)
      BY <2>3 DEF Spin, vars, request, stream
    <2> QED
      BY <1>6, <2>1, <2>2, <2>3 DEF Serve
  <1>7. CASE UNCHANGED vars
    BY <1>7 DEF vars, request, stream
  <1> QED
    BY <1>1, <1>2, <1>3, <1>4, <1>5, <1>6, <1>7 DEF Next, Runtime, Requests, Finished

LEMMA NoLostWakeupStep == pc \in [Clients -> Places] /\ RequestType /\ PeerType /\ Woken /\ NoLostWakeup /\ [Next]_vars => NoLostWakeup'
  <1> SUFFICES ASSUME pc \in [Clients -> Places], RequestType, PeerType, Woken, NoLostWakeup, [Next]_vars PROVE NoLostWakeup'
    OBVIOUS
  <1> USE DEF NoLostWakeup, RequestType, PeerType, Woken, Places, Attached
  <1>1. CASE Download
    BY <1>1, DownloadWakes DEF request, Awake
  <1>2. CASE TimerFires \/ (\E t \in callbacks : IdleCallback(t)) \/ Prefetch
    BY <1>2, BackgroundWakes DEF request
  <1>3. ASSUME NEW c \in Clients, WakeAll(c) PROVE NoLostWakeup'
    BY <1>3 DEF WakeAll, Awake, Private, stream
  <1>4. ASSUME NEW c \in Clients, Handle(c) PROVE NoLostWakeup'
    <2> USE DEF Step, Return, Private, request, stream
    <2>1. CASE AddReader(c)
      BY <2>1 DEF AddReader
    <2>2. CASE AnswerBadGateway(c)
      BY <2>2 DEF AnswerBadGateway
    <2>3. CASE AnswerRangeError(c)
      BY <2>3 DEF AnswerRangeError
    <2>4. CASE AnswerHeaders(c)
      BY <2>4 DEF AnswerHeaders
    <2>5. CASE Open(c)
      BY <2>5 DEF Open
    <2>6. CASE OpenFails(c)
      BY <2>6 DEF OpenFails
    <2>7. CASE Wait(c)
      BY <2>7 DEF Wait
    <2>8. CASE Abort(c)
      BY <2>8 DEF Abort
    <2>9. CASE Drained(c)
      BY <2>9 DEF Drained
    <2>10. CASE RangeSent(c)
      BY <2>10 DEF RangeSent
    <2>11. CASE RemoveReader(c)
      BY <2>11 DEF RemoveReader
    <2> QED
      BY <1>4, <2>1, <2>2, <2>3, <2>4, <2>5, <2>6, <2>7, <2>8, <2>9, <2>10, <2>11 DEF Handle
  <1>5. ASSUME NEW c \in Clients, Join(c) \/ Disconnect(c) PROVE NoLostWakeup'
    BY <1>5 DEF Join, Disconnect, Step, Private, request, stream
  <1>6. ASSUME NEW c \in Clients, Serve(c) PROVE NoLostWakeup'
    <2>1. CASE Copy(c)
      BY <2>1 DEF Copy, Private, stream
    <2>2. CASE OpenRefused(c) \/ CopyFails(c)
      BY <2>2 DEF OpenRefused, CopyFails, Return, Step, Private, stream
    <2>3. CASE Spin(c)
      BY <2>3 DEF Spin, vars, request, stream
    <2> QED
      BY <1>6, <2>1, <2>2, <2>3 DEF Serve
  <1>7. CASE UNCHANGED vars
    BY <1>7 DEF vars, request, stream
  <1> QED
    BY <1>1, <1>2, <1>3, <1>4, <1>5, <1>6, <1>7 DEF Next, Runtime, Requests, Finished

\* Reading on without progress takes a file that is not as long as announced.
LEMMA SpinningTaken ==
  ASSUME NEW c \in Clients, pc \in [Clients -> Places], RequestType, CountType, Handlers, Held, Copy(c), pc'[c] = "spinning"
  PROVE  Taken(c) \/ Misinformed(c)
  <1>1. PICK n \in Readable(c) : ~(n >= Limit(c))
    BY DEF Copy
  <1>2. Limit(c) \in 0..available /\ available \in 0..Size /\ Size \in Nat /\ length \in Nat
    BY LimitType, SessionAssumption DEF CountType
  <1>3. opened[c] \in {"prior", "own", "other"}
    BY DEF Copy, Handlers, RequestType
  <1>4. CASE ~Taken(c) /\ opened[c] = "own"
    <2>1. n = length /\ available <= length
      BY <1>1, <1>4 DEF Readable, Held, Handlers
    <2> QED
      BY <1>1, <1>2, <2>1
  <1>5. CASE ~Taken(c) /\ opened[c] # "own"
    <2>1. n = kept /\ opened[c] = "prior"
      BY <1>1, <1>3, <1>5 DEF Readable, Taken
    <2>2. kept # Size
      BY <1>1, <1>2, <2>1
    <2> QED
      BY <2>1, <2>2 DEF Misinformed
  <1> QED
    BY <1>4, <1>5

LEMMA AnnouncedIsStoredStep ==
  /\ TypeOK /\ Settled /\ Held /\ Held' /\ Handlers /\ Handlers' /\ AnnouncedIsStored /\ [Next]_vars
  => AnnouncedIsStored'
  <1> SUFFICES ASSUME TypeOK, Settled, Held, Held', Handlers, Handlers', AnnouncedIsStored, [Next]_vars,
                      NEW c \in Clients
               PROVE  /\ opened'[c] = "own" /\ ~Taken(c)' => available' <= length'
                      /\ pc'[c] = "spinning" => Taken(c)' \/ Misinformed(c)'
    BY DEF AnnouncedIsStored
  <1>1. opened'[c] = "own" => available' <= length'
    BY DEF Held, Handlers
  <1> SUFFICES ASSUME pc'[c] = "spinning" PROVE Taken(c)' \/ Misinformed(c)'
    BY <1>1
  <1>2. ASSUME pc[c] = "spinning", UNCHANGED <<opened, part, kept>>, inMap' => inMap
        PROVE  Taken(c)' \/ Misinformed(c)'
    BY <1>2 DEF AnnouncedIsStored, Taken, Misinformed, Shared
  <1>3. ASSUME NEW d \in Clients, Copy(d) PROVE Taken(c)' \/ Misinformed(c)'
    <2>1. UNCHANGED <<opened, part, kept, inMap>>
      BY <1>3 DEF Copy, Private, disk, routine
    <2>2. CASE d = c
      BY <1>3, <2>1, <2>2, SpinningTaken DEF TypeOK, Taken, Misinformed, Shared
    <2>3. CASE d # c
      BY <1>2, <1>3, <2>1, <2>3 DEF Copy
    <2> QED
      BY <2>2, <2>3
  <1>4. CASE Download
    <2>1. UNCHANGED opened /\ pc[c] = "spinning"
      BY <1>4, DownloadWakes DEF request, Awake
    <2>2. ready /\ dl # "gone"
      <3>1. ready
        BY <2>1 DEF Handlers
      <3>2. dl # "gone"
        BY <1>4 DEF Download, Proceed, OpenPart, UseCached, Revalidate, Announce, Sync, Rename,
           SetFilePath, Record, FinishOK, RemovePart, Exit, Respond, FetchFails, NotModified,
           FetchBody, Transmit, BodyCancelled, ReadBody, BodyEOF, BodyFails, Goto
      <3> QED
        BY <3>1, <3>2
    <2>3. ~UseCached
      BY <2>2 DEF UseCached, Goto, Settled
    <2>4. UNCHANGED kept
      BY <1>4, <2>3 DEF Download, Proceed, OpenPart, Revalidate, Announce, Sync, Rename,
         SetFilePath, Record, FinishOK, RemovePart, Exit, Respond, FetchFails, NotModified,
         FetchBody, Transmit, BodyCancelled, ReadBody, BodyEOF, BodyFails, Remove, disk
    <2>5. ~Shared
      BY <2>2 DEF Settled, Shared
    <2> QED
      BY <2>1, <2>4, <2>5 DEF AnnouncedIsStored, Taken, Misinformed
  <1>5. CASE TimerFires \/ (\E t \in callbacks : IdleCallback(t)) \/ Prefetch
    <2>1. UNCHANGED <<request, pc>> /\ UNCHANGED <<disk, routine>>
      BY <1>5, BackgroundWakes, Elsewhere DEF Runtime
    <2> QED
      BY <1>2, <2>1 DEF request, disk, routine
  <1>6. ASSUME NEW d \in Clients,
               \/ Handle(d) \/ Join(d) \/ Disconnect(d) \/ WakeAll(d) \/ OpenRefused(d)
               \/ CopyFails(d) \/ Spin(d)
        PROVE  Taken(c)' \/ Misinformed(c)'
    <2>1. UNCHANGED <<disk, routine>>
      BY <1>6, Elsewhere DEF Requests, Serve, Runtime
    <2>2. pc[c] = "spinning"
      BY <1>6 DEF Handle, Join, Disconnect, WakeAll, Awake, OpenRefused, CopyFails, Spin, Return,
         Step, AddReader, AnswerBadGateway, AnswerRangeError, AnswerHeaders, Open, OpenFails,
         Wait, Abort, Drained, RangeSent, RemoveReader, TypeOK, vars
    <2>3. opened'[c] = opened[c]
      BY <1>6, <2>2 DEF Handle, Join, Disconnect, WakeAll, OpenRefused, CopyFails, Spin, Return,
         Step, AddReader, AnswerBadGateway, AnswerRangeError, AnswerHeaders, Open, OpenFails,
         Wait, Abort, Drained, RangeSent, RemoveReader, TypeOK, RequestType, request, vars
    <2> QED
      BY <2>1, <2>2, <2>3 DEF AnnouncedIsStored, Taken, Misinformed, Shared, disk, routine
  <1>7. CASE UNCHANGED vars
    BY <1>2, <1>7 DEF vars, disk, routine, request
  <1> QED
    BY <1>3, <1>4, <1>5, <1>6, <1>7 DEF Next, Runtime, Requests, Serve, Finished

LEMMA DeliveredStep ==
  /\ pc \in [Clients -> Places] /\ RequestType /\ CountType /\ Settled /\ Whole
  /\ Handlers /\ Bounded /\ Delivered /\ [Next]_vars
  => Delivered'
  <1> SUFFICES ASSUME pc \in [Clients -> Places], RequestType, CountType, Settled, Whole,
                      Handlers, Bounded, Delivered, [Next]_vars, framing' # "close"
               PROVE  DoneMeansWhole'
    BY DEF Delivered
  <1>0. framing # "close"
    <2>1. CASE framing' = framing
      BY <2>1
    <2>2. ASSUME NEW f, FetchBody(f) PROVE framing # "close"
      BY <2>2 DEF FetchBody, Settled
    <2>3. \/ framing' = framing \/ \E f : FetchBody(f)
      BY Elsewhere DEF Next, Download, Proceed, OpenPart, UseCached, Revalidate, Announce,
         Sync, Rename, SetFilePath, Record, FinishOK, RemovePart, Exit, Respond, FetchFails,
         NotModified, Transmit, BodyCancelled, ReadBody, BodyEOF, BodyFails, Goto, Finished,
         vars, routine
    <2> QED
      BY <2>1, <2>2, <2>3
  <1>1. DoneMeansWhole
    BY <1>0 DEF Delivered
  <1> USE <1>1 DEF DoneMeansWhole, RequestType
  <1>2. CASE Download
    BY <1>2, DownloadWakes DEF request
  <1>3. CASE TimerFires \/ (\E t \in callbacks : IdleCallback(t)) \/ Prefetch
    BY <1>3, BackgroundWakes DEF request
  <1>4. ASSUME NEW c \in Clients, WakeAll(c) \/ Join(c) \/ Disconnect(c) PROVE DoneMeansWhole'
    BY <1>4 DEF WakeAll, Join, Disconnect, request
  <1>5. ASSUME NEW c \in Clients, Copy(c) \/ AnswerHeaders(c) PROVE DoneMeansWhole'
    <2>1. outcome[c] = "none" /\ UNCHANGED outcome
      BY <1>5 DEF Copy, AnswerHeaders, Step, Handlers, Places, Attached
    <2>2. \A d \in Clients \ {c} : offset'[d] = offset[d] /\ stop'[d] = stop[d]
      BY <1>5, CopyType DEF Copy, AnswerHeaders
    <2> QED
      BY <2>1, <2>2
  <1>6. ASSUME NEW c \in Clients, Drained(c) PROVE DoneMeansWhole'
    <2>1. UNCHANGED <<offset, stop>> /\ \A d \in Clients \ {c} : outcome'[d] = outcome[d]
      BY <1>6 DEF Drained, Return
    <2>2. CASE ~err
      <3>1. available = Size
        BY <1>0, <1>6, <2>2 DEF Whole, Drained
      <3>2. offset[c] >= available /\ (stop[c] < 0 \/ offset[c] <= stop[c])
        BY <1>6 DEF Drained, Wanting
      <3>3. offset[c] <= Size /\ offset[c] \in Nat /\ stop[c] \in -1..(Size - 1) /\ Size \in Nat
        BY SessionAssumption DEF Bounded
      <3>4. ~(stop[c] >= 0) /\ offset[c] = Size
        BY <3>1, <3>2, <3>3
      <3> QED
        BY <2>1, <3>4
    <2>3. CASE err
      BY <1>6, <2>1, <2>3 DEF Drained, Return
    <2> QED
      BY <2>2, <2>3
  <1>7. ASSUME NEW c \in Clients, RangeSent(c) PROVE DoneMeansWhole'
    <2>1. UNCHANGED <<offset, stop>> /\ \A d \in Clients \ {c} : outcome'[d] = outcome[d]
      BY <1>7 DEF RangeSent, Return
    <2>2. stop[c] >= 0 /\ offset[c] > stop[c]
      BY <1>7, SessionAssumption DEF RangeSent, Wanting
    <2> QED
      BY <2>1, <2>2
  <1>8. ASSUME NEW c \in Clients, AnswerBadGateway(c) \/ AnswerRangeError(c) \/ OpenFails(c) \/ Abort(c)
               \/ OpenRefused(c) \/ CopyFails(c)
        PROVE DoneMeansWhole'
    BY <1>8 DEF AnswerBadGateway, AnswerRangeError, OpenFails, Abort, OpenRefused, CopyFails, Return
  <1>9. ASSUME NEW c \in Clients, AddReader(c) \/ Open(c) \/ Wait(c) \/ RemoveReader(c)
        PROVE DoneMeansWhole'
    BY <1>9 DEF AddReader, Open, Wait, RemoveReader, request
  <1>10. CASE UNCHANGED vars
    BY <1>10 DEF vars, request
  <1> QED
    BY <1>2, <1>3, <1>4, <1>5, <1>6, <1>7, <1>8, <1>9, <1>10
    DEF Next, Runtime, Requests, Serve, Spin, Handle, Finished

-----------------------------------------------------------------------------
(* The readers.                                                            *)

Served == {c \in Clients : pc[c] \in Attached}

LEMMA ServedIsFinite ==
  IsFiniteSet(Served) /\ Cardinality(Served) \in Nat
  <1>1. IsFiniteSet(Served)
    BY SessionAssumption, FS_Subset DEF Served
  <1> QED
    BY <1>1, FS_CardinalityType

LEMMA ReaderCountStep ==
  pc \in [Clients -> Places] /\ CountType /\ ReaderCount /\ [Next]_vars => ReaderCount'
  <1> SUFFICES ASSUME pc \in [Clients -> Places], CountType, ReaderCount, [Next]_vars
               PROVE  ReaderCount'
    OBVIOUS
  <1>0. readers = Cardinality(Served)
    BY DEF ReaderCount, Served
  <1>1. ASSUME readers' = readers, Served' = Served PROVE ReaderCount'
    BY <1>0, <1>1 DEF ReaderCount, Served
  <1>2. ASSUME pc' = Awake \/ pc' = pc PROVE Served' = Served
    BY <1>2 DEF Served, Awake, Attached, Places
  <1>3. CASE Download
    <2>1. readers' = readers
      BY <1>3 DEF Download, Proceed, OpenPart, UseCached, Revalidate, Announce, Sync, Rename,
         SetFilePath, Record, FinishOK, RemovePart, Exit, Respond, FetchFails, NotModified,
         FetchBody, Transmit, BodyCancelled, ReadBody, BodyEOF, BodyFails, Silent, Finish, lease
    <2> QED
      BY <1>1, <1>2, <1>3, <2>1, DownloadWakes
  <1>4. CASE Runtime \/ Prefetch
    <2>1. readers' = readers /\ (pc' = Awake \/ pc' = pc)
      BY <1>4 DEF Runtime, TimerFires, IdleCallback, WakeAll, Prefetch, PrefetchJoins,
         KeepAlive, Private, lease
    <2> QED
      BY <1>1, <1>2, <2>1
  <1>5. ASSUME NEW c \in Clients, AddReader(c) PROVE ReaderCount'
    <2>1. readers' = readers + 1 /\ c \notin Served /\ Served' = Served \cup {c}
      BY <1>5 DEF AddReader, Step, Served, Attached, Places
    <2>2. Cardinality(Served') = Cardinality(Served) + 1
      BY <2>1, ServedIsFinite, FS_AddElement
    <2> QED
      BY <1>0, <2>1, <2>2 DEF ReaderCount, Served
  <1>6. ASSUME NEW c \in Clients, RemoveReader(c) PROVE ReaderCount'
    <2>1. c \in Served /\ Served' = Served \ {c}
      BY <1>6 DEF RemoveReader, Step, Served, Attached, Places
    <2>2. Cardinality(Served') = Cardinality(Served) - 1
      BY <2>1, ServedIsFinite, FS_RemoveElement
    <2>3. Cardinality(Served) > 0
      BY <2>1, ServedIsFinite, FS_EmptySet
    <2>4. readers' = readers - 1
      BY <1>0, <1>6, <2>3 DEF RemoveReader
    <2> QED
      BY <1>0, <2>2, <2>4 DEF ReaderCount, Served
  <1>7. ASSUME NEW c \in Clients,
               \/ AnswerBadGateway(c) \/ AnswerRangeError(c) \/ AnswerHeaders(c) \/ Open(c)
               \/ OpenFails(c) \/ Wait(c) \/ Abort(c) \/ Drained(c) \/ RangeSent(c)
               \/ OpenRefused(c) \/ CopyFails(c)
        PROVE  ReaderCount'
    <2>1. readers' = readers
      BY <1>7 DEF AnswerBadGateway, AnswerRangeError, AnswerHeaders, Open, OpenFails, Wait,
         Abort, Drained, RangeSent, OpenRefused, CopyFails, Return, Private, lease
    <2>2. \E a, b \in Attached : Step(c, a, b)
      BY <1>7 DEF AnswerBadGateway, AnswerRangeError, AnswerHeaders, Open, OpenFails, Wait,
         Abort, Drained, RangeSent, OpenRefused, CopyFails, Return, Attached
    <2>3. Served' = Served
      BY <2>2 DEF Served, Step
    <2> QED
      BY <1>1, <2>1, <2>3
  <1>8. ASSUME NEW c \in Clients, Join(c) \/ Copy(c) \/ Disconnect(c) PROVE ReaderCount'
    <2>1. readers' = readers
      BY <1>8 DEF Join, Copy, Disconnect, Private, lease
    <2>2. Served' = Served
      BY <1>8 DEF Join, Copy, Disconnect, Step, Served, Attached
    <2> QED
      BY <1>1, <2>1, <2>2
  <1>9. CASE UNCHANGED vars
    <2>1. readers' = readers /\ pc' = pc
      BY <1>9 DEF vars, lease
    <2> QED
      BY <1>1, <1>2, <2>1
  <1> QED
    BY <1>3, <1>4, <1>5, <1>6, <1>7, <1>8, <1>9
    DEF Next, Requests, Serve, Spin, Handle, Finished

-----------------------------------------------------------------------------
(* The invariant and what follows from it.                                 *)

LEMMA InitInductive == Init => Inductive
  <1> SUFFICES ASSUME Init PROVE Inductive
    OBVIOUS
  <1>1. TypeOK
    BY InitType
  <1>2. ReaderCount
    <2>1. {c \in Clients : pc[c] \in Attached} = {}
      BY DEF Init, Attached
    <2> QED
      BY <2>1, FS_EmptySet DEF Init, ReaderCount
  <1>3. Settled /\ Stored /\ SuccessIsDurable
    BY DEF Init, Settled, Stored, SuccessIsDurable
  <1>4. Frontier /\ AnnouncedIsStored
    BY DEF Init, Frontier, AnnouncedIsStored
  <1>5. Whole /\ Held /\ PromotedIsReceived
    BY DEF Init, Whole, Held, PromotedIsReceived
  <1>6. Handlers /\ NoLostWakeup
    BY DEF Init, Handlers, NoLostWakeup
  <1>7. Woken
    BY DEF Init, Woken
  <1>8. Bounded
    BY SessionAssumption DEF Init, Bounded
  <1>9. Delivered
    BY DEF Init, Delivered, DoneMeansWhole
  <1> QED
    BY <1>1, <1>2, <1>3, <1>4, <1>5, <1>6, <1>7, <1>8, <1>9 DEF Inductive

LEMMA StepInductive == Inductive /\ [Next]_vars => Inductive'
  BY StepType, ReaderCountStep, SettledStep, FrontierStep, AnnouncedIsStoredStep, WholeStep,
     StoredStep, SuccessIsDurableStep, HandlersStep, BoundedStep, WokenStep,
     NoLostWakeupStep, HeldStep, PromotedIsReceivedStep, DeliveredStep
  DEF Inductive, TypeOK

\* The invariant behind the rest: where the download is tells what it has
\* announced, stored and decided, and where a handler is, what it may rely on.
THEOREM InductiveInvariant == Spec => []Inductive
  <1>1. Init => Inductive
    BY InitInductive
  <1>2. Inductive /\ [Next]_vars => Inductive'
    BY StepInductive
  <1> QED
    BY <1>1, <1>2, PTL DEF Spec

\* readers counts the handlers between addReader and removeReader.
THEOREM ReadersCounted == Spec => []ReaderCount
  BY InductiveInvariant, PTL DEF Inductive

\* The file that a handler has open holds what is announced, if it is the
\* session's own and no later session truncates it; and only over another file,
\* or one whose row was wrong, does its ReadAt loop turn without progress.
THEOREM FrontierStored == Spec => []AnnouncedIsStored
  BY InductiveInvariant, PTL DEF Inductive

\* Nobody sleeps in changed.Wait() through what it waits for.
THEOREM WakeupsArrive == Spec => []NoLostWakeup
  BY InductiveInvariant, PTL DEF Inductive

\* A session succeeds with an object in place and its row, unless it is one that
\* a 304 confirmed although there was no such file to begin with.
THEOREM SuccessDurable == Spec => []SuccessIsDurable
  BY InductiveInvariant, PTL DEF Inductive

LEMMA FramingSound ==
  ASSUME "close" \notin Framings PROVE Spec => [](framing # "close")
  <1>1. Init => framing # "close"
    BY DEF Init
  <1>2. framing # "close" /\ [Next]_vars => (framing # "close")'
    <2> SUFFICES ASSUME framing # "close", [Next]_vars PROVE framing' # "close"
      OBVIOUS
    <2>1. framing' = framing \/ \E f \in Framings : FetchBody(f)
      BY Elsewhere DEF Next, Download, Proceed, OpenPart, UseCached, Revalidate, Announce,
         Sync, Rename, SetFilePath, Record, FinishOK, RemovePart, Exit, Respond, FetchFails,
         NotModified, Transmit, BodyCancelled, ReadBody, BodyEOF, BodyFails, Goto, Finished,
         vars, routine
    <2> QED
      BY <2>1 DEF FetchBody
  <1> QED
    BY <1>1, <1>2, PTL DEF Spec

\* Unless upstream ends its body with its connection, a handler that returns
\* without an error has sent all that was asked for.
THEOREM ResponsesWhole == "close" \notin Framings /\ Spec => []DoneMeansWhole
  <1> SUFFICES ASSUME "close" \notin Framings PROVE Spec => []DoneMeansWhole
    OBVIOUS
  <1>1. Inductive /\ framing # "close" => DoneMeansWhole
    BY DEF Inductive, Delivered
  <1> QED
    BY <1>1, FramingSound, InductiveInvariant, PTL

\* What a session renames into place is the length that it received and
\* announced, whatever an earlier session had left under the .part name.
THEOREM PromotionsExact == Spec => []PromotedIsReceived
  BY InductiveInvariant, PTL DEF Inductive

\* Once finish has been called, no step changes what the readers judge by.
THEOREM VerdictFinal == Spec => VerdictIsFinal
  <1> DEFINE Frozen == complete => /\ complete' /\ err' = err /\ available' = available
                                   /\ total' = total /\ filePath' = filePath
  <1>1. Inductive /\ [Next]_vars => [Frozen]_vars
    <2> SUFFICES ASSUME Inductive, [Next]_vars, complete PROVE UNCHANGED stream
      BY DEF stream
    <2>1. dl \in {"remove", "exit", "gone"}
      BY DEF Inductive, Settled
    <2>2. CASE Download
      BY <2>1, <2>2 DEF Download, Proceed, OpenPart, UseCached, Revalidate, Announce, Sync,
         Rename, SetFilePath, Record, FinishOK, RemovePart, Exit, Respond, FetchFails,
         NotModified, FetchBody, Transmit, BodyCancelled, ReadBody, BodyEOF, BodyFails, Goto, Silent
    <2>3. CASE UNCHANGED vars
      BY <2>3 DEF vars
    <2> QED
      BY <2>2, <2>3, Elsewhere DEF Next, Finished
  <1> QED
    BY <1>1, InductiveInvariant, PTL DEF Spec, VerdictIsFinal

\* The idle timer cancels no download that a handler is at work on.
THEOREM NoCancelServed == Spec => NoCancelUnderReader
  <1> DEFINE Spared == ~ctxCancelled /\ ctxCancelled' /\ dl' # "gone"
                         => \A c \in Clients : pc[c] \notin Attached
  <1>1. Inductive /\ [Next]_vars => [Spared]_vars
    <2> SUFFICES ASSUME Inductive, [Next]_vars, ~ctxCancelled, ctxCancelled', dl' # "gone"
                 PROVE  \A c \in Clients : pc[c] \notin Attached
      OBVIOUS
    <2>1. ASSUME NEW t, IdleCallback(t) PROVE readers = 0
      BY <2>1 DEF IdleCallback
    <2>2. \E t : IdleCallback(t)
      BY DEF Next, Download, Proceed, OpenPart, UseCached, Revalidate, Announce, Sync,
         Rename, SetFilePath, Record, FinishOK, RemovePart, Exit, Respond, FetchFails,
         NotModified, FetchBody, Transmit, BodyCancelled, ReadBody, BodyEOF, BodyFails, Silent,
         Finish, Runtime, TimerFires, WakeAll, Prefetch, PrefetchJoins, KeepAlive, Requests,
         Join, Serve, OpenRefused, Copy, Spin, CopyFails, Disconnect, Handle, Return, Private,
         AddReader, AnswerBadGateway,
         AnswerRangeError, AnswerHeaders, Open, OpenFails, Wait, Abort, Drained, RangeSent,
         RemoveReader, Finished, vars
    <2>3. Cardinality(Served) = 0
      BY <2>1, <2>2 DEF Inductive, ReaderCount, Served
    <2> QED
      BY <2>3, ServedIsFinite, FS_EmptySet DEF Served
  <1> QED
    BY <1>1, InductiveInvariant, PTL DEF Spec, NoCancelUnderReader

-----------------------------------------------------------------------------
(* The shared download of Session implements the promise of Transfer.      *)

\* The abstract state that a state of Session stands for.
Status == IF ~complete THEN "running" ELSE IF err THEN "failed" ELSE "ok"

Asked == [c \in Clients |->
            IF path[c] = "none" THEN [first |-> 0, last |-> -2]
            ELSE [first |-> RangeStart(hdr[c]), last |-> stop[c]]]

Verdict == [c \in Clients |->
              CASE outcome[c] = "none" -> "none"
                [] outcome[c] = "done" -> "served"
                [] OTHER               -> "denied"]

LEMMA InitPromise == Init => Promise!Init
  <1> SUFFICES ASSUME Init PROVE Promise!Init
    OBVIOUS
  <1>1. Status = "running" /\ available = 0
    BY DEF Init, Status
  <1>2. Asked = [c \in Clients |-> [first |-> 0, last |-> -2]]
    BY DEF Init, Asked
  <1>3. Verdict = [c \in Clients |-> "none"]
    BY DEF Init, Verdict
  <1>4. offset = [c \in Clients |-> 0]
    BY DEF Init
  <1> QED
    BY <1>1, <1>2, <1>3, <1>4 DEF Promise!Init, Promise!Nothing, Status, Asked, Verdict

\* The readers' part of the abstract state depends on path, hdr, stop, offset
\* and outcome only.
LEMMA ReadersStutter ==
  ASSUME UNCHANGED <<hdr, path, stop, offset, outcome>>
  PROVE  Asked' = Asked /\ Verdict' = Verdict /\ offset' = offset
  BY DEF Asked, Verdict, RangeStart

LEMMA DownloadPromise ==
  ASSUME Inductive, Download, framing # "close"
  PROVE  \/ Promise!Publish \/ Promise!Succeed \/ Promise!Fail
         \/ UNCHANGED Promise!vars
  <1>1. Asked' = Asked /\ Verdict' = Verdict /\ offset' = offset
    BY DownloadWakes, ReadersStutter DEF request
  <1>2. available \in 0..Size /\ written \in 0..Size /\ Size \in Nat
    BY SessionAssumption DEF Inductive, TypeOK, CountType
  <1>3. \/ UNCHANGED <<complete, err, available>>
        \/ ~complete /\ complete' /\ UNCHANGED available /\ (~err' => available = Size)
        \/ ~complete /\ UNCHANGED <<complete, err>> /\ available <= written /\ available' = written
        \/ ~complete /\ UNCHANGED <<complete, err>> /\ available = 0 /\ available' = Size
    <2> USE DEF Goto, Silent, Finish, stream
    <2>1. ASSUME Finish(TRUE), dl \notin {"remove", "exit", "gone"}
          PROVE  ~complete /\ complete' /\ UNCHANGED available /\ err'
      BY <2>1 DEF Inductive, Settled
    <2>2. CASE FinishOK
      BY <2>2 DEF FinishOK, Inductive, Settled, Whole
    <2>3. CASE UseCached
      BY <2>3 DEF UseCached, Inductive, Settled, Frontier
    <2>4. CASE Announce
      BY <2>4 DEF Announce, Inductive, Settled, Frontier
    <2>5. CASE OpenPart \/ Revalidate \/ Sync \/ Rename \/ SetFilePath \/ Record
               \/ RemovePart \/ Exit
      BY <2>1, <2>5 DEF OpenPart, Revalidate, Sync, Rename, SetFilePath, Record, RemovePart, Exit
    <2>6. CASE Respond \/ Transmit \/ BodyCancelled
      BY <2>1, <2>6 DEF Respond, FetchFails, NotModified, FetchBody, Transmit, ReadBody, BodyEOF,
                        BodyFails, BodyCancelled
    <2> QED
      BY <2>2, <2>3, <2>4, <2>5, <2>6 DEF Download, Proceed
  <1>4. CASE UNCHANGED <<complete, err, available>>
    BY <1>1, <1>4 DEF Promise!vars, Status, Asked, Verdict
  <1>5. CASE ~complete /\ complete' /\ UNCHANGED available /\ (~err' => available = Size)
    <2>1. Status = "running" /\ Status' = IF err' THEN "failed" ELSE "ok"
      BY <1>5 DEF Status
    <2> QED
      BY <1>1, <1>5, <2>1 DEF Promise!Succeed, Promise!Fail, Status, Asked, Verdict
  <1>6. CASE ~complete /\ UNCHANGED <<complete, err>> /\ available \in 0..Size
             /\ (available' = available \/ available' \in (available + 1)..Size)
    <2>1. Status = "running" /\ Status' = Status
      BY <1>6 DEF Status
    <2> QED
      BY <1>1, <1>6, <2>1 DEF Promise!Publish, Promise!vars, Status, Asked, Verdict
  <1>7. ASSUME available <= written, available' = written
        PROVE  available' = available \/ available' \in (available + 1)..Size
    BY <1>2, <1>7
  <1>8. ASSUME available = 0, available' = Size
        PROVE  available' = available \/ available' \in (available + 1)..Size
    BY <1>2, <1>8
  <1> QED
    BY <1>2, <1>3, <1>4, <1>5, <1>6, <1>7, <1>8

\* What every step of a handler leaves alone.
LEMMA HandlerKeeps ==
  ASSUME NEW c \in Clients,
         Handle(c) \/ Serve(c) \/ Join(c) \/ Disconnect(c) \/ WakeAll(c)
  PROVE  UNCHANGED <<complete, err, available, hdr>> /\ Status' = Status
  <1>1. CASE Handle(c)
    <2> USE DEF Private, stream, request, Return
    <2>1. UNCHANGED <<complete, err, available>>
      BY <1>1 DEF Handle, AddReader, AnswerBadGateway, AnswerRangeError, AnswerHeaders, Open,
         OpenFails, Wait, Abort, Drained, RangeSent, RemoveReader
    <2>2. UNCHANGED hdr
      BY <1>1 DEF Handle, AddReader, AnswerBadGateway, AnswerRangeError, AnswerHeaders, Open,
         OpenFails, Wait, Abort, Drained, RangeSent, RemoveReader
    <2> QED
      BY <2>1, <2>2 DEF Status
  <1>2. CASE Serve(c) \/ Join(c) \/ Disconnect(c) \/ WakeAll(c)
    <2>1. UNCHANGED <<complete, err, available, hdr>>
      BY <1>2 DEF Serve, OpenRefused, Copy, Spin, CopyFails, Return, Join, Disconnect, WakeAll,
                  Private, stream, request, vars
    <2> QED
      BY <2>1 DEF Status
  <1> QED
    BY <1>1, <1>2

\* AnswerHeaders fixes the part of the object that the request is about.
LEMMA AskPromise ==
  ASSUME Inductive, NEW c \in Clients, AnswerHeaders(c) PROVE Promise!Ask(c)
  <1> DEFINE w == [first |-> RangeStart(hdr[c]), last |-> RangeEnd(hdr[c], total)]
  <1>1. hdr[c] \in RangeHeader /\ total \in -1..Size /\ Satisfiable(hdr[c], total)
    BY SessionAssumption DEF Inductive, TypeOK, CountType, RequestType, AnswerHeaders
  <1>2. /\ RangeStart(hdr[c]) \in 0..Size /\ RangeEnd(hdr[c], total) \in -1..(Size - 1)
        /\ RangeEnd(hdr[c], total) >= 0 => RangeStart(hdr[c]) <= RangeEnd(hdr[c], total)
        /\ RangeEnd(hdr[c], total) = -1 => RangeStart(hdr[c]) = 0
    <2>1. RangeEnd(hdr[c], total) \in -1..(Size - 1) /\ RangeStart(hdr[c]) \in 0..Size
      BY <1>1, RangeEndType, RangeStartType
    <2>2. hdr[c].to \in Nat \cup {-1} /\ hdr[c].from \in Nat
      BY <1>1 DEF RangeHeader
    <2>3. CASE ~hdr[c].ranged
      <3>1. RangeEnd(hdr[c], total) = -1 /\ RangeStart(hdr[c]) = 0
        BY <2>3 DEF RangeEnd, RangeStart
      <3> QED
        BY <2>1, <3>1
    <2>4. CASE hdr[c].ranged
      <3>1. total >= 0 /\ hdr[c].from < total /\ (hdr[c].to = -1 \/ hdr[c].from <= hdr[c].to)
        BY <1>1, <2>4 DEF Satisfiable
      <3>2. RangeStart(hdr[c]) = hdr[c].from
        BY <2>4 DEF RangeStart
      <3>3. RangeEnd(hdr[c], total) = IF hdr[c].to = -1 \/ hdr[c].to >= total
                                      THEN total - 1 ELSE hdr[c].to
        BY <2>4 DEF RangeEnd
      <3>4. RangeEnd(hdr[c], total) >= hdr[c].from
        BY <1>1, <2>2, <3>1, <3>3
      <3> QED
        BY <2>1, <2>2, <3>2, <3>4
    <2> QED
      BY <2>3, <2>4
  <1>3. w \in Promise!Wishes
    BY <1>2 DEF Promise!Wishes
  <1>4. path[c] = "none" /\ outcome[c] = "none" /\ filePath # "none"
    BY DEF AnswerHeaders, Step, Inductive, Handlers, TypeOK, NameType
  <1>5. /\ path' = [path EXCEPT ![c] = filePath] /\ stop' = [stop EXCEPT ![c] = w.last]
        /\ offset' = [offset EXCEPT ![c] = w.first] /\ UNCHANGED <<hdr, outcome>>
    BY DEF AnswerHeaders
  <1>6. path \in [Clients -> {"none", "part", "final"}] /\ stop \in [Clients -> -1..(Size - 1)]
    BY DEF Inductive, TypeOK, RequestType
  <1>7. Asked' = [Asked EXCEPT ![c] = w]
    BY <1>4, <1>5, <1>6 DEF Asked, RangeStart
  <1>8. Verdict' = Verdict /\ Verdict[c] = "none" /\ Asked[c] = [first |-> 0, last |-> -2]
    BY <1>4, <1>5 DEF Verdict, Asked
  <1>9. Status' = Status /\ available' = available
    BY HandlerKeeps DEF Handle
  <1> HIDE DEF w
  <1>10. offset' = [offset EXCEPT ![c] = w.first]
    BY <1>5
  <1> QED
    BY <1>3, <1>7, <1>8, <1>9, <1>10
    DEF Promise!Ask, Promise!Nothing, Status, Asked, Verdict

\* Copy delivers bytes that have been announced and were asked for, or none.
LEMMA DeliverPromise ==
  ASSUME Inductive, NEW c \in Clients, Copy(c)
  PROVE  Promise!Deliver(c) \/ UNCHANGED Promise!vars
  <1>1. /\ UNCHANGED <<hdr, path, stop, outcome>>
        /\ path[c] # "none" /\ outcome[c] = "none"
    BY DEF Copy, Inductive, Handlers
  <1>2. PICK to \in Nat :
          /\ offset' = [offset EXCEPT ![c] = to]
          /\ to = offset[c] \/ to \in (offset[c] + 1)..Limit(c) \/ to = Limit(c)
    BY CopyType DEF Inductive, TypeOK
  <1>3. /\ offset[c] \in Nat /\ stop[c] \in -1..(Size - 1) /\ available \in 0..Size
        /\ Size \in Nat /\ offset \in [Clients -> Nat]
        /\ Limit(c) \in 0..available /\ (stop[c] >= 0 => Limit(c) <= stop[c] + 1)
    BY SessionAssumption, LimitType DEF Inductive, TypeOK, CountType, RequestType
  <1>4. offset[c] <= Limit(c)
    <2>1. offset[c] < available /\ Wanting(c)
      BY DEF Copy, Inductive, Bounded
    <2> QED
      BY <1>3, <2>1 DEF Limit, Wanting
  <1>5. Asked[c] = [first |-> RangeStart(hdr[c]), last |-> stop[c]] /\ Verdict[c] = "none"
    BY <1>1 DEF Asked, Verdict
  <1>6. Asked[c] # [first |-> 0, last |-> -2] /\ Asked[c].last = stop[c]
    BY <1>3, <1>5
  <1>7. Asked' = Asked /\ Verdict' = Verdict
    BY <1>1 DEF Asked, Verdict, RangeStart
  <1>8. Status' = Status /\ available' = available
    BY HandlerKeeps DEF Serve
  <1>9. CASE to = offset[c]
    BY <1>2, <1>3, <1>7, <1>8, <1>9 DEF Promise!vars, Status, Asked, Verdict
  <1>10. CASE to # offset[c]
    <2>1. to \in (offset[c] + 1)..available /\ (stop[c] >= 0 => to <= stop[c] + 1)
      BY <1>2, <1>3, <1>4, <1>10
    <2> QED
      BY <1>1, <1>2, <1>5, <1>6, <1>7, <1>8, <2>1
      DEF Promise!Deliver, Promise!Nothing, Status, Asked, Verdict
  <1> QED
    BY <1>9, <1>10

\* A handler that returns without an error has served its request.
LEMMA ServePromise ==
  ASSUME Inductive, framing # "close", NEW c \in Clients, Drained(c) \/ RangeSent(c),
         outcome'[c] = "done"
  PROVE  Promise!Serve(c)
  <1>1. UNCHANGED <<hdr, path, stop, offset>> /\ outcome' = [outcome EXCEPT ![c] = "done"]
    <2>1. UNCHANGED <<hdr, path, stop, offset>>
      BY DEF Drained, RangeSent, Return
    <2>2. \E o : outcome' = [outcome EXCEPT ![c] = o]
      BY DEF Drained, RangeSent, Return
    <2>3. outcome \in [Clients -> Outcomes]
      BY DEF Inductive, TypeOK, RequestType
    <2> QED
      BY <2>1, <2>2, <2>3
  <1>2. path[c] # "none" /\ outcome[c] = "none"
    BY DEF Drained, RangeSent, Return, Step, Inductive, Handlers
  <1>3. /\ offset[c] \in Nat /\ stop[c] \in -1..(Size - 1) /\ available \in 0..Size
        /\ Size \in Nat /\ offset[c] <= Size /\ (stop[c] >= 0 => offset[c] <= stop[c] + 1)
    BY SessionAssumption DEF Inductive, TypeOK, CountType, RequestType, Bounded
  <1>4. \/ stop[c] >= 0 /\ offset[c] > stop[c]
        \/ complete /\ ~err /\ offset[c] >= available /\ (stop[c] < 0 \/ offset[c] <= stop[c])
    <2>1. CASE RangeSent(c)
      BY <2>1, <1>3 DEF RangeSent, Wanting
    <2>2. CASE Drained(c)
      <3>1. ~err
        <4>1. outcome \in [Clients -> Outcomes]
          BY DEF Inductive, TypeOK, RequestType
        <4> QED
          BY <2>2, <4>1 DEF Drained, Return
      <3> QED
        BY <2>2, <3>1 DEF Drained, Wanting
    <2> QED
      BY <2>1, <2>2
  <1>5. complete /\ ~err => available = Size /\ Status = "ok"
    BY DEF Inductive, Whole, Status
  <1>6. IF stop[c] >= 0 THEN offset[c] = stop[c] + 1 ELSE offset[c] = Size /\ Status = "ok"
    <2>1. CASE stop[c] >= 0 /\ offset[c] > stop[c]
      BY <1>3, <2>1
    <2>2. CASE complete /\ ~err /\ offset[c] >= available /\ (stop[c] < 0 \/ offset[c] <= stop[c])
      <3>1. available = Size /\ Status = "ok"
        BY <1>5, <2>2
      <3>2. ~(stop[c] >= 0) /\ offset[c] = Size
        BY <1>3, <2>2, <3>1
      <3> QED
        BY <3>1, <3>2
    <2> QED
      BY <1>4, <2>1, <2>2
  <1>7. Asked[c] = [first |-> RangeStart(hdr[c]), last |-> stop[c]] /\ Verdict[c] = "none"
    BY <1>2 DEF Asked, Verdict
  <1>8. Asked[c] # [first |-> 0, last |-> -2] /\ Asked[c].last = stop[c]
    BY <1>3, <1>7
  <1>9. Asked' = Asked
    BY <1>1 DEF Asked, RangeStart
  <1>10. Verdict' = [Verdict EXCEPT ![c] = "served"]
    <2>1. outcome \in [Clients -> Outcomes]
      BY DEF Inductive, TypeOK, RequestType
    <2> QED
      BY <1>1, <2>1 DEF Verdict
  <1>11. Status' = Status /\ available' = available
    BY HandlerKeeps DEF Handle
  <1> QED
    BY <1>1, <1>6, <1>7, <1>8, <1>9, <1>10, <1>11
    DEF Promise!Serve, Promise!Nothing, Status, Asked, Verdict

\* Every other return lets its reader down.
LEMMA DenyPromise ==
  ASSUME Inductive, NEW c \in Clients, NEW o \in Outcomes \ {"none", "done"},
         UNCHANGED <<complete, err, available, hdr, path, stop, offset>>,
         outcome[c] = "none", outcome' = [outcome EXCEPT ![c] = o]
  PROVE  Promise!Deny(c)
  <1>1. Verdict' = [Verdict EXCEPT ![c] = "denied"] /\ Verdict[c] = "none"
    <2>1. outcome \in [Clients -> Outcomes]
      BY DEF Inductive, TypeOK, RequestType
    <2> QED
      BY <2>1 DEF Verdict
  <1>2. Asked' = Asked /\ Status' = Status
    BY DEF Asked, Status, RangeStart
  <1> QED
    BY <1>1, <1>2 DEF Promise!Deny, Status, Asked, Verdict

LEMMA HandlerPromise ==
  ASSUME Inductive, framing # "close", NEW c \in Clients,
         Handle(c) \/ Serve(c) \/ Join(c) \/ Disconnect(c) \/ WakeAll(c)
  PROVE  \/ Promise!Ask(c) \/ Promise!Deliver(c) \/ Promise!Serve(c) \/ Promise!Deny(c)
         \/ UNCHANGED Promise!vars
  <1>1. UNCHANGED <<complete, err, available, hdr>> /\ Status' = Status
    BY HandlerKeeps
  <1>2. CASE AnswerHeaders(c)
    BY <1>2, AskPromise
  <1>3. CASE Copy(c)
    BY <1>3, DeliverPromise
  <1>4. ASSUME NEW from, NEW o \in Outcomes \ {"none", "done"}, Return(c, from, o),
               from \in {"attached", "opening", "streaming", "spinning"}
        PROVE  Promise!Deny(c)
    BY <1>1, <1>4, DenyPromise DEF Return, Step, Inductive, Handlers
  <1>5. CASE AnswerBadGateway(c) \/ AnswerRangeError(c) \/ OpenFails(c) \/ Abort(c)
             \/ OpenRefused(c) \/ CopyFails(c)
    BY <1>4, <1>5 DEF AnswerBadGateway, AnswerRangeError, OpenFails, Abort, OpenRefused,
                      CopyFails, Outcomes
  <1>6. CASE RangeSent(c)
    <2>1. outcome \in [Clients -> Outcomes]
      BY DEF Inductive, TypeOK, RequestType
    <2> QED
      BY <1>6, <2>1, ServePromise DEF RangeSent, Return
  <1>7. CASE Drained(c)
    <2>1. outcome \in [Clients -> Outcomes]
      BY DEF Inductive, TypeOK, RequestType
    <2>2. CASE err
      BY <1>4, <1>7, <2>2 DEF Drained, Outcomes
    <2>3. CASE ~err
      BY <1>7, <2>1, <2>3, ServePromise DEF Drained, Return
    <2> QED
      BY <2>2, <2>3
  <1>8. CASE AddReader(c) \/ Open(c) \/ Wait(c) \/ RemoveReader(c) \/ Join(c) \/ Disconnect(c)
             \/ WakeAll(c) \/ Spin(c)
    <2>1. UNCHANGED <<hdr, path, stop, offset, outcome>>
      BY <1>8 DEF AddReader, Open, Wait, RemoveReader, Join, Disconnect, WakeAll, Spin, request, vars
    <2> QED
      BY <1>1, <2>1, ReadersStutter DEF Promise!vars, Status, Asked, Verdict
  <1> QED
    BY <1>2, <1>3, <1>5, <1>6, <1>7, <1>8 DEF Handle, Serve

LEMMA StepPromise ==
  Inductive /\ framing # "close" /\ [Next]_vars => [Promise!Next]_(Promise!vars)
  <1> SUFFICES ASSUME Inductive, framing # "close", [Next]_vars
               PROVE  [Promise!Next]_(Promise!vars)
    OBVIOUS
  <1>1. CASE Download
    BY <1>1, DownloadPromise DEF Promise!Next
  <1>2. ASSUME NEW c \in Clients,
               Handle(c) \/ Serve(c) \/ Join(c) \/ Disconnect(c) \/ WakeAll(c)
        PROVE  [Promise!Next]_(Promise!vars)
    BY <1>2, HandlerPromise DEF Promise!Next
  <1>3. ASSUME UNCHANGED <<request, complete, err, available>> PROVE UNCHANGED Promise!vars
    BY <1>3, ReadersStutter DEF request, Promise!vars, Status, Asked, Verdict
  <1>4. CASE TimerFires \/ (\E t \in callbacks : IdleCallback(t)) \/ Prefetch
    BY <1>3, <1>4, Elsewhere, BackgroundWakes DEF Runtime, stream
  <1>5. CASE UNCHANGED vars
    BY <1>3, <1>5 DEF vars, stream
  <1> QED
    BY <1>1, <1>2, <1>4, <1>5 DEF Next, Runtime, Requests, Finished

\* Unless upstream ends its body with its connection, a session keeps the
\* promise of Transfer: its readers see an announced byte or none, one verdict,
\* and never the end of half an object.
THEOREM SessionKeepsPromise == "close" \notin Framings /\ Spec => KeepsPromise
  <1> SUFFICES ASSUME "close" \notin Framings PROVE Spec => KeepsPromise
    OBVIOUS
  <1> QED
    BY InitPromise, StepPromise, FramingSound, InductiveInvariant, PTL
    DEF Spec, KeepsPromise, Promise!Spec
=============================================================================
