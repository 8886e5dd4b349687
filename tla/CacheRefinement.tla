-------------------------- MODULE CacheRefinement --------------------------
(***************************************************************************)
(* Cache implements Shelf: with its sessions, files and workers hidden, an *)
(* object goes through the states of docs/ARCHITECTURE.md and no others.   *)
(* A backup upstream that lags behind may put an older object in place of  *)
(* a newer one: the theorem is for caches without one.                     *)
(***************************************************************************)
EXTENDS CacheProofs

\* Until its response begins a request has been sent nothing.
Unanswered ==
  \A c \in Clients :
    client[c].pc \in {"lookup", "start", "wait", "open"} => client[c].gen = 0

\* What the refinement needs of a state.
Sound == Inductive /\ Unanswered

-----------------------------------------------------------------------------
(* The parts of the refinement mapping, one at a time.                     *)

LEMMA TransferView ==
  ASSUME NEW k \in Keys,
         \A j \in Keys \ {k} : Phase(j)' = Phase(j) /\ Partial(j)' = Partial(j)
  PROVE  /\ Phases' = [Phases EXCEPT ![k] = Phase(k)']
         /\ Partials' = [Partials EXCEPT ![k] = Partial(k)']
  BY DEF Phases, Partials

LEMMA ViewOfKey ==
  ASSUME NEW k \in Keys
  PROVE  Phases[k] = Phase(k) /\ Partials[k] = Partial(k)
  BY DEF Phases, Partials

LEMMA SameView ==
  ASSUME UNCHANGED <<part, live, session>>
  PROVE  UNCHANGED <<Phases, Partials>>
  BY DEF Phases, Partials, Phase, Partial

LEMMA ReaderView ==
  ASSUME NEW c \in Clients, NEW r, TypeOK, Put(c, r)
  PROVE  /\ Asked' = [Asked EXCEPT ![c] = Reader(c)']
         /\ client'[c] = r
         /\ Asked[c] = Reader(c)
  <1>1. /\ client'[c] = r
        /\ \A d \in Clients \ {c} : client'[d] = client[d]
    BY DEF Put, TypeOK, ClientType
  <1>2. \A d \in Clients \ {c} : Reader(d)' = Reader(d)
    BY <1>1 DEF Reader
  <1> QED
    BY <1>1, <1>2 DEF Asked

LEMMA SameReaders ==
  ASSUME UNCHANGED client
  PROVE  UNCHANGED Asked
  BY DEF Asked, Reader

-----------------------------------------------------------------------------
(* Transfers.                                                              *)

\* A download changes nothing of the other keys.
LEMMA OtherKeys ==
  ASSUME NEW s \in Sessions, TypeOK, Mapped, Download(s),
         NEW j \in Keys, j # session[s].key
  PROVE  Phase(j)' = Phase(j) /\ Partial(j)' = Partial(j)
  <1>1. /\ Active(s) /\ live'[j] = live[j] /\ part'[j] = part[j]
        /\ \A x \in Sessions \ {s} : session'[x] = session[x]
    BY DownloadFrame
  <1>2. /\ live[j] # "none" => live[j] \in Sessions \ {s}
        /\ part[j] # "none" => part[j] \in Sessions \ {s}
    BY <1>1 DEF Mapped, TypeOK, SessionType, WorldType
  <1> QED
    BY <1>1, <1>2 DEF Phase, Partial

\* The transfer of a session's key stands where the session does.
LEMMA PhaseOfSession ==
  ASSUME NEW s \in Sessions, TypeOK, Mapped, Download(s),
         NEW k \in Keys, k = session[s].key
  PROVE  /\ live[k] = s
         /\ Phase(k) = Standing(session[s].pc)
         /\ ~Exit(s) => UNCHANGED live /\ Phase(k)' = Standing(session'[s].pc)
  <1>1. Active(s) /\ s # "none"
    BY DownloadFrame, CacheAssumption
  <1>2. live[k] = s
    BY <1>1 DEF Mapped, OneTransfer
  <1>3. ASSUME ~Exit(s) PROVE live' = live
    BY <1>3, DownloadStays
  <1> QED
    BY <1>1, <1>2, <1>3 DEF Phase

LEMMA Stands ==
  /\ Standing("open") = "opening" /\ Standing("fetch") = "downloading"
  /\ Standing("body") = "downloading" /\ Standing("rename") = "downloading"
  /\ Standing("setpath") = "complete" /\ Standing("record") = "complete"
  /\ Standing("revalidate") = "over" /\ Standing("remove") = "over"
  /\ Standing("exit") = "over"
  BY DEF Standing

\* A step of a download that leaves the files and their generations alone.
LEMMA PartialKept ==
  ASSUME NEW s \in Sessions, TypeOK, Mapped, Download(s), UNCHANGED part,
         session'[s].gen = session[s].gen, NEW k \in Keys
  PROVE  Partial(k)' = Partial(k)
  <1>1. \A x \in Sessions \ {s} : session'[x] = session[x]
    BY DownloadFrame
  <1>2. part[k] \in Sessions \cup {"none"}
    BY DEF TypeOK, WorldType
  <1> QED
    BY <1>1, <1>2 DEF Partial

LEMMA DownloadImplements ==
  ASSUME "lag" \notin Faults, NEW s \in Sessions, Sound, Download(s)
  PROVE  (\E k \in Keys : Promise!Transfer(k)) \/ UNCHANGED Promise!vars
  <1> USE DEF disk, db
  <1>0. TypeOK /\ Mapped /\ Answered /\ PartExclusive /\ Promoted /\ "none" \notin Sessions
    BY CacheAssumption DEF Sound, Inductive
  <1>1. PICK k \in Keys : k = session[s].key
    BY <1>0, DownloadFrame
  <1> DEFINE ph == Standing(session[s].pc)
  <1>2. /\ live[k] = s /\ Phases[k] = ph /\ Partials[k] = Partial(k)
        /\ ~Exit(s) => Phases' = [Phases EXCEPT ![k] = Standing(session'[s].pc)]
        /\ Phases' = [Phases EXCEPT ![k] = Phase(k)']
        /\ Partials' = [Partials EXCEPT ![k] = Partial(k)']
        /\ [Phases EXCEPT ![k] = ph] = Phases
        /\ [Partials EXCEPT ![k] = Partial(k)] = Partials
    <2>1. \A j \in Keys \ {k} : Phase(j)' = Phase(j) /\ Partial(j)' = Partial(j)
      BY <1>0, <1>1, OtherKeys
    <2>2. /\ Phases' = [Phases EXCEPT ![k] = Phase(k)']
          /\ Partials' = [Partials EXCEPT ![k] = Partial(k)']
          /\ Phases[k] = Phase(k) /\ Partials[k] = Partial(k)
      BY <2>1, TransferView, ViewOfKey
    <2>3. live[k] = s /\ Phase(k) = ph /\ (~Exit(s) => Phase(k)' = Standing(session'[s].pc))
      BY <1>0, <1>1, PhaseOfSession
    <2> QED
      BY <2>2, <2>3 DEF Phases, Partials
  <1>3. /\ UNCHANGED <<upstream, client>> /\ UNCHANGED Asked
        /\ session[s] \in SessionFields
    BY <1>0, DownloadFrame, SameReaders DEF world, TypeOK, SessionType
  <1>4. ~Exit(s) => session'[s].key = k
    BY <1>0, <1>1, DownloadStays
  <1>5. part \in [Keys -> Sessions \cup {"none"}] /\ file \in [Keys -> Generations]
        /\ newest \in [Keys -> Generations] /\ upstream \in [Keys -> 1..MaxGen]
        /\ session \in [Sessions -> SessionFields]
    BY <1>0 DEF TypeOK, WorldType, SessionType
  <1>6. ASSUME UNCHANGED <<file, newest, part>>, session'[s].gen = session[s].gen, ~Exit(s),
               Standing(session'[s].pc) = ph
        PROVE  UNCHANGED Promise!vars
    <2>1. Partials' = Partials /\ Phases' = Phases
      BY <1>0, <1>1, <1>2, <1>6, PartialKept
    <2> QED
      BY <1>3, <1>6, <2>1 DEF Promise!vars
  <1> HIDE DEF ph
  <1> DEFINE Goal == (\E j \in Keys : Promise!Transfer(j)) \/ UNCHANGED Promise!vars
  <1> SUFFICES Goal
    OBVIOUS
  <1> DEFINE to == Standing(session'[s].pc)
  <1>7. ~Exit(s) => Promise!Goes(k, ph, to)
    BY <1>2 DEF Promise!Goes
  <1>8. ASSUME \E j \in Keys : j = k /\ Promise!Transfer(j) PROVE Goal
    BY <1>8
  <1>9. k \in Keys
    BY <1>0, <1>1, DownloadFrame
  <1>10. ph = to => Phases' = Phases \/ Exit(s)
    BY <1>2
  <1> HIDE DEF to, Goal
  <1>11. CASE OpenPart(s)
    <2>1. session[s].pc = "open" /\ session'[s].pc = "fetch" /\ session'[s].gen = 0
      BY <1>0, <1>11, DownloadFields DEF OpenPart, Stage, Answered
    <2>2. Partial(k)' = 0 /\ UNCHANGED <<file, newest>> /\ ~Exit(s)
      BY <1>0, <1>1, <1>5, <1>11, <2>1 DEF OpenPart, Others, Partial, Exit
    <2>3. Promise!Goes(k, "opening", "downloading")
      BY <1>7, <2>1, <2>2, Stands DEF ph, to
    <2>4. Promise!Open(k)
      BY <1>2, <1>3, <2>2, <2>3 DEF Promise!Open
    <2> QED
      BY <1>8, <1>9, <2>4 DEF Promise!Transfer
  <1>12. ASSUME NEW g \in Generations, FetchBody(s, g) PROVE Goal
    <2>1. session[s].pc = "fetch" /\ session'[s].pc = "body" /\ session'[s].gen = g
      BY <1>0, <1>12, DownloadFields DEF FetchBody
    <2>2. part[k] = s /\ UNCHANGED <<file, newest, part>> /\ ~Exit(s)
      BY <1>0, <1>1, <1>12, <2>1 DEF FetchBody, PartExclusive, Others, Exit
    <2>3. Partial(k) = 0 /\ Partial(k)' = g
      BY <1>0, <2>1, <2>2 DEF Partial, Answered
    <2>4. g = upstream[k] /\ newest[k] <= g /\ g # 0
      BY <1>0, <1>1, <1>5, <1>9, <1>12 DEF FetchBody, Published, Promoted
    <2>5. ph = "downloading" /\ to = "downloading"
      BY <2>1, Stands DEF ph, to
    <2>6. Phases' = Phases /\ Phases[k] = "downloading" /\ Partials[k] = 0
          /\ Partials' = [Partials EXCEPT ![k] = g]
      BY <1>2, <1>10, <2>2, <2>3, <2>5
    <2>7. upstream[k] \in Int
      BY <1>5, <1>9
    <2>8. g \in Generations \ {0} /\ newest[k] <= g /\ g <= upstream[k]
      BY <2>4, <2>7
    <2>9. Promise!Respond(k)
      BY <1>3, <2>2, <2>6, <2>8 DEF Promise!Respond
    <2> QED
      BY <1>8, <1>9, <2>9 DEF Promise!Transfer
  <1>13. ASSUME ph \in {"opening", "downloading"}, to = "over", ~Exit(s),
                Partials' = Partials \/ Partial(k)' = 0, UNCHANGED <<file, newest>>
         PROVE  Goal
    <2>1. Promise!KeepsOrDrops(k)
      BY <1>2, <1>13 DEF Promise!KeepsOrDrops
    <2>2. Promise!Goes(k, "opening", "over") \/ Promise!Goes(k, "downloading", "over")
      BY <1>7, <1>13
    <2>3. Promise!Discard(k)
      BY <1>3, <1>13, <2>1, <2>2 DEF Promise!Discard
    <2> QED
      BY <1>8, <1>9, <2>3 DEF Promise!Transfer
  <1>14. CASE NotModified(s)
    <2>1. session[s].pc = "fetch" /\ session'[s].pc = "revalidate" /\ ~Exit(s)
      BY <1>0, <1>14, DownloadFields DEF NotModified, Exit
    <2>2. ph = "downloading" /\ to = "over"
      BY <2>1, Stands DEF ph, to
    <2>3. /\ UNCHANGED <<file, newest>> /\ session'[s].gen = session[s].gen
          /\ part' = part \/ part'[k] = "none"
      BY <1>0, <1>1, <1>5, <1>9, <1>14, DownloadFields DEF NotModified, Remove, Others
    <2>4. Partials' = Partials \/ Partial(k)' = 0
      <3>1. CASE part' = part
        BY <1>0, <1>2, <1>9, <2>3, <3>1, PartialKept
      <3>2. CASE part'[k] = "none"
        BY <3>2 DEF Partial
      <3> QED
        BY <2>3, <3>1, <3>2
    <2> QED
      BY <1>13, <2>1, <2>2, <2>3, <2>4
  <1>15. CASE TransferFails(s)
    <2>1. /\ session[s].pc \in {"open", "fetch", "body", "rename"}
          /\ session'[s].pc \in {"remove", "exit"} /\ session'[s].gen = session[s].gen
          /\ UNCHANGED <<file, newest, part>> /\ ~Exit(s)
      BY <1>0, <1>15, DownloadFields DEF TransferFails, Finish, Others, Exit
    <2>2. ph \in {"opening", "downloading"} /\ to = "over"
      BY <2>1, Stands DEF ph, to
    <2>3. Partials' = Partials
      BY <1>0, <1>2, <1>9, <2>1, PartialKept
    <2> QED
      BY <1>13, <2>1, <2>2, <2>3
  <1>16. CASE RemovePart(s)
    <2>1. /\ session[s].pc = "remove" /\ session'[s].pc = "exit" /\ ~Exit(s)
          /\ session'[s].gen = session[s].gen
          /\ UNCHANGED <<file, newest>>
          /\ part' = part \/ part'[k] = "none"
      BY <1>0, <1>1, <1>5, <1>9, <1>16, StageFrame DEF RemovePart, Remove, Stage, Others, Exit
    <2>2. ph = "over" /\ to = "over"
      BY <2>1, Stands DEF ph, to
    <2>3. CASE part' = part
      <3>1. Standing(session'[s].pc) = Standing(session[s].pc)
        BY <2>1, Stands
      <3>2. UNCHANGED Promise!vars
        BY <1>6, <2>1, <2>3, <3>1 DEF ph
      <3> QED
        BY <3>2 DEF Goal
    <2>4. CASE part'[k] = "none"
      <3>1. Partial(k)' = 0
        BY <2>4 DEF Partial
      <3>2. Phases' = Phases /\ Phases[k] = "over" /\ Partials' = [Partials EXCEPT ![k] = 0]
        BY <1>2, <1>10, <2>1, <2>2, <3>1
      <3>3. Promise!Remove(k)
        BY <1>3, <2>1, <3>2 DEF Promise!Remove
      <3> QED
        BY <1>8, <1>9, <3>3 DEF Promise!Transfer
    <2> QED
      BY <2>1, <2>3, <2>4
  <1>17. CASE Rename(s)
    <2>1. session[s].pc = "rename" /\ session'[s].pc = "setpath" /\ ~Exit(s) /\ part[k] = s
      BY <1>0, <1>1, <1>17, DownloadFields DEF Rename, PartExclusive, Exit
    <2>2. Promise!Goes(k, "downloading", "complete")
      BY <1>7, <2>1, Stands DEF ph, to
    <2>3. /\ file' = [file EXCEPT ![k] = session[s].gen]
          /\ part'[k] = "none" /\ file'[k] = session[s].gen
          /\ newest' = [newest EXCEPT ![k] = IF file'[k] > @ THEN file'[k] ELSE @]
      BY <1>1, <1>5, <1>9, <1>17, <2>1 DEF Rename
    <2>4. Partial(k) = session[s].gen /\ Partial(k)' = 0
      BY <1>0, <2>1, <2>3 DEF Partial
    <2>5. session[s].gen # 0 /\ session[s].gen >= newest[k]
      BY <1>0, <1>1, <2>1, DownloadFrame, <1>17 DEF Answered, Promoted, Active
    <2>6. session[s].gen \in Int /\ newest[k] \in Int
      BY <1>3, <1>5, <1>9, CacheAssumption DEF SessionFields, Generations
    <2>7. newest' = [newest EXCEPT ![k] = session[s].gen]
      <3>1. (IF session[s].gen > newest[k] THEN session[s].gen ELSE newest[k]) = session[s].gen
        BY <2>5, <2>6
      <3>2. newest' = [newest EXCEPT ![k] = IF session[s].gen > newest[k] THEN session[s].gen
                                            ELSE newest[k]]
        BY <2>3
      <3> QED
        BY <3>1, <3>2
    <2>8. Promise!Promote(k)
      BY <1>2, <1>3, <2>2, <2>3, <2>4, <2>5, <2>7 DEF Promise!Promote
    <2> QED
      BY <1>8, <1>9, <2>8 DEF Promise!Transfer
  <1>18. ASSUME UNCHANGED <<file, newest, part>>, session'[s].gen = session[s].gen, ~Exit(s),
                ph = "complete", to = "over"
         PROVE  Goal
    <2>1. Partials' = Partials /\ Promise!Goes(k, "complete", "over")
      BY <1>0, <1>2, <1>7, <1>9, <1>18, PartialKept
    <2>2. Promise!Record(k)
      BY <1>3, <1>18, <2>1 DEF Promise!Record
    <2> QED
      BY <1>8, <1>9, <2>2 DEF Promise!Transfer
  <1>19. ASSUME UNCHANGED <<file, newest, part>>, session'[s].gen = session[s].gen, ~Exit(s),
                to = ph
         PROVE  Goal
    BY <1>6, <1>19 DEF to, Goal
  <1>20. CASE BodyEOF(s) \/ SetFilePath(s)
    <2>1. /\ UNCHANGED <<file, newest, part>> /\ ~Exit(s) /\ session'[s].gen = session[s].gen
          /\ \/ session[s].pc = "body" /\ session'[s].pc = "rename"
             \/ session[s].pc = "setpath" /\ session'[s].pc = "record"
      BY <1>0, <1>20, DownloadFields DEF BodyEOF, SetFilePath, Others, Exit
    <2> QED
      BY <1>19, <2>1, Stands DEF ph, to
  <1>21. CASE Record(s) \/ Revalidate(s) \/ StoreFails(s)
    <2>1. /\ UNCHANGED <<file, newest, part>> /\ ~Exit(s) /\ session'[s].gen = session[s].gen
          /\ session[s].pc \in {"record", "revalidate"} /\ session'[s].pc \in {"remove", "exit"}
      BY <1>0, <1>21, DownloadFields DEF Record, Revalidate, StoreFails, Finish, Others, Exit
    <2>2. to = "over" /\ ph \in {"complete", "over"}
      BY <2>1, Stands DEF ph, to
    <2> QED
      BY <1>18, <1>19, <2>1, <2>2
  <1>22. CASE Exit(s)
    <2>1. session[s].pc = "exit" /\ live'[k] = "none" /\ UNCHANGED <<file, newest, part>>
      BY <1>0, <1>1, <1>9, <1>22 DEF Exit, Others, TypeOK, SessionType
    <2>2. part[k] = s => session'[s].gen = session[s].gen
      BY <1>1, <1>5, <1>22 DEF Exit, SessionFields
    <2>3. Partial(k)' = Partial(k)
      BY <1>0, <1>5, <1>9, <2>1, <2>2, DownloadFrame DEF Partial
    <2>4. ph = "over" /\ Phase(k)' = "idle"
      BY <2>1, Stands DEF ph, Phase
    <2>5. Partials' = Partials /\ Promise!Goes(k, "over", "idle")
      BY <1>2, <2>3, <2>4 DEF Promise!Goes
    <2>6. Promise!End(k)
      BY <1>3, <2>1, <2>5 DEF Promise!End
    <2> QED
      BY <1>8, <1>9, <2>6 DEF Promise!Transfer
  <1> QED
    BY <1>11, <1>12, <1>14, <1>15, <1>16, <1>17, <1>20, <1>21, <1>22 DEF Download

\* getOrStart begins a transfer or joins the one under way.
LEMMA StartedImplements ==
  ASSUME NEW k \in Keys, NEW p \in Generations, NEW s \in Sessions, Sound,
         Started(k, p, s), UNCHANGED Asked
  PROVE  (\E j \in Keys : Promise!Transfer(j)) \/ UNCHANGED Promise!vars
  <1> USE DEF disk, db, world
  <1>0. TypeOK /\ Mapped /\ "none" \notin Sessions
    BY CacheAssumption DEF Sound, Inductive
  <1>1. UNCHANGED <<upstream, file, part, newest>>
    BY <1>0, StartedFrame
  <1>2. CASE UNCHANGED <<live, session>>
    <2>1. UNCHANGED <<Phases, Partials>>
      BY <1>1, <1>2, SameView
    <2> QED
      BY <1>1, <2>1 DEF Promise!vars
  <1>3. ASSUME live[k] = "none", live'[k] = s, session[s].pc = "gone",
               session'[s].pc = "open", session'[s].gen = 0,
               \A x \in Sessions \ {s} : session'[x] = session[x],
               \A j \in Keys \ {k} : live'[j] = live[j],
               \A j \in Keys : part[j] = s => j = k
        PROVE  Promise!Begin(k)
    <2>0. /\ \A j \in Keys : part[j] \in Sessions \cup {"none"}
          /\ \A j \in Keys : live[j] # "none" => live[j] \in Sessions \ {s}
      BY <1>0, <1>3 DEF TypeOK, WorldType, SessionType, Mapped, Active
    <2>1. \A j \in Keys \ {k} : Phase(j)' = Phase(j) /\ Partial(j)' = Partial(j)
      <3>1. ASSUME NEW j \in Keys \ {k} PROVE Phase(j)' = Phase(j) /\ Partial(j)' = Partial(j)
        BY <1>1, <1>3, <2>0 DEF Phase, Partial
      <3> QED
        BY <3>1
    <2>2. Phase(k) = "idle" /\ Phase(k)' = "opening"
      BY <1>0, <1>3, Stands DEF Phase
    <2>3. Partial(k)' = Partial(k) \/ Partial(k)' = 0
      BY <1>1, <1>3, <2>0 DEF Partial
    <2>4. /\ Phases' = [Phases EXCEPT ![k] = "opening"] /\ Phases[k] = "idle"
          /\ Partials' = [Partials EXCEPT ![k] = Partial(k)'] /\ Partials[k] = Partial(k)
      BY <2>1, <2>2, TransferView, ViewOfKey
    <2>5. [Partials EXCEPT ![k] = Partial(k)] = Partials
      BY <2>4 DEF Partials
    <2>6. Promise!KeepsOrDrops(k)
      BY <2>3, <2>4, <2>5 DEF Promise!KeepsOrDrops
    <2>7. Promise!Goes(k, "idle", "opening")
      BY <2>4 DEF Promise!Goes
    <2> QED
      BY <1>1, <2>6, <2>7 DEF Promise!Begin
  <1> QED
    BY <1>0, <1>2, <1>3, StartedFrame DEF Promise!Transfer

-----------------------------------------------------------------------------
(* Requests.                                                               *)

\* What a step of a request means to who waits for the response: it is asked
\* for, it is over, it is on its way, or it is there.
Asks(c) ==
  \E k \in Keys : /\ client[c].pc = "idle" /\ client'[c].pc \in {"start", "lookup"}
                  /\ client'[c].key = k /\ client'[c].floor = newest[k]
                  /\ client'[c].gen = 0

Leaves(c) == client'[c].pc \in {"idle", "watch", "ahead", "tail"} /\ client'[c].gen = 0

SameRequest(c) == client'[c].key = client[c].key /\ client'[c].floor = client[c].floor

Waits(c) ==
  /\ \/ /\ client[c].pc \in {"lookup", "start", "wait"}
        /\ client'[c].pc \in {"start", "wait", "open", "tail"}
     \/ client[c].pc = "touch" /\ client'[c].pc = "tail"
  /\ SameRequest(c) /\ client'[c].gen = client[c].gen

Answers(c) ==
  /\ client[c].pc \in {"lookup", "open"} /\ client'[c].pc \in {"touch", "tail"}
  /\ client'[c].pc = "touch" => client'[c].gen # 0
  /\ SameRequest(c) /\ client'[c].gen \in {file[client[c].key], Partial(client[c].key)}

LEMMA RequestMeans ==
  ASSUME NEW c \in Clients, TypeOK, Request(c)
  PROVE  Asks(c) \/ Leaves(c) \/ Waits(c) \/ Answers(c)
  <1> DEFINE r == client[c]
             q == client'[c]
  <1>0. client \in [Clients -> ClientFields] /\ r \in ClientFields
    BY DEF TypeOK, ClientType
  <1>1. ASSUME NEW f, Put(c, f) PROVE q = f
    BY <1>0, <1>1 DEF Put
  <1> HIDE DEF q
  <1>2. ASSUME NEW k \in Keys, Get(c, k) PROVE Asks(c) \/ Leaves(c)
    <2>1. CASE q = [Idle EXCEPT !.pc = "tail", !.key = k]
      BY <2>1 DEF Idle, Leaves, q
    <2>2. CASE q = [Idle EXCEPT !.pc = IF row[k].gen = 0 THEN "start" ELSE "lookup",
                            !.key = k, !.floor = newest[k],
                            !.snap = [gen |-> row[k].gen, created |-> row[k].created]]
      <3>1. /\ q.pc \in {"start", "lookup"} /\ q.key = k /\ q.floor = newest[k] /\ q.gen = 0
        BY <2>2 DEF Idle
      <3> QED
        BY <1>2, <3>1 DEF Asks, Get, q
    <2> QED
      BY <1>1, <1>2, <2>1, <2>2 DEF Get
  <1>3. ASSUME NEW k \in Keys, Prefetch(c, k) PROVE Leaves(c)
    <2>1. q = [Idle EXCEPT !.pc = "ahead", !.key = k, !.prior = row[k].gen]
      BY <1>1, <1>3 DEF Prefetch
    <2> QED
      BY <2>1 DEF Idle, Leaves, q
  <1>4. CASE Cached(c)
    <2>1. q = Idle \/ \E k : q = [Idle EXCEPT !.pc = "watch", !.key = k]
      BY <1>1, <1>4 DEF Cached
    <2>2. q.pc \in {"idle", "watch"} /\ q.gen = 0
      <3>1. CASE q = Idle
        BY <3>1 DEF Idle
      <3>2. ASSUME NEW k, q = [Idle EXCEPT !.pc = "watch", !.key = k]
            PROVE  q.pc = "watch" /\ q.gen = 0
        BY <3>2 DEF Idle
      <3> QED
        BY <2>1, <3>1, <3>2
    <2> QED
      BY <2>2 DEF Leaves, q
  <1>5. CASE Watch(c) \/ \E s \in Sessions : PrefetchStarts(c, s)
    <2>1. q = Idle
      BY <1>1, <1>5 DEF Watch, PrefetchStarts
    <2> QED
      BY <2>1 DEF Idle, Leaves, q
  <1>6. CASE Miss(c)
    <2>1. q = [r EXCEPT !.pc = "start", !.prior = IF file[r.key] = 0 THEN 0 ELSE r.snap.gen]
      BY <1>1, <1>6 DEF Miss
    <2>2. q.pc = "start" /\ q.key = r.key /\ q.floor = r.floor /\ q.gen = r.gen
      BY <1>0, <2>1 DEF ClientFields
    <2> QED
      BY <1>6, <2>2 DEF Miss, Waits, SameRequest, q
  <1>7. CASE Touch(c)
    <2>1. q = [r EXCEPT !.pc = "tail"]
      BY <1>1, <1>7 DEF Touch
    <2>2. q.pc = "tail" /\ q.key = r.key /\ q.floor = r.floor /\ q.gen = r.gen
      BY <1>0, <2>1 DEF ClientFields
    <2> QED
      BY <1>7, <2>2 DEF Touch, Waits, SameRequest, q
  <1>8. ASSUME NEW s \in Sessions, Start(c, s) PROVE Waits(c)
    <2>1. q = [r EXCEPT !.pc = "wait", !.in = s, !.prior = 0, !.snap = NoSnap]
      BY <1>1, <1>8 DEF Start
    <2>2. q.pc = "wait" /\ q.key = r.key /\ q.floor = r.floor /\ q.gen = r.gen
      BY <1>0, <2>1 DEF ClientFields
    <2> QED
      BY <1>8, <2>2 DEF Start, Waits, SameRequest, q
  <1>9. CASE Headers(c)
    <2>1. PICK p, e : q = [r EXCEPT !.pc = IF e THEN "tail" ELSE "open", !.in = "none", !.path = p]
      BY <1>1, <1>9 DEF Headers
    <2>2. q.pc \in {"open", "tail"} /\ q.key = r.key /\ q.floor = r.floor /\ q.gen = r.gen
      BY <1>0, <2>1 DEF ClientFields
    <2> QED
      BY <1>9, <2>2 DEF Headers, Waits, SameRequest, q
  <1>10. CASE Hit(c)
    <2>1. q = [r EXCEPT !.pc = "touch", !.gen = file[r.key], !.snap = NoSnap]
      BY <1>1, <1>10 DEF Hit
    <2>2. q.pc = "touch" /\ q.key = r.key /\ q.floor = r.floor /\ q.gen = file[r.key]
      BY <1>0, <2>1 DEF ClientFields
    <2> QED
      BY <1>10, <2>2 DEF Hit, Answers, SameRequest, q
  <1>11. CASE OpenFile(c)
    <2>1. q = [r EXCEPT !.pc = "tail", !.gen = Opened(c), !.path = "part"]
      BY <1>1, <1>11 DEF OpenFile
    <2>2. q.pc = "tail" /\ q.key = r.key /\ q.floor = r.floor /\ q.gen = Opened(c)
      BY <1>0, <2>1 DEF ClientFields
    <2>3. Opened(c) \in {file[r.key], Partial(r.key)}
      BY DEF Opened
    <2> QED
      BY <1>11, <2>2, <2>3 DEF OpenFile, Answers, SameRequest, q
  <1> QED
    BY <1>2, <1>3, <1>4, <1>5, <1>6, <1>7, <1>8, <1>9, <1>10, <1>11 DEF Request

LEMMA UnansweredStep == TypeOK /\ Mapped /\ Unanswered /\ [Next]_vars => Unanswered'
  <1> SUFFICES ASSUME TypeOK, Mapped, Unanswered, [Next]_vars PROVE Unanswered'
    OBVIOUS
  <1>1. ASSUME NEW c \in Clients, Request(c) PROVE Unanswered'
    <2>1. client'[c].pc \in {"lookup", "start", "wait", "open"} => client'[c].gen = 0
      BY <1>1, RequestMeans DEF Asks, Leaves, Waits, Answers, Unanswered
    <2> QED
      BY <1>1, <2>1, RequestFrame DEF Unanswered
  <1>2. CASE Crash
    BY <1>2 DEF Crash, Restarted, Unanswered, Idle
  <1>3. CASE UNCHANGED client
    BY <1>3 DEF Unanswered
  <1> QED
    BY <1>1, <1>2, <1>3, ClientUntouched

\* What the step means to the reader of the abstract specification.
LEMMA ReaderSteps ==
  ASSUME NEW c \in Clients, Sound, Request(c)
  PROVE  \/ UNCHANGED Asked
         \/ Asked' = [Asked EXCEPT ![c] = Nobody]
         \/ \E k \in Keys : /\ Asked[c] = Nobody
                            /\ Asked' = [Asked EXCEPT ![c] =
                                            [key |-> k, floor |-> newest[k], got |-> 0]]
         \/ /\ Asked[c].key \in Keys /\ Asked[c].got = 0
            /\ \E e \in {file[Asked[c].key], Partial(Asked[c].key)} \ {0} :
                 Asked' = [Asked EXCEPT ![c].got = e]
  <1>0. TypeOK /\ Mapped /\ Unanswered
    BY DEF Sound, Inductive
  <1>1. /\ Asked' = [Asked EXCEPT ![c] = Reader(c)']
        /\ Asked[c] = Reader(c)
        /\ [Asked EXCEPT ![c] = Reader(c)] = Asked
    <2>1. PICK r : Put(c, r)
      BY DEF Request, Get, Hit, Miss, Touch, Start, Headers, OpenFile, Cached, Watch, Prefetch,
             PrefetchStarts
    <2>2. Asked' = [Asked EXCEPT ![c] = Reader(c)'] /\ Asked[c] = Reader(c)
      BY <1>0, <2>1, ReaderView
    <2> QED
      BY <2>2 DEF Asked
  <1>2. CASE Asks(c)
    <2>1. PICK k \in Keys : Reader(c) = Nobody
                          /\ Reader(c)' = [key |-> k, floor |-> newest[k], got |-> 0]
      BY <1>2 DEF Asks, Reader
    <2> QED
      BY <1>1, <2>1
  <1>3. CASE Leaves(c)
    <2>1. Reader(c)' = Nobody
      BY <1>3 DEF Leaves, Reader, Nobody
    <2> QED
      BY <1>1, <2>1
  <1>4. CASE Waits(c)
    <2>1. Reader(c)' \in {Reader(c), Nobody}
      BY <1>4 DEF Waits, SameRequest, Reader, Nobody
    <2> QED
      BY <1>1, <2>1
  <1>5. CASE Answers(c)
    <2>1. client[c].key \in Keys /\ client[c].gen = 0
      BY <1>0, <1>5 DEF Mapped, Unanswered, Answers
    <2>2. Reader(c) = [key |-> client[c].key, floor |-> client[c].floor, got |-> 0]
      BY <1>5, <2>1 DEF Answers, Reader
    <2>3. CASE client'[c].gen = 0
      <3>1. Reader(c)' = Nobody
        BY <1>5, <2>3 DEF Answers, Reader, Nobody
      <3> QED
        BY <1>1, <3>1
    <2>4. CASE client'[c].gen # 0
      <3> DEFINE e == client'[c].gen
      <3>1. Reader(c)' = [Reader(c) EXCEPT !.got = e]
        BY <1>5, <2>2, <2>4 DEF Answers, SameRequest, Reader
      <3>2. e \in {file[Reader(c).key], Partial(Reader(c).key)} \ {0}
            /\ Reader(c).key \in Keys /\ Reader(c).got = 0
        BY <1>5, <2>1, <2>2, <2>4 DEF Answers
      <3> HIDE DEF e
      <3>3. Asked' = [Asked EXCEPT ![c].got = e]
        BY <1>1, <3>1
      <3> QED
        BY <1>1, <3>2, <3>3
    <2> QED
      BY <2>3, <2>4
  <1> QED
    BY <1>0, <1>2, <1>3, <1>4, <1>5, RequestMeans

LEMMA RequestImplements ==
  ASSUME NEW c \in Clients, Sound, Request(c)
  PROVE  [Promise!Next]_(Promise!vars)
  <1> USE DEF disk, db, world
  <1>0. TypeOK /\ Mapped
    BY DEF Sound, Inductive
  <1>1. ASSUME Quiet PROVE [Promise!Next]_(Promise!vars)
    <2>1. UNCHANGED <<upstream, file, newest, Phases, Partials>>
      BY <1>1, SameView DEF Quiet
    <2>2. CASE UNCHANGED Asked
      BY <2>1, <2>2 DEF Promise!vars
    <2>3. CASE Asked' = [Asked EXCEPT ![c] = Nobody]
      <3>1. Promise!Leave(c)
        BY <2>1, <2>3 DEF Promise!Leave, Promise!Nobody, Nobody
      <3> QED
        BY <3>1 DEF Promise!Next
    <2>4. ASSUME NEW k \in Keys, Asked[c] = Nobody,
                 Asked' = [Asked EXCEPT ![c] = [key |-> k, floor |-> newest[k], got |-> 0]]
          PROVE  [Promise!Next]_(Promise!vars)
      <3>1. Promise!Ask(c, k)
        BY <2>1, <2>4 DEF Promise!Ask, Promise!Nobody, Nobody
      <3> QED
        BY <3>1 DEF Promise!Next
    <2>5. ASSUME Asked[c].key \in Keys, Asked[c].got = 0,
                 NEW e \in {file[Asked[c].key], Partial(Asked[c].key)} \ {0},
                 Asked' = [Asked EXCEPT ![c].got = e]
          PROVE  [Promise!Next]_(Promise!vars)
      <3>1. Partials[Asked[c].key] = Partial(Asked[c].key)
        BY <2>5, ViewOfKey
      <3>2. Promise!Answer(c)
        BY <2>1, <2>5, <3>1 DEF Promise!Answer
      <3> QED
        BY <3>2 DEF Promise!Next
    <2> QED
      BY <2>2, <2>3, <2>4, <2>5, ReaderSteps
  <1>2. ASSUME NEW s \in Sessions, Start(c, s) \/ PrefetchStarts(c, s),
               client[c].key \in Keys, client[c].prior \in Generations,
               Started(client[c].key, client[c].prior, s)
        PROVE  [Promise!Next]_(Promise!vars)
    <2>0. client \in [Clients -> ClientFields]
      BY <1>0 DEF TypeOK, ClientType
    <2>1. \/ /\ client[c].pc = "start" /\ client'[c].pc = "wait"
             /\ SameRequest(c) /\ client'[c].gen = client[c].gen
          \/ client[c].pc = "ahead" /\ client'[c].pc = "idle"
      <3>1. CASE Start(c, s)
        BY <2>0, <3>1 DEF Start, Put, ClientFields, SameRequest
      <3>2. CASE PrefetchStarts(c, s)
        BY <2>0, <3>2 DEF PrefetchStarts, Put, Idle
      <3> QED
        BY <1>2, <3>1, <3>2
    <2>2. Reader(c)' = Reader(c)
      BY <2>1 DEF Reader, SameRequest, Nobody
    <2>3. UNCHANGED Asked
      BY <1>0, <2>2, RequestFrame DEF Asked, Reader
    <2>4. (\E j \in Keys : Promise!Transfer(j)) \/ UNCHANGED Promise!vars
      BY <1>2, <2>3, StartedImplements
    <2> QED
      BY <2>4 DEF Promise!Next
  <1> QED
    BY <1>0, <1>1, <1>2, RequestSteps

-----------------------------------------------------------------------------
(* The workers and the world.                                              *)

\* Somebody removes the file of one key, and nothing else happens.
LEMMA Evicts ==
  ASSUME UNCHANGED <<part, live, session, client, upstream, newest>>,
         UNCHANGED file \/ \E k \in Keys : file' = [file EXCEPT ![k] = 0]
  PROVE  [Promise!Next]_(Promise!vars)
  <1>1. UNCHANGED <<Phases, Partials, Asked>>
    BY SameView, SameReaders
  <1>2. CASE UNCHANGED file
    BY <1>1, <1>2 DEF Promise!vars
  <1>3. ASSUME NEW k \in Keys, file' = [file EXCEPT ![k] = 0] PROVE Promise!Evict(k)
    BY <1>1, <1>3 DEF Promise!Evict
  <1> QED
    BY <1>2, <1>3 DEF Promise!Next

LEMMA CleanupImplements ==
  ASSUME TypeOK, Counted, Cleanup
  PROVE  [Promise!Next]_(Promise!vars)
  <1>1. UNCHANGED <<part, live, session, client, upstream, newest>>
    BY CleanupSteps DEF Spared, world
  <1>2. CASE Unlink
    <2>1. file' = [file EXCEPT ![cleaner.at.key] = 0]
      BY <1>2 DEF Unlink
    <2>2. cleaner.at.key \notin Keys => file' = file
      BY <2>1 DEF TypeOK, WorldType
    <2> QED
      BY <1>1, <2>1, <2>2, Evicts
  <1>3. CASE ~Unlink
    <2>1. UNCHANGED file
      BY <1>3 DEF Cleanup, CleanupStarts, Candidate, DeleteWatch, DeleteRow, Skip, TotalSize,
                  List, QueryFails, CleanupEnds
    <2> QED
      BY <1>1, <2>1, Evicts
  <1> QED
    BY <1>2, <1>3

LEMMA RefreshImplements ==
  ASSUME Sound, Refresh
  PROVE  [Promise!Next]_(Promise!vars)
  <1>0. TypeOK
    BY DEF Sound, Inductive
  <1>1. UNCHANGED client /\ UNCHANGED Asked
    BY <1>0, RefreshSteps, SameReaders
  <1>2. ASSUME NEW k \in Keys, NEW p \in Generations, NEW s \in Sessions, Started(k, p, s)
        PROVE  [Promise!Next]_(Promise!vars)
    BY <1>1, <1>2, StartedImplements DEF Promise!Next
  <1>3. CASE Spared /\ UNCHANGED <<world, disk, row>>
    BY <1>1, <1>3, Evicts DEF Spared, world, disk
  <1> QED
    BY <1>0, <1>2, <1>3, RefreshSteps

LEMMA WorldImplements ==
  ASSUME TypeOK, Tick \/ (\E k \in Keys : Publish(k) \/ RemoveByHand(k)) \/ UNCHANGED vars
  PROVE  [Promise!Next]_(Promise!vars)
  <1>1. UNCHANGED <<part, live, session, client, newest>>
    BY WorldSteps DEF Spared
  <1>2. CASE Tick \/ UNCHANGED vars
    BY <1>1, <1>2, Evicts DEF Tick, vars, world, disk
  <1>3. ASSUME NEW k \in Keys, RemoveByHand(k) PROVE [Promise!Next]_(Promise!vars)
    BY <1>1, <1>3, Evicts DEF RemoveByHand, world
  <1>4. ASSUME NEW k \in Keys, Publish(k) PROVE Promise!Publish(k)
    <2>1. UNCHANGED <<Phases, Partials, Asked>> /\ UNCHANGED <<file, newest>>
      BY <1>1, <1>4, SameView, SameReaders DEF Publish
    <2>2. upstream[k] + 1 \in Generations
      BY <1>4, CacheAssumption DEF Publish, TypeOK, WorldType, Generations
    <2> QED
      BY <1>4, <2>1, <2>2 DEF Publish, Promise!Publish
  <1> QED
    BY <1>2, <1>3, <1>4 DEF Promise!Next

LEMMA CrashImplements == Crash => Promise!Crash
  <1> SUFFICES ASSUME Crash PROVE Promise!Crash
    OBVIOUS
  <1>1. /\ UNCHANGED <<upstream, file, newest>>
        /\ part' = [k \in Keys |-> "none"] /\ live' = [k \in Keys |-> "none"]
        /\ client' = [c \in Clients |-> Idle]
    BY DEF Crash, Restarted, world
  <1>2. Phases' = [k \in Keys |-> "idle"]
    BY <1>1 DEF Phases, Phase
  <1>3. Partials' = [k \in Keys |-> 0]
    BY <1>1 DEF Partials, Partial
  <1>4. Asked' = [c \in Clients |-> Promise!Nobody]
    BY <1>1 DEF Asked, Reader, Idle, Nobody, Promise!Nobody
  <1> QED
    BY <1>1, <1>2, <1>3, <1>4 DEF Promise!Crash

-----------------------------------------------------------------------------
(* The theorem.                                                            *)

LEMMA InitImplements == Init => Promise!Init
  <1> SUFFICES ASSUME Init PROVE Promise!Init
    OBVIOUS
  <1>1. upstream \in [Keys -> Generations \ {0}]
    BY CacheAssumption DEF Init, Generations
  <1>2. Phases = [k \in Keys |-> "idle"]
    BY DEF Init, Phases, Phase
  <1>3. Partials = [k \in Keys |-> 0]
    BY DEF Init, Partials, Partial
  <1>4. Asked = [c \in Clients |-> Promise!Nobody]
    BY DEF Init, Asked, Reader, Idle, Nobody, Promise!Nobody
  <1> QED
    BY <1>1, <1>2, <1>3, <1>4 DEF Init, Promise!Init

LEMMA StepImplements ==
  ASSUME "lag" \notin Faults, Sound, [Next]_vars
  PROVE  [Promise!Next]_(Promise!vars)
  <1>0. TypeOK /\ Counted
    BY DEF Sound, Inductive
  <1>1. ASSUME NEW s \in Sessions, Download(s) PROVE [Promise!Next]_(Promise!vars)
    BY <1>1, DownloadImplements DEF Promise!Next
  <1>2. ASSUME NEW c \in Clients, Request(c) PROVE [Promise!Next]_(Promise!vars)
    BY <1>2, RequestImplements
  <1>3. CASE Crash
    BY <1>3, CrashImplements DEF Promise!Next
  <1> QED
    BY <1>0, <1>1, <1>2, <1>3, CleanupImplements, RefreshImplements, WorldImplements DEF Next

LEMMA SoundAlways == Spec => []Sound
  <1>1. Init => Unanswered
    BY DEF Init, Unanswered, Idle
  <1>2. Inductive /\ Unanswered /\ [Next]_vars => Unanswered'
    BY UnansweredStep DEF Inductive
  <1> QED
    BY <1>1, <1>2, InitInductive, StepInductive, PTL DEF Spec, Sound

\* Unless a backup lags behind, everything that sessions, requests, workers,
\* hands and crashes do is a step of the state machine of ARCHITECTURE.md: one
\* transfer per object puts a whole and not older one in place, and a request
\* is answered from there or from the transfer under way.
THEOREM StateMachineFollowed ==
  ASSUME "lag" \notin Faults
  PROVE  Spec => FollowsStateMachine
  <1>1. Sound /\ [Next]_vars => [Promise!Next]_(Promise!vars)
    BY StepImplements
  <1> QED
    BY <1>1, InitImplements, SoundAlways, PTL DEF Spec, FollowsStateMachine, Promise!Spec
=============================================================================
