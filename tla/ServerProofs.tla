---------------------------- MODULE ServerProofs ----------------------------
(***************************************************************************)
(* Proofs about module Server.                                             *)
(*                                                                         *)
(* The editor: each save under way has a temporary file of its own, whose  *)
(* contents follow the step the save has reached, so a rename only ever    *)
(* puts a whole, accepted text in place.  The key: what the process signs  *)
(* with is what its directory holds, from the step that reads or writes it *)
(* to the end of the process, and a link keeps the key of its directory.   *)
(***************************************************************************)
EXTENDS Server, TLAPS

IInv == Inductive /\ AlwaysLoads /\ TidyUntilTrouble

\* Validate accepts no setting that a worker could not run with.
LEMMA AcceptedUsable ==
  ASSUME NEW text, IsText(text), Validate(text)
  PROVE  Usable(text)
<1>1. /\ text.size \in Int /\ text.size >= 0
      /\ text.versions \in Int /\ text.versions >= 0
  BY DEF IsText, Validate, LifecycleAccepted
<1>2. \A t \in DOMAIN text.times : text.times[t] > 0
  BY DEF Validate, LifecycleAccepted
<1>3. \A u \in text.upstreams : u.ttl \subseteq Int /\ \A t \in u.ttl : t > 0
  BY DEF IsText, Validate, UpstreamAccepted
<1>4. Lifecycle(text).size > 0 /\ Lifecycle(text).versions > 0
  BY <1>1 DEF Lifecycle, Setting, Defaults
<1>5. \A t \in Durations : Lifecycle(text).times[t] > 0
  BY <1>2 DEF Lifecycle, Defaults, Durations
<1>6. \A u \in text.upstreams : \A t \in RefreshIntervals(u) : t > 0
  BY <1>3 DEF RefreshIntervals
<1> QED
  BY <1>4, <1>5, <1>6 DEF Usable

LEMMA AcceptedText ==
  ASSUME NEW t \in Accepted
  PROVE  t \in Texts /\ t # "none" /\ t # "torn" /\ Usable(Meaning[t])
BY AcceptedUsable, AdminAssumption DEF Accepted, Parse

-----------------------------------------------------------------------------
(* Types.                                                                  *)

LEMMA IdleType == Idle \in RequestType /\ Idle.pc = "idle" /\ Idle.name = "none"
BY DEF Idle, RequestType, Content

\* A step of one request keeps the types when what it becomes has them.
LEMMA StepType ==
  ASSUME TypeOK, NEW r \in Requests, NEW from, NEW fields \in RequestType,
         fields.pc # "idle" => fields.cookie \in Tokens, Step(r, from, fields)
  PROVE  /\ request' \in [Requests -> RequestType]
         /\ \A q \in Requests : request'[q].pc # "idle" => request'[q].cookie \in Tokens
BY DEF TypeOK, AdminType, Step

LEMMA ForgetType ==
  ASSUME TypeOK, NEW t \in Tokens, Forget(t)
  PROVE  session' \in [Tokens -> [open : BOOLEAN, expires : Int]]
BY DEF Forget, TypeOK, AdminType

LEMMA EditorType ==
  ASSUME TypeOK, Saves, NEW r \in Requests, Editor(r), UNCHANGED <<processVars, trouble>>
  PROVE  TypeOK'
<1> USE DEF processVars
<1> SUFFICES AdminType'
  BY DEF TypeOK
<1>0. request[r] \in RequestType /\ (request[r].pc # "idle" => request[r].cookie \in Tokens)
  BY DEF TypeOK, AdminType
<1>1. ASSUME NEW t \in Tokens, Open(r, t) PROVE AdminType'
  <2>1. session' \in [Tokens -> [open : BOOLEAN, expires : Int]]
    BY <1>1, ForgetType DEF Open
  <2>2. CASE Step(r, "idle", Idle)
    BY <1>1, <2>1, <2>2, IdleType, StepType DEF Open, TypeOK, AdminType
  <2>3. ASSUME NEW f \in Tokens \cup {"none"}, NEW p \in Texts \cup {"none"},
               Step(r, "idle", [Idle EXCEPT !.pc = "check", !.cookie = t, !.csrf = f,
                                            !.proposal = p])
        PROVE  AdminType'
    <3> DEFINE fields == [Idle EXCEPT !.pc = "check", !.cookie = t, !.csrf = f,
                                      !.proposal = p]
    <3>1. fields \in RequestType /\ fields.cookie = t
      BY DEF RequestType, Idle
    <3> HIDE DEF fields
    <3> QED
      BY <1>1, <2>1, <2>3, <3>1, StepType DEF Open, TypeOK, AdminType, fields
  <2> QED
    BY <1>1, <2>2, <2>3 DEF Open
<1>2. CASE ReadFails(r)
  BY <1>2, IdleType, StepType DEF ReadFails, TypeOK, AdminType
<1>3. CASE Check(r)
  <2> DEFINE fields == [request[r] EXCEPT !.pc = "create"]
  <2>1. fields \in RequestType /\ request[r].cookie \in Tokens /\ fields.cookie = request[r].cookie
    BY <1>0, <1>3 DEF RequestType, Check
  <2>2. session' \in [Tokens -> [open : BOOLEAN, expires : Int]]
    BY <1>3, <2>1, ForgetType DEF Check
  <2> HIDE DEF fields
  <2> QED
    BY <1>3, <2>1, <2>2, IdleType, StepType DEF Check, TypeOK, AdminType, fields
<1>4. ASSUME CreateTemp(r) PROVE AdminType'
  <2> PICK n \in Names : /\ Step(r, "create", [request[r] EXCEPT !.pc = "write", !.name = n])
                         /\ temp' = [temp EXCEPT ![n] = [text |-> "torn", after |-> {"torn"}]]
    BY <1>4 DEF CreateTemp, Empty
  <2> DEFINE fields == [request[r] EXCEPT !.pc = "write", !.name = n]
  <2>1. fields \in RequestType /\ (request[r].pc # "idle" => fields.cookie \in Tokens)
    BY <1>0 DEF RequestType
  <2>2. request[r].pc = "create"
    BY DEF Step
  <2>3. temp' \in [Names -> File]
    BY DEF TypeOK, AdminType, File, Content
  <2> HIDE DEF fields
  <2> QED
    BY <1>4, <2>1, <2>2, <2>3, StepType DEF CreateTemp, TypeOK, AdminType, fields
<1>5. CASE Write(r)
  <2> DEFINE fields == [request[r] EXCEPT !.pc = "sync"]
  <2>1. fields \in RequestType /\ (request[r].pc # "idle" => fields.cookie \in Tokens)
    BY <1>0 DEF RequestType
  <2>2. request[r].pc = "write"
    BY <1>5 DEF Write, Step
  <2>3. temp' \in [Names -> File]
    BY <1>0, <1>5 DEF Write, TypeOK, AdminType, File, Content, RequestType
  <2> HIDE DEF fields
  <2> QED
    BY <1>5, <2>1, <2>2, <2>3, StepType DEF Write, TypeOK, AdminType, fields
<1>6. CASE Sync(r)
  <2> DEFINE fields == [request[r] EXCEPT !.pc = "rename"]
  <2>1. fields \in RequestType /\ (request[r].pc # "idle" => fields.cookie \in Tokens)
    BY <1>0 DEF RequestType
  <2>2. request[r].pc = "sync"
    BY <1>6 DEF Sync, Step
  <2>3. temp' \in [Names -> File]
    <3>1. ASSUME NEW n \in Names PROVE [temp[n] EXCEPT !.after = {temp[n].text}] \in File
      BY DEF TypeOK, AdminType, File
    <3> QED
      BY <1>6, <3>1 DEF Sync, TypeOK, AdminType
  <2> HIDE DEF fields
  <2> QED
    BY <1>6, <2>1, <2>2, <2>3, StepType DEF Sync, TypeOK, AdminType, fields
<1>7. CASE Rename(r)
  <2>0. request[r].name \in Names
    BY <1>7 DEF Rename, Step, Saves, Saving
  <2>1. temp[request[r].name] \in File /\ config \in File
    BY <2>0 DEF TypeOK, AdminType
  <2>2. config' \in File
    BY <1>7, <2>1 DEF Rename, File
  <2>3. temp' \in [Names -> File]
    BY <1>7, <2>0 DEF Rename, TypeOK, AdminType, File, Absent, Content
  <2> QED
    BY <1>7, <2>2, <2>3, IdleType, StepType DEF Rename, TypeOK, AdminType
<1>8. CASE SaveFails(r)
  <2>1. temp' \in [Names -> File]
    BY <1>8 DEF SaveFails, TypeOK, AdminType, File, Absent, Content
  <2> QED
    BY <1>8, <2>1, IdleType, StepType DEF SaveFails, TypeOK, AdminType
<1> QED
  BY <1>1, <1>2, <1>3, <1>4, <1>5, <1>6, <1>7, <1>8 DEF Editor

LEMMA StartType ==
  ASSUME TypeOK, Start \/ StartFails \/ Sign, phase # "down" => running \in Accepted,
         phase \in {"creating", "writing", "keyed", "up"} => secret \in Secrets
  PROVE  TypeOK'
<1> USE DEF adminVars, Phase
<1>0. Dir \in Dirs
  BY ServerAssumption DEF Dir, TypeOK
<1>1. CASE LoadConfig
  BY <1>1 DEF LoadConfig, TypeOK, AdminType, Accepted
<1>2. CASE OpenStore
  BY <1>2 DEF OpenStore, TypeOK, AdminType
<1>3. CASE ReadSecret
  BY <1>3 DEF ReadSecret, TypeOK, AdminType
<1>4. CASE CreateKey
  BY <1>0, <1>4 DEF CreateKey, TypeOK, AdminType
<1>5. CASE WriteKey
  BY <1>0, <1>5 DEF WriteKey, TypeOK, AdminType
<1>6. CASE NewAuth
  BY <1>6, ServerAssumption DEF NewAuth, TypeOK, AdminType
<1>7. CASE StartFails
  BY <1>7, ServerAssumption DEF StartFails, Fails, TypeOK, AdminType
<1>8. CASE Sign
  BY <1>0, <1>8 DEF Sign, TypeOK, AdminType
<1> QED
  BY <1>1, <1>2, <1>3, <1>4, <1>5, <1>6, <1>7, <1>8 DEF Start

LEMMA EndType ==
  ASSUME TypeOK, Crash \/ PowerLoss \/ Flush
  PROVE  TypeOK'
<1>1. ASSUME Ends, Fails PROVE
        /\ now' \in 0..MaxTime /\ enabled' \in BOOLEAN
        /\ session' \in [Tokens -> [open : BOOLEAN, expires : Int]]
        /\ request' \in [Requests -> RequestType]
        /\ \A r \in Requests : request'[r].pc # "idle" => request'[r].cookie \in Tokens
        /\ phase' = "down" /\ running' \in Texts /\ secret' \in Secrets \cup {"none"}
        /\ trouble' \in 0..MaxTrouble
  <2>1. session' \in [Tokens -> [open : BOOLEAN, expires : Int]]
    BY <1>1 DEF Ends, TypeOK, AdminType
  <2>2. trouble' \in 0..MaxTrouble
    BY <1>1, ServerAssumption DEF Fails, TypeOK
  <2> QED
    BY <1>1, <2>1, <2>2, IdleType DEF Ends, TypeOK, AdminType
<1>2. CASE Crash
  BY <1>1, <1>2 DEF Crash, TypeOK, AdminType
<1>3. CASE PowerLoss
  <2>1. config' \in File
    BY <1>3 DEF PowerLoss, TypeOK, AdminType, File
  <2>2. temp' \in [Names -> File]
    BY <1>3 DEF PowerLoss, File, Content, Absent
  <2>3. /\ key' \in [Dirs -> [text : Secrets \cup {"none", "torn"},
                             after : SUBSET (Secrets \cup {"none", "torn"})]]
        /\ links' \subseteq [dir : Dirs, key : Secrets]
    BY <1>3 DEF PowerLoss, TypeOK
  <2> QED
    BY <1>1, <1>3, <2>1, <2>2, <2>3 DEF PowerLoss, TypeOK, AdminType
<1>4. CASE Flush
  <2>1. config' \in File
    BY <1>4 DEF Flush, TypeOK, AdminType, File
  <2> QED
    BY <1>4, <2>1 DEF Flush, TypeOK, AdminType
<1> QED
  BY <1>2, <1>3, <1>4

LEMMA OtherType ==
  ASSUME TypeOK, Tick \/ (\E t \in Tokens : Login(t)), UNCHANGED <<processVars, trouble>>
  PROVE  TypeOK'
<1>1. CASE Tick
  BY <1>1, AdminAssumption DEF Tick, TypeOK, AdminType, processVars
<1>2. ASSUME NEW t \in Tokens, Login(t) PROVE TypeOK'
  BY <1>2, AdminAssumption DEF Login, TypeOK, AdminType, processVars
<1> QED
  BY <1>1, <1>2

-----------------------------------------------------------------------------
(* The editor.                                                             *)

\* A step of one request keeps what saves have, as long as the files of the
\* other saves stay as they are.
LEMMA SavesStep ==
  ASSUME TypeOK, Saves, NEW r \in Requests, NEW from, NEW fields \in RequestType,
         Step(r, from, fields),
         fields.pc \in {"create", "write", "sync", "rename"} =>
           fields.proposal \in Accepted /\ fields.csrf = fields.cookie,
         fields.pc \notin {"write", "sync", "rename"} => fields.name = "none",
         fields.pc \in {"write", "sync", "rename"} =>
           /\ fields.name \in Names /\ temp'[fields.name].text # "none"
           /\ fields.pc # "write" => temp'[fields.name].text = fields.proposal
           /\ fields.pc = "rename" => temp'[fields.name].after = {fields.proposal}
           /\ \A s \in Saving : request[s].name = fields.name => s = r,
         \A s \in Saving \ {r} : temp'[request[s].name] = temp[request[s].name]
  PROVE  Saves'
<1>1. /\ request'[r] = fields
      /\ \A q \in Requests \ {r} : request'[q] = request[q]
  BY DEF Step, TypeOK, AdminType
<1>2. Saving' \ {r} = Saving \ {r}
  BY <1>1 DEF Saving
<1>3. r \in Saving' <=> fields.pc \in {"write", "sync", "rename"}
  BY <1>1 DEF Saving
<1>4. \A q \in Requests : request'[q].pc \in {"create", "write", "sync", "rename"} =>
        request'[q].proposal \in Accepted /\ request'[q].csrf = request'[q].cookie
  BY <1>1 DEF Saves, FormStands
<1>5. \A q \in Requests \ Saving' : request'[q].name = "none"
  BY <1>1, <1>2, <1>3 DEF Saves
<1>6. \A q \in Saving' :
        /\ request'[q].name \in Names /\ temp'[request'[q].name].text # "none"
        /\ request'[q].pc # "write" => temp'[request'[q].name].text = request'[q].proposal
        /\ request'[q].pc = "rename" => temp'[request'[q].name].after = {request'[q].proposal}
  BY <1>1, <1>2, <1>3 DEF Saves, Saving
<1>7. \A q, s \in Saving' : request'[s].name = request'[q].name => s = q
  BY <1>1, <1>2, <1>3 DEF Saves, Saving
<1> QED
  BY <1>4, <1>5, <1>6, <1>7 DEF Saves, FormStands

\* A request that ends, and at most its own file with it, disturbs no save.
LEMMA SavesEnd ==
  ASSUME TypeOK, Saves, NEW r \in Requests, NEW from, Step(r, from, Idle),
         \A n \in Names : n # request[r].name => temp'[n] = temp[n]
  PROVE  Saves'
<1>1. \A s \in Saving \ {r} : request[s].name \in Names /\ request[s].name # request[r].name
  BY AdminAssumption DEF Saves, Saving
<1> QED
  BY <1>1, IdleType, SavesStep

LEMMA EditorSaves ==
  ASSUME TypeOK, Saves, NEW r \in Requests, Editor(r)
  PROVE  Saves'
<1>0. request[r] \in RequestType
  BY DEF TypeOK, AdminType
<1>1. ASSUME NEW t \in Tokens, Open(r, t) PROVE Saves'
  <2>1. CASE Step(r, "idle", Idle)
    BY <1>1, <2>1, SavesEnd DEF Open
  <2>2. ASSUME NEW f \in Tokens \cup {"none"}, NEW p \in Texts \cup {"none"},
               Step(r, "idle", [Idle EXCEPT !.pc = "check", !.cookie = t, !.csrf = f,
                                            !.proposal = p])
        PROVE  Saves'
    <3> DEFINE fields == [Idle EXCEPT !.pc = "check", !.cookie = t, !.csrf = f,
                                      !.proposal = p]
    <3>1. fields \in RequestType /\ fields.pc = "check" /\ fields.name = "none"
      BY DEF RequestType, Idle
    <3> HIDE DEF fields
    <3> QED
      BY <1>1, <2>2, <3>1, SavesStep DEF Open, fields
  <2> QED
    BY <1>1, <2>1, <2>2 DEF Open
<1>2. CASE ReadFails(r)
  BY <1>2, SavesEnd DEF ReadFails
<1>3. CASE Check(r)
  <2> DEFINE fields == [request[r] EXCEPT !.pc = "create"]
  <2>1. /\ fields \in RequestType /\ fields.pc = "create" /\ fields.name = request[r].name
        /\ fields.proposal = request[r].proposal /\ fields.csrf = request[r].csrf
        /\ fields.cookie = request[r].cookie
    BY <1>0 DEF RequestType
  <2>2. request[r].name = "none"
    BY <1>3 DEF Check, Saves, Saving
  <2> HIDE DEF fields
  <2> QED
    BY <1>3, <2>1, <2>2, SavesEnd, SavesStep DEF Check, FormStands, fields
<1>4. ASSUME CreateTemp(r) PROVE Saves'
  <2> PICK n \in Names :
        /\ Unused(n) /\ Step(r, "create", [request[r] EXCEPT !.pc = "write", !.name = n])
        /\ temp' = [temp EXCEPT ![n] = [text |-> "torn", after |-> {"torn"}]]
    BY <1>4 DEF CreateTemp, Empty
  <2> DEFINE fields == [request[r] EXCEPT !.pc = "write", !.name = n]
  <2>1. /\ fields \in RequestType /\ fields.pc = "write" /\ fields.name = n
        /\ fields.proposal = request[r].proposal /\ fields.csrf = request[r].csrf
        /\ fields.cookie = request[r].cookie
    BY <1>0 DEF RequestType
  <2>2. FormStands(r)
    BY DEF Step, Saves
  <2>3. \A s \in Saving : request[s].name # n
    BY DEF Unused, Saves
  <2>4. temp'[n].text = "torn" /\ \A m \in Names \ {n} : temp'[m] = temp[m]
    BY DEF TypeOK, AdminType
  <2>5. Step(r, "create", fields)
    OBVIOUS
  <2>6. \A s \in Saving \ {r} : temp'[request[s].name] = temp[request[s].name]
    BY <2>3, <2>4 DEF Saves
  <2> HIDE DEF fields
  <2> QED
    BY <2>1, <2>2, <2>3, <2>4, <2>5, <2>6, SavesStep DEF FormStands
<1>5. CASE Write(r)
  <2> DEFINE fields == [request[r] EXCEPT !.pc = "sync"]
  <2>1. /\ fields \in RequestType /\ fields.pc = "sync" /\ fields.name = request[r].name
        /\ fields.proposal = request[r].proposal /\ fields.csrf = request[r].csrf
        /\ fields.cookie = request[r].cookie
    BY <1>0 DEF RequestType
  <2>2. FormStands(r) /\ r \in Saving
    BY <1>5 DEF Write, Step, Saves, Saving
  <2>3. /\ request[r].name \in Names
        /\ \A s \in Saving : request[s].name = request[r].name => s = r
    BY <2>2 DEF Saves
  <2>4. /\ temp'[request[r].name].text = request[r].proposal
        /\ \A m \in Names \ {request[r].name} : temp'[m] = temp[m]
    BY <1>5, <2>3 DEF Write, TypeOK, AdminType
  <2>5. request[r].proposal # "none"
    BY <2>2, AcceptedText DEF FormStands
  <2>6. Step(r, "write", fields)
    BY <1>5 DEF Write
  <2> HIDE DEF fields
  <2> QED
    BY <2>1, <2>2, <2>3, <2>4, <2>5, <2>6, SavesStep DEF FormStands, Saves
<1>6. CASE Sync(r)
  <2> DEFINE fields == [request[r] EXCEPT !.pc = "rename"]
  <2>1. /\ fields \in RequestType /\ fields.pc = "rename" /\ fields.name = request[r].name
        /\ fields.proposal = request[r].proposal /\ fields.csrf = request[r].csrf
        /\ fields.cookie = request[r].cookie
    BY <1>0 DEF RequestType
  <2>2. FormStands(r) /\ r \in Saving /\ request[r].pc = "sync"
    BY <1>6 DEF Sync, Step, Saves, Saving
  <2>3. /\ request[r].name \in Names /\ temp[request[r].name].text = request[r].proposal
        /\ \A s \in Saving : request[s].name = request[r].name => s = r
    BY <2>2 DEF Saves
  <2>4. temp[request[r].name] \in File
    BY <2>3 DEF TypeOK, AdminType
  <2>5. /\ temp'[request[r].name].text = request[r].proposal
        /\ temp'[request[r].name].after = {request[r].proposal}
        /\ \A m \in Names \ {request[r].name} : temp'[m] = temp[m]
    BY <1>6, <2>3, <2>4 DEF Sync, TypeOK, AdminType, File
  <2>6. request[r].proposal # "none"
    BY <2>2, AcceptedText DEF FormStands
  <2>7. Step(r, "sync", fields)
    BY <1>6 DEF Sync
  <2> HIDE DEF fields
  <2> QED
    BY <2>1, <2>2, <2>3, <2>5, <2>6, <2>7, SavesStep DEF FormStands, Saves
<1>7. CASE Rename(r)
  BY <1>7, SavesEnd DEF Rename, TypeOK, AdminType
<1>8. CASE SaveFails(r)
  BY <1>8, SavesEnd DEF SaveFails
<1> QED
  BY <1>1, <1>2, <1>3, <1>4, <1>5, <1>6, <1>7, <1>8 DEF Editor

\* Only a rename changes the configuration file, and it does so as it should.
LEMMA EditorConfig ==
  ASSUME TypeOK, Saves, NEW r \in Requests, Editor(r)
  PROVE  \/ config' = config
         \/ /\ Rename(r) /\ request[r].proposal \in Accepted
            /\ request[r].csrf = request[r].cookie
            /\ config' = [text  |-> request[r].proposal,
                          after |-> config.after \cup {request[r].proposal}]
<1>1. CASE Rename(r)
  <2>1. r \in Saving /\ request[r].pc = "rename"
    BY <1>1 DEF Rename, Step, Saving
  <2>2. /\ FormStands(r) /\ temp[request[r].name].text = request[r].proposal
        /\ temp[request[r].name].after = {request[r].proposal}
    BY <2>1 DEF Saves, Saving
  <2> QED
    BY <1>1, <2>2 DEF Rename, FormStands
<1>2. CASE ~Rename(r)
  BY <1>2 DEF Editor, Open, ReadFails, Check, CreateTemp, Write, Sync, SaveFails
<1> QED
  BY <1>1, <1>2

LEMMA EditorLitter ==
  ASSUME TypeOK, Saves, NEW r \in Requests, Editor(r), Litter = {}
  PROVE  Litter' = {}
<1>1. ASSUME NEW n \in Names, temp'[n].text # "none"
      PROVE  \E q \in Saving' : request'[q].name = n
  <2>1. \A q \in Requests \ {r} : request'[q] = request[q]
    BY DEF Editor, Open, ReadFails, Check, CreateTemp, Write, Sync, Rename, SaveFails, Step,
           TypeOK, AdminType
  <2>2. ASSUME NEW q \in Saving, q # r, request[q].name = n
        PROVE  \E s \in Saving' : request'[s].name = n
    BY <2>1, <2>2 DEF Saving
  <2>3. CASE CreateTemp(r)
    <3> PICK m \in Names :
          /\ Step(r, "create", [request[r] EXCEPT !.pc = "write", !.name = m])
          /\ temp' = [temp EXCEPT ![m] = [text |-> "torn", after |-> {"torn"}]]
      BY <2>3 DEF CreateTemp, Empty
    <3>1. request'[r].pc = "write" /\ request'[r].name = m
      BY DEF Step, TypeOK, AdminType, RequestType
    <3>2. r \in Saving' /\ r \notin Saving
      BY <3>1 DEF Saving, Step
    <3>3. n # m => temp[n].text # "none"
      BY <1>1 DEF TypeOK, AdminType
    <3> QED
      BY <2>2, <3>1, <3>2, <3>3 DEF Litter
  <2>4. CASE Write(r) \/ Sync(r)
    <3>1. /\ r \in Saving /\ r \in Saving' /\ request'[r].name = request[r].name
      BY <2>4 DEF Write, Sync, Step, Saving, TypeOK, AdminType, RequestType
    <3>2. n # request[r].name => temp'[n] = temp[n]
      BY <2>4 DEF Write, Sync, TypeOK, AdminType
    <3> QED
      BY <1>1, <2>2, <3>1, <3>2 DEF Litter
  <2>5. CASE Rename(r) \/ SaveFails(r)
    <3>1. n # request[r].name /\ temp'[n] = temp[n]
      BY <1>1, <2>5 DEF Rename, SaveFails, Absent, TypeOK, AdminType
    <3> QED
      BY <1>1, <2>2, <3>1 DEF Litter
  <2>6. CASE (\E t \in Tokens : Open(r, t)) \/ ReadFails(r) \/ Check(r)
    <3>1. temp' = temp /\ request[r].pc \in {"idle", "check"}
      BY <2>6 DEF Open, ReadFails, Check, Step
    <3> QED
      BY <1>1, <2>2, <3>1 DEF Litter, Saving
  <2> QED
    BY <2>3, <2>4, <2>5, <2>6 DEF Editor
<1> QED
  BY <1>1 DEF Litter

-----------------------------------------------------------------------------
(* The invariant, and what follows from it.                                *)

LEMMA InitHolds == Init => IInv
<1> SUFFICES ASSUME Init PROVE IInv
  OBVIOUS
<1> USE DEF Init, AdminInit
<1>1. TypeOK
  <2>1. /\ request \in [Requests -> RequestType]
        /\ \A r \in Requests : request[r].pc = "idle"
    BY IdleType
  <2>2. session \in [Tokens -> [open : BOOLEAN, expires : Int]]
    BY DEF Fresh
  <2>3. config \in File /\ temp \in [Names -> File]
    BY AdminAssumption DEF Absent, File, Content, Accepted
  <2>4. now \in 0..MaxTime /\ trouble \in 0..MaxTrouble /\ running \in Texts
    BY AdminAssumption, ServerAssumption DEF Accepted
  <2>5. key \in [Dirs -> [text : Secrets \cup {"none", "torn"},
                         after : SUBSET (Secrets \cup {"none", "torn"})]]
    BY DEF Absent
  <2> QED
    BY <2>1, <2>2, <2>3, <2>4, <2>5 DEF TypeOK, AdminType
<1>2. AlwaysLoads
  BY AdminAssumption DEF AlwaysLoads
<1>3. Saving = {} /\ Saves
  BY IdleType DEF Saves, Saving
<1>4. Litter = {}
  BY DEF Litter, Absent
<1>5. Keys /\ Quiet
  BY DEF Keys, Quiet
<1> QED
  BY <1>1, <1>2, <1>3, <1>4, <1>5 DEF IInv, Inductive, TidyUntilTrouble

\* A step of the pages.
LEMMA AdminStep ==
  ASSUME IInv, AdminNext, UNCHANGED <<processVars, trouble>>
  PROVE  IInv'
<1> USE DEF IInv, Inductive
<1>1. Keys'
  BY DEF Keys, Dir, processVars
<1>2. CASE Tick \/ \E t \in Tokens : Login(t)
  <2>1. /\ UNCHANGED <<request, config, temp, enabled>> /\ TypeOK'
    BY <1>2, OtherType DEF Tick, Login
  <2>2. Saves' /\ Litter' = Litter /\ AlwaysLoads' /\ Quiet'
    BY <2>1 DEF Saves, Saving, FormStands, Litter, AlwaysLoads, Quiet, processVars
  <2> QED
    BY <1>1, <2>1, <2>2 DEF TidyUntilTrouble
<1>3. ASSUME NEW r \in Requests, Editor(r) PROVE IInv'
  <2>1. TypeOK' /\ Saves'
    BY <1>3, EditorType, EditorSaves
  <2>2. AlwaysLoads'
    BY <1>3, EditorConfig DEF AlwaysLoads
  <2>3. TidyUntilTrouble'
    BY <1>3, EditorLitter DEF TidyUntilTrouble
  <2>4. enabled /\ enabled' = enabled
    <3>1. enabled' = enabled
      BY <1>3 DEF Editor, Open, ReadFails, Check, CreateTemp, Write, Sync, Rename, SaveFails
    <3>2. CASE \E t \in Tokens : Open(r, t)
      BY <3>1, <3>2 DEF Open
    <3>3. CASE request[r].pc # "idle"
      BY <3>1, <3>3, IdleType DEF Quiet, TypeOK, AdminType
    <3> QED
      BY <1>3, <3>2, <3>3
        DEF Editor, ReadFails, Check, CreateTemp, Write, Sync, Rename, SaveFails, Step
  <2>5. Quiet'
    BY <2>4 DEF Quiet, processVars
  <2> QED
    BY <1>1, <2>1, <2>2, <2>3, <2>5
<1> QED
  BY <1>2, <1>3 DEF AdminNext

\* A step of the start-up, or the signing of links.
LEMMA ProcessKeys ==
  ASSUME IInv, Start \/ StartFails \/ Sign
  PROVE  Keys'
<1> USE DEF Keys, Dir, Phase
<1>0. Dir \in Dirs
  BY ServerAssumption DEF IInv, Inductive, TypeOK
<1>1. CASE LoadConfig
  BY <1>1 DEF LoadConfig, IInv, Inductive
<1>2. CASE OpenStore
  BY <1>2 DEF OpenStore, IInv, Inductive
<1>3. CASE ReadSecret
  BY <1>3 DEF ReadSecret, IInv, Inductive
<1>4. CASE CreateKey \/ WriteKey
  <2>1. key[Dir].text \notin Secrets
    BY <1>4, ServerAssumption DEF CreateKey, WriteKey, IInv, Inductive
  <2>2. \A l \in links : l.dir # Dir /\ l.dir \in Dirs
    BY <2>1 DEF IInv, Inductive, TypeOK
  <2>3. \A d \in Dirs : d # Dir => key'[d] = key[d]
    BY <1>4 DEF CreateKey, WriteKey, IInv, Inductive, TypeOK
  <2>4. \A l \in links' : key'[l.dir].text = l.key
    BY <1>4, <2>2, <2>3 DEF CreateKey, WriteKey, IInv, Inductive
  <2>5. CASE CreateKey
    BY <1>0, <2>4, <2>5 DEF CreateKey, IInv, Inductive, TypeOK
  <2>6. CASE WriteKey
    BY <1>0, <2>4, <2>6 DEF WriteKey, IInv, Inductive, TypeOK
  <2> QED
    BY <1>4, <2>5, <2>6
<1>5. CASE NewAuth
  BY <1>5 DEF NewAuth, IInv, Inductive
<1>6. CASE StartFails
  BY <1>6 DEF StartFails, IInv, Inductive
<1>7. CASE Sign
  <2>1. \A l \in links' : l \in links \/ l = [dir |-> Dir, key |-> secret]
    BY <1>7 DEF Sign
  <2>2. \A l \in links' : key[l.dir].text = l.key
    BY <1>7, <2>1 DEF Sign, IInv, Inductive
  <2> QED
    BY <1>7, <2>2 DEF Sign, IInv, Inductive
<1> QED
  BY <1>1, <1>2, <1>3, <1>4, <1>5, <1>6, <1>7 DEF Start

LEMMA ProcessStep ==
  ASSUME IInv, Start \/ StartFails \/ Sign
  PROVE  IInv'
<1> USE DEF IInv, Inductive
<1>1. TypeOK'
  BY StartType DEF Keys
<1>2. UNCHANGED <<request, config, temp>>
  BY DEF Start, StartFails, Sign, LoadConfig, OpenStore, ReadSecret, CreateKey, WriteKey,
         NewAuth, adminVars
<1>3. Saves' /\ Litter' = Litter /\ AlwaysLoads'
  BY <1>2 DEF Saves, Saving, FormStands, Litter, AlwaysLoads
<1>4. TidyUntilTrouble'
  <2>1. trouble' = trouble \/ trouble' = trouble + 1
    BY DEF Start, StartFails, Sign, LoadConfig, OpenStore, ReadSecret, CreateKey, WriteKey,
           NewAuth, Fails
  <2>2. trouble' = 0 => trouble = 0
    BY <2>1, ServerAssumption DEF TypeOK
  <2> QED
    BY <1>3, <2>2 DEF TidyUntilTrouble
<1>5. Quiet'
  <2>1. CASE NewAuth
    <3>1. ~enabled /\ phase' \in {"down", "up"} /\ (enabled' => phase' = "up")
      BY <2>1 DEF NewAuth, Phase, Quiet
    <3> QED
      BY <1>2, <3>1 DEF Quiet
  <2>2. CASE Sign
    BY <2>2 DEF Sign, Quiet, adminVars
  <2>3. CASE ~Sign /\ ~NewAuth
    BY <1>2, <2>3 DEF Start, StartFails, LoadConfig, OpenStore, ReadSecret, CreateKey,
                      WriteKey, Phase, Quiet, adminVars
  <2> QED
    BY <2>1, <2>2, <2>3
<1> QED
  BY <1>1, <1>3, <1>4, <1>5, ProcessKeys

\* A save that fails, and whose file stays.
LEMMA RemoveFailsStep ==
  ASSUME IInv, RemoveTempFails
  PROVE  IInv'
<1> USE DEF IInv, Inductive
<1> PICK r \in Requests : RemoveFails(r)
  BY DEF RemoveTempFails
<1>1. /\ \/ /\ Step(r, "create", Idle)
           /\ \E n \in Names : temp[n].text = "none" /\ Empty(n)
        \/ /\ \E pc \in {"write", "sync", "rename"} : Step(r, pc, Idle)
           /\ Empty(request[r].name)
      /\ UNCHANGED <<now, enabled, session, config, processVars>>
      /\ trouble < MaxTrouble /\ trouble' = trouble + 1
  BY DEF RemoveTempFails, RemoveFails, Fails, Unused
<1>2. PICK n \in Names :
        Empty(n) /\ \A s \in Saving \ {r} : request[s].name # n
  <2>1. CASE r \in Saving
    BY <1>1, <2>1 DEF Saving, Saves, Step
  <2>2. CASE r \notin Saving
    BY <1>1, <2>2 DEF Saving, Saves, Step
  <2> QED
    BY <2>1, <2>2
<1>3. TypeOK'
  <2>1. temp' \in [Names -> File]
    BY <1>2 DEF Empty, TypeOK, AdminType, File, Content
  <2>2. trouble' \in 0..MaxTrouble
    BY <1>1, ServerAssumption DEF TypeOK
  <2>3. /\ request' \in [Requests -> RequestType]
        /\ \A q \in Requests : request'[q].pc # "idle" => request'[q].cookie \in Tokens
    BY <1>1, IdleType, StepType
  <2> QED
    BY <1>1, <2>1, <2>2, <2>3 DEF TypeOK, AdminType, processVars
<1>4. Saves'
  <2>1. \A s \in Saving \ {r} : temp'[request[s].name] = temp[request[s].name]
    BY <1>2 DEF Empty, Saves, TypeOK, AdminType
  <2> QED
    BY <1>1, <2>1, IdleType, SavesStep
<1>5. Quiet'
  <2>1. request[r].pc # "idle"
    BY <1>1 DEF Step
  <2>2. enabled
    BY <2>1, IdleType DEF Quiet
  <2> QED
    BY <1>1, <2>2 DEF Quiet, processVars
<1>6. Keys' /\ AlwaysLoads'
  BY <1>1 DEF Keys, Dir, AlwaysLoads, processVars
<1>7. TidyUntilTrouble'
  BY <1>1, ServerAssumption DEF TidyUntilTrouble, TypeOK
<1> QED
  BY <1>3, <1>4, <1>5, <1>6, <1>7

\* The end of a process, and what the machine does with its files.
LEMMA EndStep ==
  ASSUME IInv, Crash \/ PowerLoss \/ Flush
  PROVE  IInv'
<1> USE DEF IInv, Inductive
<1>1. TypeOK'
  BY EndType
<1>2. CASE Crash \/ PowerLoss
  <2>1. Saving' = {} /\ Saves' /\ Quiet'
    BY <1>2, IdleType DEF Crash, PowerLoss, Ends, Saves, Saving, Quiet
  <2>2. TidyUntilTrouble'
    BY <1>1, <1>2 DEF Crash, PowerLoss, Fails, TidyUntilTrouble, TypeOK
  <2>3. CASE Crash
    BY <1>1, <2>1, <2>2, <2>3 DEF Crash, Ends, Keys, AlwaysLoads
  <2>4. CASE PowerLoss
    <3>1. AlwaysLoads'
      BY <2>4 DEF PowerLoss, AlwaysLoads
    <3>2. Keys'
      <4>1. \A l \in links' : key'[l.dir].text = l.key
        BY <2>4 DEF PowerLoss, TypeOK
      <4> QED
        BY <2>4, <4>1 DEF PowerLoss, Ends, Keys
    <3> QED
      BY <1>1, <2>1, <2>2, <3>1, <3>2
  <2> QED
    BY <1>2, <2>3, <2>4
<1>3. CASE Flush
  <2>1. AlwaysLoads'
    BY <1>3 DEF Flush, AlwaysLoads, TypeOK, AdminType, File
  <2>2. Saves' /\ Quiet' /\ TidyUntilTrouble'
    BY <1>3 DEF Flush, Saves, Saving, FormStands, Quiet, TidyUntilTrouble, Litter
  <2>3. \A d \in Dirs : key'[d].text = key[d].text
    BY <1>3 DEF Flush
  <2>4. Keys'
    BY <1>3, <2>3, ServerAssumption DEF Flush, Keys, Dir, TypeOK
  <2> QED
    BY <1>1, <2>1, <2>2, <2>4
<1> QED
  BY <1>2, <1>3

THEOREM InvariantHolds == Spec => []IInv
<1>1. IInv /\ [Next]_vars => IInv'
  <2>1. IInv /\ Next => IInv'
    BY AdminStep, ProcessStep, RemoveFailsStep, EndStep DEF Next
  <2>2. IInv /\ UNCHANGED vars => IInv'
    BY DEF vars, adminVars, processVars, IInv, Inductive, TypeOK, AdminType, AlwaysLoads,
           Saves, Saving, FormStands, Keys, Dir, Quiet, TidyUntilTrouble, Litter
  <2> QED
    BY <2>1, <2>2
<1> QED
  BY <1>1, InitHolds, PTL DEF Spec

\* The variables keep their types; a secret has the length of a key.
THEOREM TypeCorrect == Spec => []TypeOK
BY InvariantHolds, PTL DEF IInv, Inductive

\* Saves under way, the key in use and the links agree with the files.
THEOREM InductiveInvariant == Spec => []Inductive
BY InvariantHolds, PTL DEF IInv

\* Whatever saves race, fail or are cut short: the file is a text that loads.
THEOREM ConfigAlwaysLoads == Spec => []AlwaysLoads
BY InvariantHolds, PTL DEF IInv

\* Until a process ends or a Remove fails, each temporary file belongs to a save
\* under way.
THEOREM TidiesUp == Spec => []TidyUntilTrouble
BY InvariantHolds, PTL DEF IInv

\* A link stays good for as long as the disk keeps the key.
THEOREM LinksStayGood == Spec => []LinksVerify
<1>1. IInv => LinksVerify
  BY DEF IInv, Inductive, Keys, LinksVerify
<1> QED
  BY <1>1, InvariantHolds, PTL

\* A process that is up runs on settings that its workers accept.
THEOREM RunsOnUsable == Spec => []SettingsUsable
<1>1. IInv => SettingsUsable
  BY AcceptedText DEF IInv, Inductive, Keys, SettingsUsable
<1> QED
  BY <1>1, InvariantHolds, PTL

\* A save puts its own text in place, for a form of its own session.
THEOREM SavesTheirOwn == Spec => SavesOwn
<1> DEFINE Own == enabled' => \A r \in Requests :
                    request[r].pc = "rename" /\ request'[r].pc = "idle" /\ config' # config =>
                      config'.text = request[r].proposal /\ request[r].csrf = request[r].cookie
<1>1. IInv /\ [Next]_vars => [Own]_adminVars
  <2> SUFFICES ASSUME IInv, Next, enabled', NEW r \in Requests,
                      request[r].pc = "rename", request'[r].pc = "idle", config' # config
               PROVE  /\ config'.text = request[r].proposal
                      /\ request[r].csrf = request[r].cookie
    BY DEF vars
  <2>1. PICK q \in Requests : Editor(q)
    BY DEF Next, AdminNext, Tick, Login, Start, StartFails, Sign, LoadConfig, OpenStore,
           ReadSecret, CreateKey, WriteKey, NewAuth, RemoveTempFails, RemoveFails, Crash,
           PowerLoss, Ends, Flush, adminVars
  <2>2. /\ Rename(q) /\ request[q].csrf = request[q].cookie
        /\ config'.text = request[q].proposal
    BY <2>1, EditorConfig DEF IInv, Inductive
  <2>3. q = r
    BY <2>2 DEF Rename, Step, IInv, Inductive, TypeOK, AdminType
  <2> QED
    BY <2>2, <2>3
<1>2. Spec => [][Own]_adminVars
  BY <1>1, InvariantHolds, PTL DEF Spec
<1> QED
  BY <1>2 DEF SavesOwn
=============================================================================
