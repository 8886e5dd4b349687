------------------------------- MODULE Admin -------------------------------
(***************************************************************************)
(* The administration pages of one process: logins, the sessions that the  *)
(* Authenticator keeps in memory, and the editor that replaces the         *)
(* configuration file through a temporary one.                             *)
(*                                                                         *)
(* A file is what a process reads in it, and what a power loss may leave   *)
(* of it: what was written and not synced may be gone or torn.             *)
(***************************************************************************)
EXTENDS Config

CONSTANTS
  Texts,     \* configuration texts: the first one, and what forms propose
  Meaning,   \* of each text: what yaml.Unmarshal finds
  First,     \* the text that the file holds to begin with
  Requests,  \* the requests of the editor under way at one time
  Tokens,    \* the tokens that rand.Read may draw: no two are the same
  Names,     \* names for os.CreateTemp to choose from
  Lifetime,  \* of a session: 12 hours
  MaxTime,   \* the clock stops here
  Faults     \* which of "io", "crash", "power" may happen

Accepted == {t \in Texts : Parse(Meaning[t])}

ASSUME AdminAssumption ==
  /\ \A t \in Texts : IsText(Meaning[t])
  /\ First \in Accepted /\ {"none", "torn"} \cap Texts = {}
  /\ "none" \notin Tokens /\ "none" \notin Names
  /\ Lifetime \in Nat /\ MaxTime \in Nat

VARIABLES
  now,      \* time.Now()
  enabled,  \* whether there is an Authenticator
  session,  \* Authenticator.sessions; a token not drawn yet expired before the start
  request,  \* the requests of the editor
  config,   \* the file under the configured name
  temp      \* the files .homir-config-*

adminVars == <<now, enabled, session, request, config, temp>>

Absent == [text |-> "none", after |-> {"none"}]
Fresh  == [open |-> FALSE, expires |-> -1]

\* csrf is the token of the session whose form is posted.
Idle == [pc |-> "idle", cookie |-> "none", csrf |-> "none", proposal |-> "none",
         name |-> "none"]

-----------------------------------------------------------------------------
(* The Authenticator.                                                      *)

\* Login has checked the password, and draws a token and a CSRF token, which
\* need not be told apart.
Login(t) ==
  /\ enabled /\ session[t] = Fresh
  /\ session' = [session EXCEPT ![t] = [open |-> TRUE, expires |-> now + Lifetime]]
  /\ UNCHANGED <<now, enabled, request, config, temp>>

Valid(t) == session[t].open /\ now <= session[t].expires

\* Valid and CSRF both delete a session that is presented too late.
Forget(t) ==
  session' = IF Valid(t) THEN session ELSE [session EXCEPT ![t].open = FALSE]

-----------------------------------------------------------------------------
(* The editor.                                                             *)

Step(r, from, fields) ==
  request[r].pc = from /\ request' = [request EXCEPT ![r] = fields]

\* ServeHTTP: a GET of the form, or a POST with a text of the user's and the
\* token of the form it was written in, or with none.
Open(r, t) ==
  /\ enabled
  /\ \/ Valid(t) /\ \E f \in Tokens \cup {"none"}, p \in Texts \cup {"none"} :
          Step(r, "idle", [Idle EXCEPT !.pc = "check", !.cookie = t, !.proposal = p,
                                       !.csrf = IF p = "none" THEN "none" ELSE f])
     \/ ~Valid(t) /\ Step(r, "idle", Idle)
  /\ Forget(t)
  /\ UNCHANGED <<now, enabled, config, temp>>

\* configEditor reads the file, whatever the method is; nothing but a page
\* depends on what is in it, unless that fails.
ReadFails(r) ==
  /\ "io" \in Faults /\ Step(r, "check", Idle)
  /\ UNCHANGED <<now, enabled, session, config, temp>>

AnyForm(r) == request[r].proposal \in Accepted

FormStands(r) ==
  request[r].proposal \in Accepted /\ request[r].csrf = request[r].cookie

\* The session is looked up again for its CSRF token.  Only a form of this very
\* session, with a text that Parse accepts, is saved; another request is over.
Check(r) ==
  LET t == request[r].cookie IN
  /\ request[r].pc = "check"
  /\ \/ Valid(t) /\ FormStands(r)
        /\ Step(r, "check", [request[r] EXCEPT !.pc = "create"])
     \/ ~(Valid(t) /\ FormStands(r)) /\ Step(r, "check", Idle)
  /\ Forget(t)
  /\ UNCHANGED <<now, enabled, config, temp>>

Fixed(n) == n = CHOOSE m \in Names : TRUE

\* os.CreateTemp opens a name that no file has.
Unused(n) == temp[n].text = "none"

Empty(n) == temp' = [temp EXCEPT ![n] = [text |-> "torn", after |-> {"torn"}]]

\* writeAtomically: Stat, CreateTemp and Chmod make an empty file, ...
CreateTemp(r) ==
  \E n \in Names :
    /\ Unused(n) /\ Empty(n)
    /\ Step(r, "create", [request[r] EXCEPT !.pc = "write", !.name = n])
    /\ UNCHANGED <<now, enabled, session, config>>

\* ... Write fills it, but not yet for good, ...
Write(r) ==
  /\ Step(r, "write", [request[r] EXCEPT !.pc = "sync"])
  /\ temp' = [temp EXCEPT ![request[r].name] =
                [text |-> request[r].proposal, after |-> {"torn"}]]
  /\ UNCHANGED <<now, enabled, session, config>>

SyncNothing(r) ==
  /\ Step(r, "sync", [request[r] EXCEPT !.pc = "rename"])
  /\ UNCHANGED <<now, enabled, session, config, temp>>

\* ... Sync and Close do that, ...
Sync(r) ==
  LET n == request[r].name IN
  /\ Step(r, "sync", [request[r] EXCEPT !.pc = "rename"])
  /\ temp' = [temp EXCEPT ![n].after = {temp[n].text}]
  /\ UNCHANGED <<now, enabled, session, config>>

\* ... and Rename replaces the file.  The directory is not synced, so a power
\* loss may yet bring back what was there.  The deferred Remove then finds no
\* file: os.CreateTemp draws no number a second time so soon.
Rename(r) ==
  LET n == request[r].name IN
  /\ Step(r, "rename", Idle)
  /\ config' = [text |-> temp[n].text, after |-> config.after \cup temp[n].after]
  /\ temp' = [temp EXCEPT ![n] = Absent]
  /\ UNCHANGED <<now, enabled, session>>

LeavesTemp(r) ==
  /\ "io" \in Faults
  /\ \E pc \in {"create", "write", "sync", "rename"} : Step(r, pc, Idle)
  /\ UNCHANGED <<now, enabled, session, config, temp>>

\* One of these calls fails: the deferred Remove, and a page with the error; ...
SaveFails(r) ==
  /\ "io" \in Faults
  /\ \E pc \in {"create", "write", "sync", "rename"} : Step(r, pc, Idle)
  /\ temp' = [n \in Names |-> IF n = request[r].name THEN Absent ELSE temp[n]]
  /\ UNCHANGED <<now, enabled, session, config>>

\* ... or the Remove fails as well, and the file stays: nobody reads what it has.
RemoveFails(r) ==
  LET n == request[r].name IN
  /\ "io" \in Faults
  /\ \/ Step(r, "create", Idle) /\ \E m \in Names : Unused(m) /\ Empty(m)
     \/ (\E pc \in {"write", "sync", "rename"} : Step(r, pc, Idle)) /\ Empty(n)
  /\ UNCHANGED <<now, enabled, session, config>>

Editor(r) ==
  \/ (\E t \in Tokens : Open(r, t)) \/ ReadFails(r) \/ Check(r)
  \/ CreateTemp(r) \/ Write(r) \/ Sync(r) \/ Rename(r) \/ SaveFails(r)

Tick ==
  /\ now < MaxTime /\ now' = now + 1
  /\ UNCHANGED <<enabled, session, request, config, temp>>

AdminInit ==
  /\ now = 0 /\ enabled = FALSE
  /\ session = [t \in Tokens |-> Fresh] /\ request = [r \in Requests |-> Idle]
  /\ config = [text |-> First, after |-> {First}] /\ temp = [n \in Names |-> Absent]

AdminNext ==
  \/ Tick \/ (\E t \in Tokens : Login(t)) \/ (\E r \in Requests : Editor(r))

-----------------------------------------------------------------------------
(* Properties.                                                             *)

Content == Texts \cup {"none", "torn"}

File == [text : Content, after : SUBSET Content]

RequestType ==
  [pc : {"idle", "check", "create", "write", "sync", "rename"},
   cookie : Tokens \cup {"none"}, csrf : Tokens \cup {"none"},
   proposal : Texts \cup {"none"}, name : Names \cup {"none"}]

AdminType ==
  /\ now \in 0..MaxTime /\ enabled \in BOOLEAN
  /\ session \in [Tokens -> [open : BOOLEAN, expires : Int]]
  /\ request \in [Requests -> RequestType]
  /\ \A r \in Requests : request[r].pc # "idle" => request[r].cookie \in Tokens
  /\ config \in File /\ temp \in [Names -> File]

\* The configuration file is at any moment a whole text that Parse accepts, and
\* would be after a power loss: whatever saves race, fail or are cut short.
AlwaysLoads == config.text \in Accepted /\ config.after \subseteq Accepted

\* A save takes effect with its own text and from a form of its own session,
\* though others write at the same time.
SavesOwn ==
  [][enabled' => \A r \in Requests :
       request[r].pc = "rename" /\ request'[r].pc = "idle" /\ config' # config =>
         config'.text = request[r].proposal /\ request[r].csrf = request[r].cookie]_adminVars

Saving == {r \in Requests : request[r].pc \in {"write", "sync", "rename"}}

\* A temporary file that no save will remove.
Litter == {n \in Names : temp[n].text # "none" /\ \A r \in Saving : request[r].name # n}

\* What a save under way has: a text that stands, and a file of its own that
\* holds it from Write on, and for good from Sync on.
Saves ==
  /\ \A r \in Requests : request[r].pc \in {"create", "write", "sync", "rename"} => FormStands(r)
  /\ \A r \in Requests \ Saving : request[r].name = "none"
  /\ \A r \in Saving :
       /\ request[r].name \in Names /\ temp[request[r].name].text # "none"
       /\ request[r].pc # "write" => temp[request[r].name].text = request[r].proposal
       /\ request[r].pc = "rename" => temp[request[r].name].after = {request[r].proposal}
       /\ \A s \in Saving : request[s].name = request[r].name => s = r
=============================================================================
