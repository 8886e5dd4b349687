------------------------------- MODULE Server -------------------------------
(***************************************************************************)
(* One Homir process after another on the same disk: the start-up, which   *)
(* loads the configuration, opens the data directory, reads or creates the *)
(* key that signs PyPI links and makes the Authenticator; the pages of     *)
(* module Admin; and what ends a process.  Whoever runs it starts it again *)
(* (compose.yaml:5).                                                       *)
(***************************************************************************)
EXTENDS Admin

CONSTANTS
  Dirs,       \* data directories that the texts name
  Secrets,    \* the keys that rand.Read may draw
  Password,   \* whether HOMIR_ADMIN_PASSWORD is set
  MaxTrouble  \* failures of start-up, temporary files that cannot be removed and
              \* ends of a process, all together

ASSUME ServerAssumption ==
  /\ \A t \in Texts : Meaning[t].dir \in Dirs
  /\ {"none", "torn"} \cap Secrets = {}
  /\ Password \in BOOLEAN /\ MaxTrouble \in Nat

VARIABLES
  phase,    \* how far the process is
  running,  \* the text it loaded
  secret,   \* Handler.secret of the PyPI backend
  key,      \* in each directory, the file pypi-link-signing.key
  links,    \* auxiliary: the keys of the links that clients hold, with their directory
  trouble   \* the failures so far

processVars == <<phase, running, secret, key, links>>
vars == <<adminVars, processVars, trouble>>

Dir == Meaning[running].dir

-----------------------------------------------------------------------------
(* Start-up: main, NewWithConfigPath, NewHandler of pypi, NewAuth.         *)

Phase(from, to) == phase = from /\ phase' = to

Fails == trouble < MaxTrouble /\ trouble' = trouble + 1

\* config.Load; a process that cannot go on exits.
LoadConfig ==
  /\ Phase("down", "loaded") /\ config.text \in Accepted /\ running' = config.text
  /\ UNCHANGED <<adminVars, secret, key, links, trouble>>

\* MkdirAll, store.Open and cache.New.
OpenStore ==
  /\ Phase("loaded", "opened")
  /\ UNCHANGED <<adminVars, running, secret, key, links, trouble>>

DrawSecret ==
  /\ Phase("opened", "keyed") /\ secret' \in Secrets
  /\ UNCHANGED <<adminVars, running, key, links, trouble>>

ReadOnly ==
  /\ \/ key[Dir].text \in Secrets /\ Phase("opened", "keyed") /\ secret' = key[Dir].text
     \/ key[Dir].text \notin Secrets /\ Phase("opened", "down") /\ UNCHANGED secret
  /\ UNCHANGED <<adminVars, running, key, links, trouble>>

\* loadSecret reads a key of the right length, gives up at any other length, or
\* draws a key where there is none ...
ReadSecret ==
  /\ \/ key[Dir].text \in Secrets /\ Phase("opened", "keyed") /\ secret' = key[Dir].text
     \/ key[Dir].text = "torn" /\ Phase("opened", "down") /\ UNCHANGED secret
     \/ key[Dir].text = "none" /\ Phase("opened", "creating") /\ secret' \in Secrets
  /\ UNCHANGED <<adminVars, running, key, links, trouble>>

\* ... which os.WriteFile keeps: in a new file, ...
CreateKey ==
  /\ Phase("creating", "writing")
  /\ key' = [key EXCEPT ![Dir] = [text |-> "torn", after |-> {"none", "torn"}]]
  /\ UNCHANGED <<adminVars, running, secret, links, trouble>>

\* ... which it fills and never syncs.
WriteKey ==
  /\ Phase("writing", "keyed")
  /\ key' = [key EXCEPT ![Dir] = [text |-> secret, after |-> {"none", "torn", secret}]]
  /\ UNCHANGED <<adminVars, running, secret, links, trouble>>

\* NewAuth: password_hash, or else the password of the environment, or else no
\* pages.  A hash that does not parse ends the process.
NewAuth ==
  LET hash == Meaning[running].hash IN
  /\ IF hash = "bad" THEN Phase("keyed", "down") /\ UNCHANGED enabled
                     ELSE Phase("keyed", "up") /\ enabled' = (hash # "" \/ Password)
  /\ UNCHANGED <<now, session, request, config, temp>>
  /\ UNCHANGED <<running, secret, key, links, trouble>>

Start ==
  LoadConfig \/ OpenStore \/ ReadSecret \/ CreateKey \/ WriteKey \/ NewAuth

\* A file cannot be read or written, the database not opened, the address not
\* bound; a key that is half written stays.
StartFails ==
  /\ "io" \in Faults /\ Fails
  /\ phase \notin {"down", "up"} /\ phase' = "down"
  /\ UNCHANGED <<adminVars, running, secret, key, links>>

-----------------------------------------------------------------------------
(* While it runs, and its end.                                             *)

\* A client gets links of its own to the files of a project.
Sign ==
  /\ phase = "up" /\ links' = links \cup {[dir |-> Dir, key |-> secret]}
  /\ UNCHANGED <<adminVars, phase, running, secret, key, trouble>>

\* A temporary file stays.
RemoveTempFails ==
  /\ Fails /\ (\E r \in Requests : RemoveFails(r)) /\ UNCHANGED processVars

\* What a process takes with it: its sessions, and the requests.
Ends ==
  /\ phase' = "down" /\ enabled' = FALSE
  /\ session' = [t \in Tokens |-> [session[t] EXCEPT !.open = FALSE]]
  /\ request' = [r \in Requests |-> Idle]
  /\ UNCHANGED <<now, running, secret>>

\* The process is stopped or dies; the files stay as they are.
Crash ==
  /\ "crash" \in Faults /\ Fails /\ phase # "down" /\ Ends
  /\ UNCHANGED <<config, temp, key, links>>

\* The machine goes down: of each file one of the contents it may have is left,
\* and temporary files are or are not.  A lost key takes its links with it.
PowerLoss ==
  /\ "power" \in Faults /\ Fails /\ Ends
  /\ \E text \in config.after : config' = [text |-> text, after |-> {text}]
  /\ \E left \in [Dirs -> Secrets \cup {"none", "torn"}] :
       /\ \A d \in Dirs : left[d] \in key[d].after
       /\ key' = [d \in Dirs |-> [text |-> left[d], after |-> {left[d]}]]
       /\ links' = {l \in links : left[l.dir] = l.key}
  /\ \E N \in SUBSET Names :
       temp' = [n \in Names |-> IF n \in N THEN [text |-> "torn", after |-> {"torn"}] ELSE Absent]

\* The system writes back what it has.
Flush ==
  /\ config' = [config EXCEPT !.after = {config.text}]
  /\ key' = [d \in Dirs |-> [text |-> key[d].text, after |-> {key[d].text}]]
  /\ UNCHANGED <<now, enabled, session, request, temp>>
  /\ UNCHANGED <<phase, running, secret, links, trouble>>

Init ==
  /\ AdminInit
  /\ phase = "down" /\ running = First /\ secret = "none"
  /\ key = [d \in Dirs |-> Absent] /\ links = {} /\ trouble = 0

Next ==
  \/ AdminNext /\ UNCHANGED <<processVars, trouble>>
  \/ Start \/ StartFails \/ Sign \/ RemoveTempFails \/ Crash \/ PowerLoss \/ Flush

Spec == Init /\ [][Next]_vars

\* A process that is started goes on, and one that exits is started again.
FairSpec == Spec /\ WF_vars(Start)

-----------------------------------------------------------------------------
(* Properties.                                                             *)

TypeOK ==
  /\ AdminType
  /\ phase \in {"down", "loaded", "opened", "creating", "writing", "keyed", "up"}
  /\ running \in Texts /\ secret \in Secrets \cup {"none"}
  /\ key \in [Dirs -> [text : Secrets \cup {"none", "torn"},
                       after : SUBSET (Secrets \cup {"none", "torn"})]]
  /\ links \subseteq [dir : Dirs, key : Secrets]
  /\ trouble \in 0..MaxTrouble

\* A link that a client holds stays good over crashes, restarts and saves that
\* change the data directory and change it back; only a power loss ends it.
LinksVerify == phase = "up" => \A l \in links : l.dir = Dir => l.key = secret

\* A process that runs has settings its workers can work with.
SettingsUsable == phase = "up" => Usable(Meaning[running])

\* Only the end of a process, or a Remove that fails, leaves a temporary file
\* behind: a save that fails at any other call does not.
TidyUntilTrouble == trouble = 0 => Litter = {}

\* What no start survives: half a key, or a hash that does not parse.
Stuck == key[Meaning[config.text].dir].text = "torn" \/ Meaning[config.text].hash = "bad"

\* docs/PROJECT_PLAN.md:202, "The service recovers cleanly after a container
\* restart": however a process ended, one is up again for good, unless stuck.
RecoversUnlessStuck == <>[](phase = "up" \/ Stuck)

\* The secret in use, and that of the links, is the one in the file.
Keys ==
  /\ phase # "down" => running \in Accepted
  /\ phase \in {"creating", "writing", "keyed", "up"} => secret \in Secrets
  /\ phase = "creating" => key[Dir].text = "none"
  /\ phase = "writing" => key[Dir].text = "torn"
  /\ phase \in {"keyed", "up"} => key[Dir].text = secret
  /\ \A l \in links : key[l.dir].text = l.key

\* Only a process that is up has an Authenticator, and requests with it.
Quiet == IF enabled THEN phase = "up" ELSE \A r \in Requests : request[r] = Idle

\* What the safety properties rest on.
Inductive == TypeOK /\ Saves /\ Keys /\ Quiet
=============================================================================
