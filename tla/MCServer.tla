------------------------------ MODULE MCServer ------------------------------
(***************************************************************************)
(* The instance of Server and Pypi for TLC.  Of the server: two saves at a *)
(* time, of texts that Parse accepts and one that it does not.  Of PyPI:   *)
(* two projects, one of them with releases of one time, several files, and *)
(* one that was yanked.  A behaviour is one of Server, or one of the PyPI  *)
(* backend in a process that has started.                                  *)
(***************************************************************************)
EXTENDS Server, Pypi, TLC

CONSTANTS r1, r2, t1, n1, n2, k1, k2, c1

TwoRequests == {r1, r2}
OneToken    == {t1}
TwoNames    == {n1, n2}
TwoSecrets  == {k1, k2}
TwoDirs     == {"data", "other"}
AllFaults   == {"io", "crash", "power"}

\* The text of homir.yaml, one for another directory, one with a hash that
\* does not parse, and one with an interval of zero.
FourTexts == {"first", "moved", "hash", "zero"}

TheMirror ==
  [name |-> "debian", kind |-> "apt", primary |-> "url", backups |-> {"url"},
   security |-> FALSE, ttl |-> {}]

Simple ==
  [yaml |-> TRUE, listen |-> "addr", dir |-> "data", upstreams |-> {TheMirror},
   size |-> 0, versions |-> 0, times |-> [watch_interval |-> 60], hash |-> ""]

Meanings ==
  [t \in FourTexts |->
     CASE t = "first" -> Simple
       [] t = "moved" -> [Simple EXCEPT !.dir = "other"]
       [] t = "hash"  -> [Simple EXCEPT !.hash = "bad"]
       [] t = "zero"  -> [Simple EXCEPT !.times = [cleanup_interval |-> 0]]]

-----------------------------------------------------------------------------
OneClient   == {c1}
TwoProjects == {"pip", "six"}

Uploaded(project, version, sort, yanked, time) ==
  [project |-> project, version |-> version, sort |-> sort, yanked |-> yanked,
   uploaded |-> time]

\* Releases 1 and 2 are of one time, which their files only have together.
Uploads ==
  [wheel1 |-> Uploaded("pip", 1, "universal", FALSE, 2),
   linux2 |-> Uploaded("pip", 2, "platform", FALSE, 2),
   sdist2 |-> Uploaded("pip", 2, "sdist", FALSE, 1),
   wheel2 |-> Uploaded("pip", 2, "universal", FALSE, 0),
   wheel3 |-> Uploaded("pip", 3, "universal", TRUE, 3),
   linux4 |-> Uploaded("six", 4, "platform", FALSE, 1)]

Pages ==
  {<<"wheel1", "linux2", "sdist2", "wheel2">>, <<"sdist2", "linux2", "wheel3">>,
   <<"linux4">>}

AllFiles == DOMAIN Uploads

-----------------------------------------------------------------------------
VARIABLE subject

BackendInit == subject \in {"server", "pypi"} /\ Init /\ PypiInit

\* Nobody looks at the time while no session is open.
Timely == now' # now => \E t \in Tokens : session[t].open

\* No step of Pypi looks at the key, so one will do.
BackendNext ==
  \/ subject = "server" /\ Next /\ Timely /\ UNCHANGED <<subject, pypiVars>>
  \/ subject = "pypi" /\ Start /\ secret' # k2 /\ UNCHANGED <<subject, pypiVars>>
  \/ subject = "pypi" /\ phase = "up" /\ PypiNext /\ UNCHANGED <<subject, vars>>

BackendSpec ==
  BackendInit /\ [][BackendNext]_<<subject, vars, pypiVars>> /\ WF_vars(Start)
=============================================================================
