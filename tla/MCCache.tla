------------------------------ MODULE MCCache ------------------------------
(***************************************************************************)
(* Instances of Cache for TLC: an artifact and a metadata object.          *)
(***************************************************************************)
EXTENDS Cache, TLC

CONSTANTS artifact, index, c1, c2, s1, s2

OneArtifact == {artifact}
OneIndex    == {index}
BothKeys    == {artifact, index}

OneClient  == {c1}
TwoClients == {c1, c2}

OneSession  == {s1}
TwoSessions == {s1, s2}

\* An artifact is tracked and never expires; metadata is fresh for one tick.
Freshness == [k \in Keys |-> IF k = index THEN 1 ELSE 0]

\* The artifact shrinks with its second edition, metadata grows.
Lengths ==
  [k \in Keys |-> [g \in Generations |->
     IF g = 0 THEN 0 ELSE IF (k = artifact) = (g = 1) THEN 2 ELSE 1]]

NoFaults   == {}
HardFaults == {"crash", "record", "serve"}
SoftFaults == {"io", "hand"}
LagFault   == {"lag"}

NoWorkers   == {}
Cleaning    == {"cleanup"}
CleaningAhead == {"cleanup", "prefetch"}

ClientSymmetry  == Permutations({c1, c2}) \cup Permutations({s1, s2})
=============================================================================
