SPECIFICATION Spec

CONSTANTS
  artifact = artifact
  index = index
  c1 = c1
  c2 = c2
  s1 = s1
  s2 = s2
  Keys <- OneArtifact
  Clients <- TwoClients
  Sessions <- OneSession
  Bytes <- Lengths
  Changing <- OneArtifact
  MaxGen = 1
  MaxTime = 1
  RefreshAfter <- Freshness
  InactivityTTL = 0
  WatchInterval = 0
  MaxSize = 1
  Faults <- NoFaults
  Workers <- Cleaning

PROPERTY
  ActiveNotEvicted
