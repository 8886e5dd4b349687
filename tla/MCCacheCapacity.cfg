SPECIFICATION CleaningSpec

CONSTANTS
  artifact = artifact
  index = index
  c1 = c1
  c2 = c2
  s1 = s1
  s2 = s2
  Keys <- BothKeys
  Clients <- OneClient
  Sessions <- OneSession
  Bytes <- Lengths
  Changing <- OneArtifact
  MaxGen = 2
  MaxTime = 0
  RefreshAfter <- Freshness
  InactivityTTL = 0
  WatchInterval = 0
  MaxSize = 1
  Faults <- NoFaults
  Workers <- CleaningAhead

PROPERTIES
  EvictsForReason
  CapacityRestored
