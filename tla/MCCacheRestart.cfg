SPECIFICATION Spec

CONSTANTS
  artifact = artifact
  index = index
  c1 = c1
  c2 = c2
  s1 = s1
  s2 = s2
  Keys <- OneIndex
  Clients <- TwoClients
  Sessions <- TwoSessions
  Bytes <- Lengths
  Changing <- OneIndex
  MaxGen = 2
  MaxTime = 1
  RefreshAfter <- Freshness
  InactivityTTL = 0
  WatchInterval = 0
  MaxSize = 1
  Faults <- HardFaults
  Workers <- NoWorkers

SYMMETRY ClientSymmetry

INVARIANTS
  OneTransfer
  RowBacked

PROPERTIES
  FollowsStateMachine
