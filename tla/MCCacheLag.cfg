SPECIFICATION Spec

CONSTANTS
  artifact = artifact
  index = index
  c1 = c1
  c2 = c2
  s1 = s1
  s2 = s2
  Keys <- OneIndex
  Clients <- OneClient
  Sessions <- OneSession
  Bytes <- Lengths
  Changing <- OneIndex
  MaxGen = 2
  MaxTime = 1
  RefreshAfter <- Freshness
  InactivityTTL = 0
  WatchInterval = 0
  MaxSize = 1
  Faults <- LagFault
  Workers <- NoWorkers

PROPERTY
  NotReplacedByOlder
