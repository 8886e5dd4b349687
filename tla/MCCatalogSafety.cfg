SPECIFICATION CatalogSpec

CONSTANTS
  old = old
  amd = amd
  arm = arm
  both = both
  amdIndex = amdIndex
  armIndex = armIndex
  c1 = c1
  Indexes <- TwoIndexes
  Packages <- ThePackage
  Artifacts <- AllArtifacts
  About <- Built
  AnyArch = "all"
  Editions <- SomeEditions
  Clients <- OneClient
  Limit = 1
  Retention = 0
  Interval = 0
  MaxTime = 1
  Written <- ShortVersions
  MaxInt = 15

INVARIANTS
  RowsListed
  OnlyRequested
  SelectionExact
  Inductive
  DebianExact
  ApkExact

PROPERTY
  WatchedByRequest
