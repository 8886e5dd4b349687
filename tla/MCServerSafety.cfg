SPECIFICATION BackendSpec

CONSTANTS
  r1 = r1
  r2 = r2
  t1 = t1
  n1 = n1
  n2 = n2
  k1 = k1
  k2 = k2
  c1 = c1
  Texts <- FourTexts
  Meaning <- Meanings
  First = "first"
  Requests <- TwoRequests
  Tokens <- OneToken
  Names <- TwoNames
  Lifetime = 0
  MaxTime = 1
  Faults <- AllFaults
  Dirs <- TwoDirs
  Secrets <- TwoSecrets
  Password = TRUE
  MaxTrouble = 1
  Projects <- TwoProjects
  Files <- AllFiles
  Facts <- Uploads
  Documents <- Pages
  Backups = 1
  Clients <- OneClient
  Limit = 1
  Retention = 0
  Interval = 0
  LastTime = 1

INVARIANTS
  AlwaysLoads
  LinksVerify
  SettingsUsable
  TidyUntilTrouble
  Inductive
  PrefetchesAsked
  ReleasesExact
  PypiInductive

PROPERTIES
  SavesOwn
  RecoversUnlessStuck
  CheckedWhenListed
