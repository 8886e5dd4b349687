SPECIFICATION Spec

CONSTANTS
  c1 = c1
  c2 = c2
  Clients <- OneClient
  Size = 1
  Framings <- SizedFraming
  Headers <- PlainHeaders
  Starters <- ClientStarts
  Priors <- NoPrior
  PartialTTL = 1
  Leftovers <- NoLeftovers
  KeptLengths <- TheLength
  Later = FALSE

INVARIANT
  SuccessReachesAll
