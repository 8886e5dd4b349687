SPECIFICATION StallingSpec

CONSTANTS
  c1 = c1
  c2 = c2
  Clients <- TwoClients
  Size = 1
  Framings <- CloseFraming
  Headers <- PlainHeaders
  Starters <- ClientStarts
  Priors <- NoPrior
  PartialTTL = 1
  Leftovers <- NoLeftovers
  KeptLengths <- TheLength
  Later = FALSE

PROPERTIES
  HandlersEnd
  AbandonedEnds
  EveryRequestEnds
