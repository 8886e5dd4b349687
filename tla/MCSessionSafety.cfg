SPECIFICATION Spec

CONSTANTS
  c1 = c1
  c2 = c2
  Clients <- TwoClients
  Size = 2
  Framings <- SoundFramings
  Headers <- SomeHeaders
  Starters <- AnyStarts
  Priors <- AnyPrior
  PartialTTL = 1
  Leftovers <- SomeLeftovers
  KeptLengths <- SomeLengths
  Later = TRUE

SYMMETRY ClientSymmetry

INVARIANTS
  ReaderCount
  AnnouncedIsStored
  NoLostWakeup
  DoneMeansWhole
  SuccessIsDurable
  PromotedIsReceived
  Inductive

PROPERTIES
  VerdictIsFinal
  NoCancelUnderReader
  KeepsPromise
