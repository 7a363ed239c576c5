SPECIFICATION FairSpec
CONSTANTS
  c1 = c1
  c2 = c2
  Consumers <- TwoConsumers
  MaxEntries = 2
  EntryKind <- JobAndUnknown
  BatchSize = 1
  MaxAttempts = 2
  MaxFaults = 1
INVARIANTS
  NoLimbo
PROPERTIES
  ImplementsJobDelivery
  EveryJobLeaves
