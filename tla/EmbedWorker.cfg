CONSTANTS
  a = a
  b = b
  Contents <- MCContents
  Batches <- MCBatches
  Limit = 2
  LagLimit = 3
  MaxEntries = 6
SPECIFICATION Spec
INVARIANTS
  TypeOK
  CheckpointCovers
  CitesOldest
  CountersAddUp
  FinalPassCovers
  ScrapeAddsUp
PROPERTIES
  LagReachesThresholds
