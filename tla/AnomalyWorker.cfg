CONSTANTS
  p = p
  q = q
  acme = acme
  globex = globex
  Series <- MCSeries
  Tenants <- MCTenants
  TenantOf <- MCTenantOf
  Batches <- MCBatches
  Limit = 3
  FeedCap = 2
  ZThreshold = 2
  Warmup = 2
  MaxEntries = 6
SPECIFICATION FairSpec
INVARIANTS
  TypeOK
  CountedOnce
  EventsAreEarned
  JumpRaises
  BaselineBounded
  RecentIsNewest
PROPERTIES
  EventuallyObserved
