CONSTANTS
  acme = acme
  globex = globex
  bob = bob
  carol = carol
  dave = dave
  timeout = timeout
  Requests = {r1, r2}
  Tenants <- MCTenants
  Identities <- MCIdentities
  Topics = {timeout}
  Score <- MCScore
  MinScore = 1
  Ks = {1}
  DefaultK = 2
  DefaultLimit = 2
  FeedLimit = 1
  Seeds <- MCSeeds
  MaxWrites = 1
  Bounds <- MCBounds
  Values <- MCValues
SPECIFICATION TimedSpec
INVARIANTS
  GrantedMeansAudited
  HistogramExact
