CONSTANTS
  disk = disk
  acme = acme
  globex = globex
  bob = bob
  carol = carol
  dave = dave
  timeout = timeout
  Requests = {r1}
  Tenants <- MCTenants
  Identities <- MCIdentities
  Topics = {timeout, disk}
  Score <- MCScore
  MinScore = 1
  Ks = {0, 1}
  DefaultK = 2
  DefaultLimit = 2
  FeedLimit = 1
  Seeds <- MCSeeds
  MaxWrites = 3
SPECIFICATION Spec
INVARIANTS
  TypeOK
  AnswersAreOwn
  EvidenceIsCited
  
