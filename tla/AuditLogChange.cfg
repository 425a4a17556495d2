CONSTANTS
  acme = acme
  bob = bob
  search = search
  disk = disk
  full = full
  Contents <- MCContents
  Pieces <- MCPieces
  Fields <- MCFields
  MaxRecords = 3
SPECIFICATION Spec
INVARIANTS
  MiddleChangesFound
