CONSTANTS
  Requests = {r1, r2}
  Bodies <- MCBodies
  BufferSize = 2
  BatchSize = 2
  StoreMayFail = TRUE
SYMMETRY Symmetry
SPECIFICATION Spec
INVARIANTS
  TypeOK
  Conservation
  DrainGuarantee
  AbortOnlyAfterForcedClose
  ReplyIsHonest
  OncePerEntryInOrder
  NeverBlocks
  BoundedBacklog
  CounterLag
