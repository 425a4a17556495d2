CONSTANTS
  Requests = {r1, r2}
  Bodies <- MCFewBodies
  BufferSize = 2
  BatchSize = 2
  StoreMayFail = FALSE
SPECIFICATION Spec
INVARIANT NothingInBufferLost
