CONSTANTS
  Requests = {r1, r2}
  Bodies <- MCBodies
  BufferSize = 2
  BatchSize = 2
  StoreMayFail = FALSE
SPECIFICATION Spec
INVARIANT RejectedStoresNothing
