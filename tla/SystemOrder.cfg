CONSTANTS
  a = a
  b = b
  Requests = {r1}
  Bodies <- MCBodies
  BufferSize = 1
  BatchSize = 2
  StoreMayFail = FALSE
  Contents <- MCContents
  ContentOf <- MCContentOf
  TickLimit = 1
SPECIFICATION SystemSpec
INVARIANT WorkersExitLast
