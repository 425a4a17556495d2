CONSTANTS
  Keys = {k1}
  Callers = {c1, c2}
  Capacity = 3
  Cost = 2
  TTL = 7
  MaxStall = 2
  MaxTime = 11
SYMMETRY Symmetry
SPECIFICATION Spec
INVARIANTS
  TypeOK
  WindowBound
PROPERTIES
  SweepHarmless
