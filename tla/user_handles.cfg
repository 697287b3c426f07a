SPECIFICATION Spec
CONSTANTS
  w1 = w1
  w2 = w2
  w3 = w3
  w4 = w4
  Objects = {w1, w2, w3, w4}
  Nothing = nothing
  MaxHandles = 4
  GenSpan = 3
  MaxFrees = 2
INVARIANTS
  TableSound
PROPERTIES
  NeverReissued
  ImplementsHandleMap
