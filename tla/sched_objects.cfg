SPECIFICATION Spec
CONSTANTS
  main = main
  ta = ta
  tb = tb
  o1 = o1
  o2 = o2
  Threads = {main, ta}
  Idle = idle
  Main = main
  Objects = {o1, o2}
  IntMax = 3
  QuantumReset = 1
  MaxDepth = 2
  Limits = {2}
  Releases = {1, 3}
  CloseLive = FALSE
SYMMETRY ObjectSymmetry
INVARIANTS
  TypeOK
  ObjectsSound
PROPERTIES
  MutantHandover
  FailedCallChangesNothing
