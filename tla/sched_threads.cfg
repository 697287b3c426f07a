SPECIFICATION FairSpec
CONSTANTS
  main = main
  ta = ta
  tb = tb
  o1 = o1
  o2 = o2
  Threads = {main, ta, tb}
  Idle = idle
  Main = main
  Objects = {}
  IntMax = 3
  QuantumReset = 2
  MaxDepth = 1
  Limits = {}
  Releases = {}
  CloseLive = FALSE
INVARIANTS
  DispatchSound
  WaitSavesContext
PROPERTIES
  TerminatedIsFinal
  FifoOrder
  EndStopsGuest
