SPECIFICATION FairSpec
CONSTANTS
  main = main
  ta = ta
  dll = dll
  ra = ra
  rb = rb
  rc = rc
  Threads = {main, ta}
  Idle = idle
  Main = main
  Objects = {}
  IntMax = 3
  QuantumReset = 1
  DllRuns <- MCDllRuns
  CallRuns <- MCCallRuns
  Windows = {w1}
  Copied = {w1}
  NoWnd = null
  NoRun = none
  MaxDepth = 2
INVARIANTS
  CallsSound
  ResultIsOwn
  CacheNamesCalled
PROPERTIES
  ExitUnwinds
