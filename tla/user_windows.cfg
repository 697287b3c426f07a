SPECIFICATION Spec
CONSTANTS
  w1 = w1
  w2 = w2
  w3 = w3
  w4 = w4
  app = app
  button = button
  exe = exe
  dll = dll
  Nothing = nothing
  NoInstance = noinstance
  Wnds = {w1, w2, w3, w4}
  Names = {app, button}
  Instances = {exe, dll}
  SystemDefs <- MCSystemDefs
  WndClasses <- MCWndClasses
  NameReads = {0, 2}
  MaxAtoms = 2
  TopAtom = 2
  HeapSize = 4
  MaxDepth = 2
  MaxClasses = 3
  MaxCreates = 5
  MaxHandles = 5
  GenSpan = 8
SYMMETRY AddressSymmetry
CHECK_DEADLOCK FALSE
INVARIANTS
  WindowsSound
  RecordsExact
  MirrorSound
  EnumerationComplete
PROPERTIES
  CallsKeep
