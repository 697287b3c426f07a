CONSTANTS
  exe = exe
  ntdll = ntdll
  kernel32 = kernel32
  a = a
  b = b
  Images = {exe, ntdll, kernel32, a, b}
  Exe = exe
  Ntdll = ntdll
  Absent = absent
  Words = 8
  Low = 1
  Reserved = 9
  Frames = 42
  StackBase = 8
  StackTop = 14
  StackPages = 2
  MainTeb = 32
  TebFloor = 23
  TebStep = 3
  StubNames = {"s", "t"}
  StubRoom = 1
  LdrRoom = 4
  Priority <- MCPriority
  Programs <- MCPrograms
  BeforeLoad <- MCBeforeLoad
  AfterLoad <- MCAfterLoad
  AfterPaging <- MCAfterPaging
  Shared <- MCShared
SPECIFICATION Spec
CHECK_DEADLOCK FALSE
INVARIANTS
  SpaceSound
  LoaderSound
  EntriesOnce
PROPERTIES
  ImplementsAddressMap
  MappedStays
  LoadEnds
