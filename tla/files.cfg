CONSTANTS
  MaxHandles = 5
  NoObject = noobject
  Mappings <- MCMappings
  NoDrive = nodrive
  DefaultDrive = "C"
  Refused = refused
  Paths <- MCPaths
  Dirs <- MCDirs
  Files <- MCFiles
  Links <- MCLinks
  Disks <- MCDisks
  Texts <- MCTexts
  MaxFd = 4
  Modes = {"r", "rw"}
  MaxSize = 1
  o1 = o1
  Objects = {o1}
SPECIFICATION Spec
VIEW WithoutHistory
INVARIANTS
  FilesSound
  FullMeansFull
  PathsMeant
PROPERTIES
  ImplementsOpenFiles
  ContentsKept
