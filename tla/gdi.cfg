SPECIFICATION Spec
CONSTANTS
  MaxHandles = 3
  ReuseSpan = 8
  PoolSize <- TwoDcs
  HeapSize <- TwoMoreDcs
  Colors = {0, 1}
  Levels <- MCLevels
  MaxReuse = 2
CHECK_DEADLOCK FALSE
INVARIANTS
  HandlesSound
  ObjectsOwned
PROPERTIES
  SaveRestoreIsStack
