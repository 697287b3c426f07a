SPECIFICATION FairSpec
CONSTANTS
  desk = desk
  a = a
  b = b
  d = d
  e = e
  x = x
  Desktop = desk
  Windows = {a, b, d, e}
  Gone = {x}
  ThreadOnly = threadOnly
  NoWnd = null
  ParentOf <- MCParentOf
  ChildOf <- MCChildOf
  NextOf <- MCNextOf
  InitVisible = {a, b}
  Cap = 3
  Filters <- RingFilters
  Posts <- RingPosts
  ShowArgs = {a}
  FocusArgs = {}
  KeyArgs = {}
  ActiveArgs = {}
  CloseArgs = {}
CHECK_DEADLOCK FALSE
INVARIANTS
  QueueSound
PROPERTIES
  ImplementsMessageQueue
  QuitEndsLoop
