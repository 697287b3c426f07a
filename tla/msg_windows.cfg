SPECIFICATION Spec
CONSTANTS
  desk = desk
  a = a
  b = b
  d = d
  e = e
  x = x
  Desktop = desk
  Windows = {a, b, d, e}
  Gone = {x}
  ThreadOnly = threadOnly
  NoWnd = null
  ParentOf <- MCParentOf
  ChildOf <- MCChildOf
  NextOf <- MCNextOf
  InitVisible = {a, b}
  Cap = 2
  Filters <- WindowFilters
  Posts = {}
  ShowArgs = {d, e}
  FocusArgs = {desk, a}
  KeyArgs = {a}
  ActiveArgs = {e}
  CloseArgs = {b, x}
CHECK_DEADLOCK FALSE
INVARIANTS
  PaintsInOrder
  FocusToldRight
