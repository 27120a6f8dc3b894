SPECIFICATION Spec
CONSTANTS
  Sessions = {root, s1, s2}
  Root = root
  None = None
  Aborts = {a1, a2}
  MaxDepth = 1
INVARIANTS
  TypeOK
  NoOrphanRun
  AbortStopsTree
  AbortedIsIdle
  CancelNotLost
CHECK_DEADLOCK FALSE
SYMMETRY Symmetry
