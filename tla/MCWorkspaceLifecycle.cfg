SPECIFICATION SumSpec
CONSTANTS
  Requests = {r1, r2}
  Creation = create
  Conns = {c1, c2}
  First = c1
  NoConn = NoConn
  NoTask = NoTask
  Inputs = 3
  FreeBeats = FALSE
  Workspaces = {w1, w2}
  Users = {u1, u2}
  Sizes = {1, 2}
  Cap = 2
  MaxInputs = 2
  MaxFaults = 1
SYMMETRY Symmetry
CHECK_DEADLOCK FALSE
INVARIANTS TypesOK BlockedByOpenTask ExclusiveAtRunner DeletedIsGone CapKeptUnraced RunsAsShown
