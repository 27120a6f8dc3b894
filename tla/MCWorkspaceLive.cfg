SPECIFICATION LiveSpec
CONSTANTS
  Requests = {r1}
  Creation = create
  Conns = {c1, c2}
  First = c1
  NoConn = NoConn
  NoTask = NoTask
  Inputs = 2
  FreeBeats = TRUE
  Secrets = {A}
  None = None
  Users = {u1}
  Handlers = {t1, t2}
  MaxInputs = 1
  MaxFaults = 1
PROPERTIES
  DeletionCompletes
  DeathIsNoticed
  FlagSettles
CHECK_DEADLOCK FALSE
