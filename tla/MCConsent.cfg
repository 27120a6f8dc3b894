SPECIFICATION SumSpec
CONSTANTS
  c1 = c1
  c2 = c2
  c3 = c3
  Calls = {c1, c2, c3}
  Tool <- MCTool
  Action <- MCAction
  RunOf <- MCRunOf
  Runs = 2
  Users = {u1, u2}
  Aborts = {a1}
  None = None
  Secrets = {A}
  Requesters = {r1}
  Handlers = {t1, t2}
  MaxInputs = 2
  MaxFaults = 1
INVARIANTS
  TypeOK
  GrantedIsAllowed
  ResolvedIsWoken
  AbortClosesGates
  FlagCovers
SYMMETRY Symmetry
CHECK_DEADLOCK FALSE
