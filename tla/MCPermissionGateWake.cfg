SPECIFICATION FairSpec
CONSTANTS
  c1 = c1
  c2 = c2
  c3 = c3
  Calls = {c1, c2, c3}
  Tool <- MCTool
  Action <- MCAction
  RunOf <- MCRunOf
  Runs = 2
  Users = {u1}
  Aborts = {a1}
  None = None
CHECK_DEADLOCK FALSE
PROPERTIES
  AnsweredIsWoken
