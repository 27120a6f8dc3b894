SPECIFICATION Spec
CONSTANTS
  Workspaces = {w1}
  Users = {u1}
  Sizes = {1}
  Cap = 2
  MaxInputs = 2
  MaxFaults = 0
PROPERTY StopsInactive
CHECK_DEADLOCK FALSE
