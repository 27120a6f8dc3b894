SPECIFICATION Spec
CONSTANTS
  Prompts = {p1, p2, p3}
  Aborts = {}
  NoRun = NoRun
  Serial = TRUE
  Subagent = FALSE
INVARIANTS
  OneActiveRun
CHECK_DEADLOCK FALSE
