SPECIFICATION LiveSpec
CONSTANTS
  Prompts = {p1}
  Aborts = {a1, a2}
  NoRun = NoRun
  Serial = FALSE
  Subagent = TRUE
  a1 = a1
  root = root
  s1 = s1
  s2 = s2
CHECK_DEADLOCK FALSE
PROPERTY AnAbortEnds
