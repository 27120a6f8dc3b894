SPECIFICATION SumSpec
CONSTANTS
  Prompts = {p1, p2}
  Aborts = {a1}
  NoRun = NoRun
  Serial = FALSE
  Subagent = FALSE
  ContextLength = 10
  MaxOutput = 4
  OutputTokenMax = 4
  MinPreserve = 6
  MaxPreserve = 6
  Earlier <- Histories
  MaxTurns = 3
  MaxSteps = 2
  MaxRetries = 1
  MaxCalls = 2
  MaxDeltas = 1
  PromptSizes = {1}
  ResultSizes = {3}
  TokenCounts = {0, 6}
  Questions = {q1}
  Limits <- PageLimits
CHECK_DEADLOCK FALSE
INVARIANTS TypesOK BusyHasOwner AbortReturnsAfterRun SettledUnlessInterrupted AbortedIsReported RequestsComplete  PageCatchesUp
SYMMETRY Symmetry
