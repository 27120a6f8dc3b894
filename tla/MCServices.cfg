SPECIFICATION SumSpec
CONSTANTS
  execW = execW
  execS = execS
  Requests = {execW, execS}
  Kind <- CallKind
  MaxLines = 1
  MaxEvents = 2
  Procs = {p1}
  Calls = {q1, q2}
  None = None
  MaxFaults = 1
  jobA = jobA
  jobB = jobB
  MaxInputs = 2
  pageA = pageA
  tunA = tunA
CHECK_DEADLOCK FALSE
INVARIANTS TypesOK  ShownInOrder RegistrationEnds StreamComplete
PROPERTIES  KeepsPromise
SYMMETRY Symmetry
