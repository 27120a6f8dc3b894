SPECIFICATION Spec
CONSTANTS
  s = s
  MaxLines = 1
  MaxEvents = 2
  Procs = {p1}
  Calls = {q1}
  None = None
  MaxFaults = 2
  j = j
  capA = capA
  p = p
  tunA = tunA
  MaxInputs = 2
CHECK_DEADLOCK FALSE
PROPERTIES   EndsAreTold
