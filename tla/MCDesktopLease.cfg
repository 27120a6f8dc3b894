SPECIFICATION FairSpec
CONSTANTS
  Viewers = {v1}
  Runs = {r1}
  MaxFaults = 1
CHECK_DEADLOCK FALSE
PROPERTIES CopySettles DeadSessionEnds
