CONSTANTS
  MaxRuns = 1
  MaxFloods = 0
  MaxWait = 0
  MaxLosses = 0
SPECIFICATION Spec
INVARIANT WireIdIsKey
CHECK_DEADLOCK FALSE
