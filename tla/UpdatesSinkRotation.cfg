SPECIFICATION Spec
CONSTANTS
  EvBuf = 2
  MaxSize = 2
  MaxEvents = 2
  MaxFaults = 1
  MaxRuns = 1
PROPERTIES RotationKeepsLoop
CHECK_DEADLOCK FALSE
