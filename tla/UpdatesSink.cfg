SPECIFICATION FairSpec
CONSTANTS
  EvBuf = 2
  MaxSize = 2
  MaxEvents = 5
  MaxFaults = 2
  MaxRuns = 3
INVARIANTS Retention SizeBound
PROPERTIES ImplementsTailedLog QueuedIsPublished
CHECK_DEADLOCK FALSE
