CONSTANTS
  MaxRuns = 3
  MaxFloods = 2
  MaxWait = 2
  MaxLosses = 2
SPECIFICATION Spec
INVARIANTS OncePerKey SuccessIsStored RefusalStoresNothing
\* The script gives up, or has what it wanted.
CHECK_DEADLOCK FALSE
