SPECIFICATION Spec
CONSTANTS
  Daemons = {d1, d2}
  Commands = {c1, c2}
  MaxBinds = 4
INVARIANTS ServingReachable RestartsAfterCrash FallbackHasCause
CHECK_DEADLOCK FALSE
