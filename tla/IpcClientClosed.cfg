SPECIFICATION Spec
CONSTANTS
  Callers = {c1}
  SharedClient = FALSE
  EventsCap = 1
  WireCap = 2
  MaxCalls = 1
  MaxUpdates = 1
INVARIANT InFlightCallReturns
CHECK_DEADLOCK FALSE
