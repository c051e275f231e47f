SPECIFICATION FairSpec
CONSTANTS
  Callers = {c1, c2}
  SharedClient = TRUE
  EventsCap = 1
  WireCap = 1
  MaxCalls = 2
  MaxUpdates = 2
INVARIANTS AnswerIsOwn ReaderNeverStuck EventsInOrder
PROPERTIES ImplementsRemoteCalls CallsEndWithConnection DialSettles
CHECK_DEADLOCK FALSE
