SPECIFICATION Spec
CONSTANTS
  c1 = c1
  c2 = c2
  Conns = {c1, c2}
  NoConn = NoConn
  Filters <- AllUpdates
  Events <- OneEvent
  BufSize = 1
  MaxSubs = 2
  MaxEvents = 1
SYMMETRY Symmetry
INVARIANTS Lifecycle NoSendOnClosed ResponseFirst NoOrphan
CHECK_DEADLOCK FALSE
