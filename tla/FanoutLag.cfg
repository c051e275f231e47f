SPECIFICATION FairSpec
CONSTANTS
  c1 = c1
  c2 = c2
  Conns = {c1}
  NoConn = NoConn
  Filters <- MCFilters
  Events <- MCEvents
  BufSize = 1
  MaxSubs = 1
  MaxEvents = 4
INVARIANTS TypeOK FeedInv Accounting DropHasCarrier
PROPERTIES CleanEnd ImplementsLossyFeed LagSurfaces ShutdownDrains DisconnectCleansUp
CHECK_DEADLOCK FALSE
