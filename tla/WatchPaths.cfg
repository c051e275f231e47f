SPECIFICATION Spec
CONSTANTS
  Updates <- MCUpdates
  Queries <- MCQueries
  LocalBuf = 1
  SubBuf = 2
  MaxUpdates = 3
INVARIANTS LocalShowsAll SameWhenUnauthored
CHECK_DEADLOCK FALSE
