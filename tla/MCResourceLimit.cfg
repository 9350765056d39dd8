SPECIFICATION LimitSpec
CONSTANTS
  Infinity = 6
  Wanted = 3
INVARIANTS
  RaisedEnough
  RestoredExactly
CHECK_DEADLOCK FALSE
