SPECIFICATION FairSpec
CONSTANTS
  PoolSize = 3
  MaxDispatch = 2
  MaxOps = 1
  HandlersMayStop = TRUE
INVARIANTS
  TypeOK
  RoundRobin
  NoThreadOutlivesRun
PROPERTIES
  StopEndsRun
  PoolRefinement
CHECK_DEADLOCK FALSE
