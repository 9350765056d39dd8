SPECIFICATION FairServerSpec
CONSTANTS
  PoolSize = 2
  MaxDispatch = 4
  MaxOps = 3
  HandlersMayStop = FALSE
  Conns = {k1, k2}
  NoConn = NoConn
  MaxSent = 2
  MaxFd = 2
INVARIANTS
  OpsAccounted
  OneCallerOfGetIoContext
  Spread
PROPERTIES
  RequestsAreRead
  ServerRefinement
CHECK_DEADLOCK FALSE
