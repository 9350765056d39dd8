SPECIFICATION AwaitableSpec
CONSTANTS
  Conns = {k1, k2}
  MaxSent = 2
  MaxFd = 2
INVARIANTS
  EchoConserves
PROPERTIES
  ExitsAfterListenEnds
  ServerRefinement
CHECK_DEADLOCK FALSE
