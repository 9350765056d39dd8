SPECIFICATION Spec
CONSTANTS
  Timers = {timer1, timer2}
  Threads = {main, t}
  NoTimer = NoTimer
  main = main
  timer1 = timer1
  Limit = 3
  Minute = 2
  MaxSecond = 3
INVARIANTS
  FinalCount
  DateIsOwnUnlessRaced
PROPERTIES
  BothThreadsLeave
