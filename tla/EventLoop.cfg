SPECIFICATION FairSpec
CONSTANTS
  h1 = h1
  h2 = h2
  t1 = t1
  t2 = t2
  Timer <- TwoTimers
  NoTimer = NoTimer
  MaxList = 3
  Kinds <- ReadWrite
  Fds = 2
  Handler <- TwoHandlers
  NoHandler = NoHandler
  Intervals = {0, 1, 2}
  MaxNow = 4
  MaxCalls = 3
INVARIANT LoopInvariant
PROPERTIES
  NoNewcomersInPass
  TimersGoOff
  ImplementsRegistry
CHECK_DEADLOCK FALSE
