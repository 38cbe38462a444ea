SPECIFICATION FairSpec
CONSTANTS
  CacheSize = 2
  PerSec = 2
  Options <- TwoOptions
  FastTimeout = 1
  Sizes = {1}
  MaxNow = 4
  MaxImages = 4
  MaxCommands = 2
  MaxGone = 1
  MaxFaults = 0
  MaxRestarts = 1
INVARIANT RecorderInvariant
PROPERTIES
  LeadIn
  NothingLost
  DropsBack
  Reattaches
CHECK_DEADLOCK FALSE
