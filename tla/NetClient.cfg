SPECIFICATION FairSpec
CONSTANTS
  Clients = {1, 2}
  None = None
  Options <- BothPrograms
  MaxServed = 3
  MaxReplies = 5
  MaxQueue = 2
INVARIANTS
  ClientInvariant
  ShownInOrder
PROPERTIES
  Recovers
CHECK_DEADLOCK FALSE
