SPECIFICATION FairSpec
CONSTANTS
  Sizes = {2, 4}
  Backlog = 2
  RateLimited = TRUE
  Mortal = {"parent", "child"}
  MaxSent = 4
CHECK_DEADLOCK FALSE
INVARIANTS
  PipeInvariant
PROPERTIES
  MessagesInOrder
  LastMessageArrives
  SendReturns
