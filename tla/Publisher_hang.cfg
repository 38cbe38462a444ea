SPECIFICATION FairSpec
CONSTANTS
  s1 = s1
  s2 = s2
  Pub = Pub
  NoProc = NoProc
  NoFd = NoFd
  Dead = Dead
  Sub <- OneSub
  SLOTS = 1
  SeqModulus = 8
  Sizes = {1}
  Backlog = 1
  PurgeLag = 0
  Denied <- Nobody
  Killable <- Nobody
  Signalled <- OnlyPub
  MaxPub = 1
CHECK_DEADLOCK FALSE
PROPERTY PublisherEnds
