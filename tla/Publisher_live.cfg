SPECIFICATION FairSpec
CONSTANTS
  s1 = s1
  s2 = s2
  Pub = Pub
  NoProc = NoProc
  NoFd = NoFd
  Dead = Dead
  Sub <- TwoSubs
  SLOTS = 1
  SeqModulus = 3
  Sizes = {1}
  Backlog = 1
  PurgeLag = 0
  Denied <- Nobody
  Killable <- Nobody
  Signalled <- Nobody
  MaxPub = 2
CHECK_DEADLOCK FALSE
PROPERTIES
  EveryoneCatchesUp
  GoodbyeIsHeard
  PublisherEnds
