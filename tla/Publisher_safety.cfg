SPECIFICATION Spec
CONSTANTS
  s1 = s1
  s2 = s2
  Pub = Pub
  NoProc = NoProc
  NoFd = NoFd
  Dead = Dead
  Sub <- TwoSubs
  SLOTS = 1
  SeqModulus = 3
  Sizes = {1, 12}
  Backlog = 1
  PurgeLag = 0
  Denied <- Nobody
  Killable <- Everyone
  Signalled <- Everyone
  MaxPub = 2
SYMMETRY Symmetry
CHECK_DEADLOCK FALSE
INVARIANTS
  ReadInvariant
  SlotInvariant
  TypeOK
  DescriptorsBalanced
PROPERTIES
  ImplementsLatestValue
  NothingTwice
