SPECIFICATION FairSpec
CONSTANTS
  Days = {1, 2, 3}
  Slots = {1, 2}
  End = End
  Roots = {1, 2, 3, 4}
  MainRoot = 2
  Length <- MCLength
  Contents <- MCContents
  Bad <- MCBad
  Options <- MCOptions
  Skips = {0, 1}
  MaxCommands = 2
 
PROPERTIES
  MovesShown
  NewestShown
CHECK_DEADLOCK FALSE
