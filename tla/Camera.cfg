SPECIFICATION CameraFairSpec
CONSTANTS
  h1 = h1
  h2 = h2
  Handler <- TwoHandlers
  NoHandler = NoHandler
  Null = Null
  Pictures = {"p"}
  Wants <- MCWants
  MaxTasks = 2
  Options <- MCOptions
INVARIANT CameraInvariant
PROPERTIES
  PicturesCome
  LossShown
CHECK_DEADLOCK FALSE
