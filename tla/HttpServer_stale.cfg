SPECIFICATION Spec
CONSTANTS
  Handler = {h1, h2}
  NoHandler = NoHandler
  Types = {"raw", "jpeg"}
  Native = "raw"
  DefaultType = "jpeg"
  MaxImages = 2
  MaxGone = 0
  Requests <- SomeRequests
  MaxRequests = 2
PROPERTY Notified
