SPECIFICATION Spec
CONSTANTS
  Handler = {h1, h2}
  NoHandler = NoHandler
  Types = {"raw", "jpeg"}
  Native = "raw"
  DefaultType = "jpeg"
  MaxImages = 3
  MaxGone = 1
  Requests <- SomeRequests
  MaxRequests = 2
INVARIANT PeerInvariant
PROPERTIES Newest Converted
SYMMETRY Symmetry
