SPECIFICATION RtpFairSpec
CONSTANTS
  Packets <- MCPackets
  Modulus = 16
  MaxKept = 4
  StaleTimeout = 1
  FrameLimit = 2
  PacketTypes = {0, 96}
  Dropped = {"e"}
INVARIANT WholeUnits
PROPERTY Heard
PROPERTY TakesOver
CHECK_DEADLOCK FALSE
