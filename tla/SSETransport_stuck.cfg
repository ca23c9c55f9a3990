CONSTANTS
  Calls = {h, c1, c2}
  Handshake = h
  NoCall = NoCall
  HasMessageURL = FALSE

SPECIFICATION FairSpec
CHECK_DEADLOCK FALSE

PROPERTIES
  CallsReturn
