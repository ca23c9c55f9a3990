CONSTANTS
  Calls = {h, c1, c2}
  Handshake = h
  NoCall = NoCall
  HasMessageURL = FALSE
  McpRequests = {a, b}
  MaxRevisions = 2
  MaxLinks = 2

SPECIFICATION MCSpec
CHECK_DEADLOCK FALSE

INVARIANTS
  NoEntryLeaks
  NoCallForgotten
  AnswerNotLost
  McpInv

PROPERTIES
  CallsReturnUnlessStuck
  
