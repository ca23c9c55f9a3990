CONSTANTS
  f1 = f1
  f2 = f2
  u1 = u1
  s1 = s1
  Requests = {q1, q2}
  Docs = {f1, f2, u1}
  Sources = {s1}
  Upload = Upload
  SourceOf <- Owner
  Contents = {v1, v2}
  Gone = Gone
  MaxServed = 3
  MaxFaults = 1

SPECIFICATION Spec
CHECK_DEADLOCK FALSE
SYMMETRY Symmetry

INVARIANTS
  
  DeletedLeavesNothing
  NoJobLeftRunning

PROPERTIES
  CompletedJobIsFaithful
