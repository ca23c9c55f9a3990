CONSTANTS
  f1 = f1
  f2 = f2
  u1 = u1
  s1 = s1
  Requests = {q1, q2}
  Docs = {f1, f2}
  Sources = {s1}
  Upload = Upload
  SourceOf <- Owner
  Contents = {v1}
  Gone = Gone
  MaxServed = 2
  MaxFaults = 0

SPECIFICATION Spec
CHECK_DEADLOCK FALSE
SYMMETRY Symmetry

INVARIANTS
  DeletedIsGone
