CONSTANTS
  Requests = {q1, q2, q3}
  Approvals = {a1}
  Runs = {r1}
  NoRun = NoRun
  NoApproval = NoApproval
  Entries = {"run", "http"}
  MaxSteps = 1
  MaxCrashes = 1
  MaxFaults = 0

SPECIFICATION Spec
CHECK_DEADLOCK FALSE
SYMMETRY Symmetry

INVARIANTS
  ExecutedAtMostOnce
