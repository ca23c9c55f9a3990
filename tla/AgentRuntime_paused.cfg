CONSTANTS
  Requests = {q1, q2, q3}
  Approvals = {a1, a2}
  Runs = {r1}
  NoRun = NoRun
  NoApproval = NoApproval
  Entries = {"run", "http", "resume", "pending"}
  MaxSteps = 2
  MaxCrashes = 0
  MaxFaults = 0

SPECIFICATION Spec
CHECK_DEADLOCK FALSE

INVARIANTS
  PausedIsResumable

PROPERTIES
  ImplementsLifecycle
