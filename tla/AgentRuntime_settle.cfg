CONSTANTS
  Requests = {q1, q2, q3}
  Approvals = {a1}
  Runs = {r1}
  NoRun = NoRun
  NoApproval = NoApproval
  Entries = {"run", "ws", "cancel"}
  MaxSteps = 1
  MaxCrashes = 0
  MaxFaults = 0

SPECIFICATION FairSpec
CHECK_DEADLOCK FALSE

PROPERTIES
  RunsSettle
