SPECIFICATION FairSpec
CONSTANTS
  r1 = r1
  r2 = r2
  Runs = {r1, r2}
  Cancellable = {r1, r2}
  MaxLines = 2
CHECK_DEADLOCK FALSE
INVARIANTS
  TypeOK
  OwnLog
PROPERTIES
  KeepsRunner
  CancelledLeavesQueue
  RunReturns
