SPECIFICATION FairSpec
CONSTANTS
  r1 = r1
  r2 = r2
  Runs = {r1}
  Cancellable = {r1}
  MaxLines = 1
CHECK_DEADLOCK FALSE
PROPERTIES
  CancelledRunReturns
