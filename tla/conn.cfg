SPECIFICATION FairSpec
CONSTANTS
  c1 = c1
  c2 = c2
  Callers = {c1, c2}
  Notifiers = {c2}
  Cancellable = {c2}
  MaxRequests = 1
  HandlersCall = TRUE
  PeerErrors = TRUE
CHECK_DEADLOCK FALSE
INVARIANTS
  TypeOK
  OwnResponse
  LoopNeverBlocks
PROPERTIES
  CallsReturn
  LoopReturns
