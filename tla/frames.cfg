SPECIFICATION Spec
CONSTANTS
  c1 = c1
  c2 = c2
  Callers = {c1}
  Notifiers = {c2}
  Cancellable = {}
  MaxRequests = 0
  HandlersCall = FALSE
  PeerErrors = FALSE
CHECK_DEADLOCK FALSE
INVARIANTS
  FramesIntact
