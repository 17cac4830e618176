SPECIFICATION Spec
CONSTANTS
  u1 = u1
  u2 = u2
  URIs <- MCOneURI
  Kinds = {"save"}
  MaxMods = 1
  SupportsProgress = FALSE
  LateLines = FALSE
  LinesMatch = TRUE
CHECK_DEADLOCK FALSE
INVARIANT
  NoPanicAfterShutdown
