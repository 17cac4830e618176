SPECIFICATION FairSpec
CONSTANTS
  u1 = u1
  u2 = u2
  URIs <- MCOneURI
  Kinds = {"save"}
  MaxMods = 1
  SupportsProgress = TRUE
  LateLines = FALSE
  LinesMatch = TRUE
CHECK_DEADLOCK FALSE
PROPERTIES
  LoadedShutdownReturns
