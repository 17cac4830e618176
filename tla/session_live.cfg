SPECIFICATION FairSpec
CONSTANTS
  u1 = u1
  u2 = u2
  URIs <- MCOneURI
  Kinds = {"open", "save"}
  MaxMods = 2
  SupportsProgress = FALSE
  LateLines = FALSE
  LinesMatch = TRUE
CHECK_DEADLOCK FALSE
PROPERTIES
  LastSavePublished
  FailedLoadShown
  LoadedShutdownReturns
