SPECIFICATION Spec
CONSTANTS
  u1 = u1
  u2 = u2
  URIs <- MCURIs
  Kinds = {"open", "save"}
  MaxMods = 2
  SupportsProgress = TRUE
  LateLines = TRUE
  LinesMatch = FALSE
SYMMETRY URISymmetry
CHECK_DEADLOCK FALSE
INVARIANTS
  TypeOK
  HoldsWhileWorking
  NoWorkAfterShutdown
PROPERTIES
  SaveResultsInOrder
  UpdateCoversAll
  KeepsSnapshots
