CONSTANTS
  MaxMods = 2
  Roots = {TRUE, FALSE}
  Windows = {TRUE, FALSE}
SPECIFICATION FairSpec
INVARIANTS
  TypeOK
  RepliedOnce
  WorksMatchRuns
  DrainedMeansEnded
PROPERTIES
  HandlersReturn
  WorksEnd
CHECK_DEADLOCK FALSE
