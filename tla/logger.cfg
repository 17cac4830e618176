SPECIFICATION FairSpec
CONSTANTS
  Goroutines = {"main", "run"}
  Main = "main"
  QueueCap = 1
  MaxGiven = 3
  MaxRecords = 2
  MaxSpare = 1
CHECK_DEADLOCK FALSE
INVARIANTS
  TypeOK
  LoggersIntact
  RecordsComplete
PROPERTIES
  InOrder
  BurstSent
