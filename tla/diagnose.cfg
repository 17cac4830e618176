SPECIFICATION Spec
CONSTANTS
  u1 = u1
  r1 = r1
  r2 = r2
  URIs = {u1}
  Resources = {r1, r2}
  Contents <- MCContents
  Creates <- MCCreates
  Literal <- MCLiteral
  Missing = "missing"
  Unread = "unread"
  NoPosition = NoPosition
  NoFile = NoFile
  MaxSeq = 1
  MaxEvents = 3
  MaxOdd = 1
  MaxChanges = 1
SYMMETRY MCSymmetry
CHECK_DEADLOCK FALSE
INVARIANTS
  TypeOK
  StoreMatchesLog
  ReportsComplete
  PanicExplained
  ConsistentUnderRun
PROPERTIES
  StableUnderRun
