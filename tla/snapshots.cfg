SPECIFICATION Spec
CONSTANTS
  h1 = h1
  h2 = h2
  h3 = h3
  h4 = h4
  Holders <- MCHolders
  MaxSeq = 3
SYMMETRY HolderSymmetry
CHECK_DEADLOCK FALSE
INVARIANTS
  IInv
  RefsPositive
  DrainedMeansUnheld
PROPERTIES
  NeverRevived
