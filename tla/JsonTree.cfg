SPECIFICATION Spec
CONSTANTS
  Cell = {i1, i2, i3}
  NULL = NULL
  Name = {k, K}
  Lower <- MCLower
  Kinds <- MCKinds
  MaxRefs = 1
  MaxSilent = 1
  MaxArray = 2
SYMMETRY Symmetry
INVARIANTS TypeOK TreesSound StringsOwned NamesKept CopyIsIdentical
PROPERTIES ImplementsForest
CHECK_DEADLOCK FALSE
