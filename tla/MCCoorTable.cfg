SPECIFICATION Spec
CONSTANTS
  Coor = {c1, c2, c3, c4}
  Fd = {7, 8}
  Addr = {a1, a2, a3}
  NULL = NULL
SYMMETRY Symmetry
INVARIANTS TypeOK ListSound
PROPERTY ImplementsCoorMap
CHECK_DEADLOCK FALSE
