SPECIFICATION Spec
SYMMETRY Symmetry
VIEW UpToNaming
CHECK_DEADLOCK FALSE
CONSTANTS
  Maps = {m1, m2, m3}
  Keys = {0, 1, 2, 5}
  HEAPTREEORDER = 2
  MaxHeight = 3
  MaxNodes = 24
  MaxWrites = 2
  None = None
INVARIANTS
  TypeOK
  NodeRefsExact
PROPERTY
  ImplementsAbsHeap
