SPECIFICATION Spec
SYMMETRY Symmetry
VIEW UpToNaming
CHECK_DEADLOCK FALSE
CONSTANTS
  Edges = {e1, e2, e3, e4}
  Slots = {s1}
  Vals = {v1, v2}
  MaxDepth = 1
  Sizes <- Instances
  None = None
INVARIANTS
  TypeOK
  RefCountsExact
  EmptyIsEmpty
  FlaggedHasEntry
PROPERTY
  ImplementsAbsStore
