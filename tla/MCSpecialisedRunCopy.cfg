SPECIFICATION Spec
CHECK_DEADLOCK FALSE
CONSTANTS
  Objects = {"x", "y", "u"}
  Opaque = {"u"}
  Programs <- Copies
INVARIANT UncheckedLoadsClean
