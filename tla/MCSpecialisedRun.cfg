SPECIFICATION Spec
CHECK_DEADLOCK FALSE
CONSTANTS
  Objects = {"x", "y", "u"}
  Opaque = {"u"}
  Programs <- AllPrograms
INVARIANTS
  TypeOK
  ChecksSuffice
  UncheckedLoadsClean
  KillsSettled
  KilledNeverRead
