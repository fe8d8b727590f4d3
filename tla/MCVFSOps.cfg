SPECIFICATION Spec
CHECK_DEADLOCK FALSE
CONSTANTS
  Opaque = {}
  FileSize = 4
  Wide = 256
  Narrow = 16
  ElimRedundantChecks = TRUE
  Unknown = Unknown
  Programs <- AllPrograms
INVARIANTS
  TypeOK
  TwoPassesSuffice
  FilesAsInOriginal
  UncheckedReadsAskedBefore
