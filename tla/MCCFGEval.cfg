SPECIFICATION Spec
CONSTANTS
    Values <- Cell
    Top = Top
    NoStore = NoStore
    Programs <- AllPrograms
    MaxIter = 5
INVARIANTS
    TypeOK
    NeverOverdrawn
    PendingNeverNegative
    NothingHeldAtTheEnd
    NextIterationHasLatch
    EveryRunCovered
    CertainOnEveryReturn
CHECK_DEADLOCK FALSE
PROPERTY SettledIterationsStand
