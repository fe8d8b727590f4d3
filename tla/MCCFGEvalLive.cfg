SPECIFICATION FairSpec
CONSTANTS
    Values <- Cell
    Top = Top
    NoStore = NoStore
    Programs <- LivePrograms
    MaxIter = 5
PROPERTY Terminates
CHECK_DEADLOCK FALSE
