SPECIFICATION FairSpec
CONSTANTS
    NumTxs = 3
    MaxStones = 1
    FetchWindow = 2
    MaxBatches = 2
    HexTries = 2
INVARIANTS
    CompleteOrError
PROPERTIES
    StageEnds
CHECK_DEADLOCK FALSE
