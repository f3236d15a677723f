SPECIFICATION FairSpec
CONSTANTS
    NumTxs = 2
    MaxStones = 1
    FetchWindow = 2
    MaxBatches = 2
    HexTries = 2
INVARIANTS
    NothingDropped
CHECK_DEADLOCK FALSE
