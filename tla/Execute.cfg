SPECIFICATION FairSpec
CONSTANTS
    AmountSpan = 268435456
    InitialCoins <- MCInitialCoins
    CommandLines <- MCCommandLines
    Executions <- MCExecutions
    Sends <- MCSends
    PoolCalls <- MCPoolCalls
    MaxRequests = 2
    MaxForeign = 1
    MaxFaults = 1
    SyncRetries = 2
INVARIANTS
    ArgsAsWritten
    DraftBalanced
    FeeAsShown
    CommitCoversReveal
PROPERTIES
    RequestEnds
CHECK_DEADLOCK FALSE
