SPECIFICATION FairSpec
CONSTANTS
    StartHeight = 1
    MaxHeight = 2
    MaxReorgs = 1
    MaxRestarts = 1
    MaxResets = 1
    PollInterval = 2
    BackoffFloor = 1
    BackoffCap = 2
INVARIANTS
    ProgressSound
    PoolsRefreshedFirst
PROPERTIES
    PublishesRealtimeOnly
    CatchUpCompletes
