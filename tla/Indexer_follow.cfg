SPECIFICATION FairSpec
CONSTANTS
    StartHeight <- MCNoStart
    MaxHeight = 3
    MaxReorgs = 2
    MaxRestarts = 1
    MaxResets = 0
    PollInterval = 2
    BackoffFloor = 1
    BackoffCap = 3
INVARIANTS
    PollerNoGap
    ReorgHealed
PROPERTIES
    PollerReachesTip
