SPECIFICATION FairSpec
CONSTANTS
    Pools <- MCPools
    Tokens <- MCTokens
    Amounts <- MCAmounts
    MaxHeight = 3
    MaxDisturbances = 1
    MaxRestarts = 1
    None = None
INVARIANTS PoolHasSnapshot SnapshotsAreChanges SnapshotsNotOlder NotifiedIsStored
PROPERTIES SnapshotsSettle
CHECK_DEADLOCK FALSE
