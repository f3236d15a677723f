SPECIFICATION FairSpec
CONSTANTS
    Workers = {poller}
    Txids = {tx1, tx2}
    Phases <- MCCreationOnly
    MaxRetraces = 0
    MaxReplacements = 1
    MaxReruns = 1
    MaxAborts = 0
    None = none
PROPERTIES
    RebuildCompletes
CHECK_DEADLOCK FALSE
