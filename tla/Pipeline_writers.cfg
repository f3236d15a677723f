SPECIFICATION FairSpec
CONSTANTS
    Workers = {poller, coordinator}
    Txids = {tx1, tx2}
    Phases <- MCCreationOnly
    MaxRetraces = 0
    MaxReplacements = 0
    MaxReruns = 1
    MaxAborts = 2
    None = none
INVARIANTS
    HotRowsFromOneRun
    DerivedRowsHaveTransaction
PROPERTIES
    ImplementsLedger
    RunCompletes
CHECK_DEADLOCK FALSE
