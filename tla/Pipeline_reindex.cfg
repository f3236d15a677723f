SPECIFICATION Spec
CONSTANTS
    Workers = {poller}
    Txids = {tx1, tx2}
    Phases <- MCSwapAndCreation
    MaxRetraces = 1
    MaxReplacements = 1
    MaxReruns = 1
    MaxAborts = 2
    None = none
INVARIANTS
    MarkerMeansIndexed
    DerivedRowsFromOneRun
SYMMETRY MCSymmetry
CHECK_DEADLOCK FALSE
