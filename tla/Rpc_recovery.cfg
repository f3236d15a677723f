SPECIFICATION FairSpec
CONSTANTS
    Callers = {c1, c2, c3}
    Tracers = {c3}
    MaxPermits = 2
    MaxAttempts = 2
    BaseDelay = 2
    MaxDelay = 2
    CoolDown = 2
    MaxOutages = 1
INVARIANTS
    PermitsAccounted
PROPERTIES
    CallsReturn
    Recovers
