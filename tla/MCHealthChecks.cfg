SPECIFICATION FairSpec
CONSTANTS
    Clients = {n1, n2}
    Period = 3
    MinAge = 2
    Idle = 2
    MaxTime = 15
    Timeouts <- MCTimeouts
INVARIANTS
    StopsInTime
    TypeOK
    EveryClientProbed
    PanicNeedsSlowNode
    VerdictsSettled
PROPERTIES
    ProbeSpacing
    MonitorEnds
CHECK_DEADLOCK FALSE
