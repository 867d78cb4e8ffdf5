SPECIFICATION Spec
CONSTANTS
    Clients = {n1, n2}
    Period = 3
    MinAge = 2
    Idle = 2
    MaxTime = 15
    Timeouts <- MCTimeouts
INVARIANT StopsOnlyWhenIdle
CHECK_DEADLOCK FALSE
