SPECIFICATION Spec
CONSTANTS
    Callers = {a, b}
    Pending = Pending
    Failed = Failed
    NoResponse = NoResponse
    NoHash = NoHash
    BufPolls = 2
    TxPolls = 2
INVARIANT ReturnsOwnResponse
CHECK_DEADLOCK FALSE
