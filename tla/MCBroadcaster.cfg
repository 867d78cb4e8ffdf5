SPECIFICATION FairSpec
CONSTANTS
    Callers = {a, b}
    Pending = Pending
    Failed = Failed
    NoResponse = NoResponse
    NoHash = NoHash
    BufPolls = 2
    TxPolls = 2
INVARIANTS
    TypeOK
    AnswerKept
    QueriesAccepted
PROPERTIES
    ImplementsSubmission
    EveryCallEnds
CHECK_DEADLOCK FALSE
