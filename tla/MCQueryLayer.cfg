SPECIFICATION FairSpec
CONSTANTS
    Timeout = 2
    MaxHeight = 3
    MaxTime = 4
    Half = 4
    MaxPerPage = 2
    DefaultPerPage = 1
    Flags <- SomeFlags
    Pending = Pending
    TimedOut = TimedOut
    Refused = Refused
    Unavailable = Unavailable
    NetworkError = NetworkError
    Crashed = Crashed
INVARIANTS
    TypeOK
    AnsweredAtHeight
    LatestBlockFound
    PageReached
    NextIncluded
PROPERTIES
    ImplementsReading
    QueryEnds
CHECK_DEADLOCK FALSE
