SPECIFICATION Spec
CONSTANTS
    Senders = {s1, s2}
    Clients = {osmo, juno}
    Timed = {juno}
    Keys = {alice, bob}
    Others = {carol}
    Volatile <- MCVolatile
    DefaultKey = bob
    Empty = Empty
    Other = Other
    Addresses = {alice, Other}
    TornKey = TornKey
    NoKey = NoKey
    NoSender = NoSender
    DefaultPrefix = cosmos
    RtyAttNum = 2
    MaxDepth = 2
INVARIANT SendingReturns
CHECK_DEADLOCK FALSE
