SPECIFICATION SetupSpec
SYMMETRY Alike
CONSTANTS
    Endpoints = {a, b, c, d}
    Nil = Nil
    Outside = Outside
    Registry = {a, b, c}
    Matching = {a, b, c}
    Hosts = {d}
    Pending = Pending
    Failed = Failed
    Garbled = Garbled
    Crashed = Crashed
    Source = osmosis
    Dest = cosmoshub
    NoName = NoName
    MaxChannels = 2
    NoFile = NoFile
    NotFound = NotFound
INVARIANTS
    SetupTypeOK
    OutsideNeedsThree
    OwnEndFirst
    FoundUnlessMoved
PROPERTIES
    ImplementsSelection
    SoleHealthyTaken
    EveryStepCounts
CHECK_DEADLOCK FALSE
