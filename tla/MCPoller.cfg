SPECIFICATION FairSpec
CONSTANTS
    Chains = {osmo, juno}
    Sessions = {g1, g2}
    NoChain = NoChain
    NoSession = NoSession
    MaxHeight <- MCMaxHeight
INVARIANTS
    TypeOK
    OneQueryPerChain
    CrashNeedsTwoChains
PROPERTIES
    DialledForGood
    HeightsInOrder
    SpawnsWithoutEnd
CHECK_DEADLOCK FALSE
