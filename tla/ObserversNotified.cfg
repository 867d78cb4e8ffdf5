SPECIFICATION FairSpec
CONSTANTS
    Chains = {osmo}
    Sessions = {g1}
    NoChain = NoChain
    NoSession = NoSession
    MaxHeight <- MCMaxHeight
PROPERTIES
    ObserversNotified
CHECK_DEADLOCK FALSE
