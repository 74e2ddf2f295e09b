SPECIFICATION FairSpec
CONSTANTS
    c1 = c1
    c2 = c2
    c3 = c3
    m1 = m1
    m2 = m2
    NoConnection = NoConnection
    Unknown = Unknown
    Connections = {c1, c2, c3}
    Messages = {m1, m2}
    Settings <- MCSettings
INVARIANTS
    TurnTypeOK
    OneGeneration
    ReplayIsRecent
PROPERTIES
    EveryStreamEnds
    TurnComesFree
CHECK_DEADLOCK FALSE
