\* Three connections of two devices, one of them with the empty id: every
\* order of reconnecting and ending.
CONSTANTS
    C1 = C1
    C2 = C2
    C3 = C3
    NoConn   = NoConn
    NoDevice = NoDevice
    NoTopic  = NoTopic
    Level      <- MCLevel
    StartsWith <- MCStartsWith
    Unhash     <- MCUnhash
    Device  <- WithEmptyId
    Conn    = {C1, C2, C3}
    Topic   = {}
    Pattern <- AllOfAB
    Claims  <- AnyClaim
    Faulty  = {C1, C2, C3}
    MaxBacklog   = 1
    KafkaMayFail = FALSE
SPECIFICATION Spec
SYMMETRY ConnSymmetry
INVARIANTS
    TypeOK
    RegistryLive
    NewestOrNone
    NoOrphanSubscription
    OnlineHasSession
    SoleSessionReachable
\* Every connection may have come and gone: the system may stop.
CHECK_DEADLOCK FALSE
