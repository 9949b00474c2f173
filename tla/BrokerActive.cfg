\* Connections of one device.
CONSTANTS
    C1 = C1
    C2 = C2
    C3 = C3
    NoConn   = NoConn
    NoDevice = NoDevice
    NoTopic  = NoTopic
    Level      <- MCLevel
    StartsWith <- MCStartsWith
    Unhash     <- MCUnhash
    Device  <- OneDevice
    Conn    = {C1, C2}
    Topic   = {}
    Pattern <- AllOfAB
    Claims  <- AnyClaim
    Faulty  = {}
    MaxBacklog   = 1
    KafkaMayFail = TRUE
SPECIFICATION Spec
INVARIANT ActiveIsRegistered
\* Every connection may have come and gone: the system may stop.
CHECK_DEADLOCK FALSE
