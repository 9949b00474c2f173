\* A publisher and two subscribers; the ids are nested, so messages are forwarded.
CONSTANTS
    C1 = C1
    C2 = C2
    C3 = C3
    NoConn   = NoConn
    NoDevice = NoDevice
    NoTopic  = NoTopic
    Level      <- MCLevel
    StartsWith <- MCStartsWith
    Unhash     <- MCUnhash
    Device  <- AllKinds
    Conn    = {C1, C2, C3}
    Topic   <- TelemetryOfAB
    Pattern <- AllOfAB
    Claims  <- ForwardClaims
    Faulty  = {C3}
    MaxBacklog   = 1
    KafkaMayFail = FALSE
SPECIFICATION Spec
INVARIANT ForwardedUnderPrefix
PROPERTIES
    OnlyOwnSessionsAct
    WritesToNewest
    ImplementsRegistry
\* Every connection may have come and gone: the system may stop.
CHECK_DEADLOCK FALSE
