\* Liveness and the end of main(), a publisher and a subscriber that may stall
\* or be lost.
CONSTANTS
    C1 = C1
    C2 = C2
    C3 = C3
    NoConn   = NoConn
    NoDevice = NoDevice
    NoTopic  = NoTopic
    Level      <- MCLevel
    StartsWith <- MCStartsWith
    Unhash     <- MCUnhash
    Device  <- Nested
    Conn    = {C1, C2}
    Topic   <- TelemetryOfAB
    Pattern <- AllOfAB
    Claims  <- LiveClaims
    Faulty  = {C1, C2}
    MaxBacklog   = 1
    KafkaMayFail = FALSE
SPECIFICATION FairStopSpec
PROPERTIES
    SessionEnds
    
    StopReturns
INVARIANTS
    StopTypeOK
    NobodyConnected
\* Every connection may have come and gone: the system may stop.
CHECK_DEADLOCK FALSE
