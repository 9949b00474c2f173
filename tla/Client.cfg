\* Every order of calls, answers and losses, across the wrap-around of the clock.
CONSTANTS
    KeepAlive     = 1
    SocketTimeout = 1
    BrokerTimeout = 4
    PongTime      = 1
    Wrap          = 5
    MaxInbound    = 2
    MaxPieces     = 2
    MaxAsked      = 2
SPECIFICATION FairSpec
INVARIANTS
    TypeOK
    ConnectedIsAccepted
    SessionKeptAlive
PROPERTIES
    CallsReturn
    LossNoticed
