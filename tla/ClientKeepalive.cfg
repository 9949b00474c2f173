\* The keepalive gives up in the round after its PINGREQ.
CONSTANTS
    KeepAlive     = 1
    SocketTimeout = 1
    BrokerTimeout = 4
    PongTime      = 1
    Wrap          = 5
    MaxInbound    = 2
    MaxPieces     = 2
    MaxAsked      = 2
SPECIFICATION Spec
PROPERTY PongAwaited
