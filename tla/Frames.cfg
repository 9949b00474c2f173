\* Two frames in either direction, in pieces of any size.
CONSTANTS
    Base       = 4
    Type       = {1, 2}
    NoPayload  = {2}
    Json       <- MCJson
    Payload    <- MCPayload
    BufferSize = 6
    MaxSent    = 2
SPECIFICATION FairSpec
INVARIANTS
    TypeOK
    OnlyBadRejected
PROPERTIES
    ImplementsChannel
    FramesArrive
\* The sender may stop sending.
CHECK_DEADLOCK FALSE
