\* Three clients over three patterns: shared patterns, and a client that comes and goes.
CONSTANTS
    Level      <- MCLevel
    StartsWith <- MCStartsWith
    Unhash     <- MCUnhash
    Device     <- MCDevice
    Pattern    <- MCPattern
    Topic      <- MCTopic
SPECIFICATION Spec
INVARIANTS
    IndexesAgree
    NoEmptyEntry
    SubscribersMatch
PROPERTIES
    RemovalIsComplete
    ImplementsRelation
