\* Every order of records, commits, outages, stops and crashes.
CONSTANTS
    MaxLog           = 2
    MaxPending       = 1
    MaxInterruptions = 2
    Stamps           <- MCStamps
    Limit            = 2
    Hour             = 25
    Times            = {15, 30}
SPECIFICATION FairQuerySpec
INVARIANTS
    TypeOK
    Accounted
    StoredInOrder
    HistoryComplete
PROPERTIES
    ConsumerGetsOn
    LatestNeverBack
    OffsetNeverBack
