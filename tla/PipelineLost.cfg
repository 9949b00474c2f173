\* No stop and no crash: only Kafka's and MongoDB's outages.
CONSTANTS
    MaxLog           = 2
    MaxPending       = 1
    MaxInterruptions = 0
SPECIFICATION Spec
INVARIANT NothingLost
