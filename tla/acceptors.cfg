SPECIFICATION FairSpec
CONSTANTS
    MaxSockets = 2
    MaxRequests = 3
    MaxBatch = 2
CHECK_DEADLOCK FALSE
INVARIANTS
    OneReplyHome
    NoReplyLost
PROPERTIES
    QueuesDrain
