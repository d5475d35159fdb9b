SPECIFICATION FairSpec
CONSTANTS
    n1 = n1
    n2 = n2
    Namespaces <- MCNamespaces
    BufferModes <- MCModes
    Reloads = TRUE
    MaxSockets = 2
    MaxRequests = 3
    MaxBatch = 2
CHECK_DEADLOCK FALSE
INVARIANTS
    OneReplyHome
    NoReplyLost
PROPERTIES
    QueuesDrain
