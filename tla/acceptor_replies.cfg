SPECIFICATION Spec
CONSTANTS
    MaxSockets = 1
    MaxRequests = 1
    MaxBatch = 1
CHECK_DEADLOCK FALSE
INVARIANT RepliesCarryResults
