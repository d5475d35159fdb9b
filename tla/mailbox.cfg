SPECIFICATION FairSpec
CONSTANTS
    BufferMsg = TRUE
    MaxSends = 4
CHECK_DEADLOCK FALSE
INVARIANTS
    TwiceOnlyAfterDisconnect
    PublishedInOrder
PROPERTIES
    ImplementsContract
    EverySendSettles
