SPECIFICATION FairSpec
CONSTANTS
    s1 = s1
    s2 = s2
    Servers <- MCOne
    Kinds <- MCAll
    MaxCalls = 2
    MaxBoxes = 3
    MaxStarts = 1
    PendingSize = 1
CHECK_DEADLOCK FALSE
INVARIANTS
    FlushedWhenOpen
    AdmittedInOrder
    AnsweredOncePerCause
PROPERTIES
    LostOnlyByOrphans
    NoSendAfterClose
    AdmittedSettles
