SPECIFICATION Spec
CONSTANTS
    s1 = s1
    s2 = s2
    Servers <- MCServers
    Kinds <- MCMqtt
    MaxCalls = 2
    MaxBoxes = 3
    MaxStarts = 2
    PendingSize = 0
CHECK_DEADLOCK FALSE
SYMMETRY MCSymmetry
INVARIANTS
    PendingBounded
    LiveBoxesMapped
    StopClosesAll
