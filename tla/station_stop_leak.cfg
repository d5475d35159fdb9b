SPECIFICATION Spec
CONSTANTS
    s1 = s1
    s2 = s2
    Servers <- MCOne
    Kinds <- MCTcp
    MaxCalls = 2
    MaxBoxes = 3
    MaxStarts = 1
    PendingSize = 0
CHECK_DEADLOCK FALSE
INVARIANTS
    StopClosesAll
