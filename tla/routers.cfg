SPECIFICATION ClientSpec
CONSTANTS
    s1 = s1
    s2 = s2
    s3 = s3
    Servers <- MCServers
    RouterTypes <- MCTypes
    Weights <- MCWeights
    MaxCalls = 10
    MaxChanges = 2
    Replicas = 2
    MaxPoint = 6
    MaxEvents = 3
SYMMETRY MCSymmetry
CHECK_DEADLOCK FALSE
INVARIANTS
    RoundRobinFair
    WrrEnds
    SearchFindsPredecessor
PROPERTIES
    WrrProportional
    LaPicksLeastCalled
    MinimalMovement
