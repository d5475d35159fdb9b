SPECIFICATION FairSpec
CONSTANTS
    MaxSends = 3
    MaxTold = 2
CHECK_DEADLOCK FALSE
INVARIANT AnsweredOnce
INVARIANT DroppedIsDead
PROPERTY ClosedIsSilent
PROPERTY KeepsContract
PROPERTY EverySendEnds
PROPERTY DeadIsNoticed
