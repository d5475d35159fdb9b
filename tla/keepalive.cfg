SPECIFICATION Spec
CONSTANTS
    Keepalive = 2
    Jitter = 1
    Delay = 4
    MaxTime = 40
CHECK_DEADLOCK FALSE
INVARIANTS
    NoFalseAlarm
    DetectedInTime
