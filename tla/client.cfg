SPECIFICATION FairSpec
CONSTANTS
    s1 = s1
    s2 = s2
    Servers <- MCServers
    FailModes <- MCModes
    PendingSize = 1
    MaxCalls = 1
    MaxStarts = 1
    MaxChanges = 2
CHECK_DEADLOCK FALSE
INVARIANTS
    SentAgainOnlyByFailover
    MailboxOnlyOnline
PROPERTIES
    SentSettles
