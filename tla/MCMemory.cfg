SPECIFICATION FairSpec
CONSTANTS
    Sessions = {s1}
    Window = 2
    Notable = {1}
    MaxJobs = 3
    MaxMsgs = 5
    MaxFaults = 1
CHECK_DEADLOCK FALSE
INVARIANT SummarisedOnce
PROPERTY ClearedAreArchived
PROPERTY GuardReleased
