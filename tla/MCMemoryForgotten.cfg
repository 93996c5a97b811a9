SPECIFICATION Spec
CONSTANTS
    Sessions = {s1}
    Window = 2
    Notable = {1}
    MaxJobs = 2
    MaxMsgs = 5
    MaxFaults = 0
CHECK_DEADLOCK FALSE
INVARIANT NothingForgotten
