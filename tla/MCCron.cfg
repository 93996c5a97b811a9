SPECIFICATION FairSpec
CONSTANTS
    JobIds = {j1, j2}
    NoJob = NoJob
    NoSched = NoSched
    Schedules <- MCSchedules
    TickIds = {1, 2}
    MaxTime = 4
    MaxExt = 1
INVARIANT LiveTickIsHandle
INVARIANT TimerCoversEarliest
INVARIANT OneShotCompletesOnce
PROPERTY WakeHonoursFile
PROPERTY DueJobRuns
