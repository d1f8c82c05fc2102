CONSTANTS
    MaxJobs = 2
    Docs = {}
    MaxMessages = 1
    MaxSteps = 1
    MaxErrors = 1
    MaxCrashes = 1
    DiskMayFail = FALSE
SPECIFICATION JobsFairSpec
INVARIANTS
    RunningIsRun
PROPERTIES
    CancelLasts
    QueuedJobsRun
CHECK_DEADLOCK FALSE
