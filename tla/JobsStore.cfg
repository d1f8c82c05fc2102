CONSTANTS
    MaxJobs = 1
    Docs = {"d1", "d2"}
    MaxMessages = 0
    MaxSteps = 2
    MaxErrors = 1
    MaxCrashes = 1
    DiskMayFail = TRUE
SPECIFICATION JobsSpec
INVARIANTS
    IdleJobsAreStored
    DeletedStaysDeleted
CHECK_DEADLOCK FALSE
