CONSTANTS
    WorkerCounts = {0, 1, 3}
    NCPU = 2
    MayFail <- Calls
    DISPATCH_CAPACITY = 2
SPECIFICATION FairSpec
PROPERTY ReturnEndsProcess
CHECK_DEADLOCK FALSE
