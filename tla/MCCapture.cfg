CONSTANTS
    WorkerCounts = {0, 1, 3}
    NCPU = 2
    MayFail <- Calls
    DISPATCH_CAPACITY = 2
SPECIFICATION FairSpec
INVARIANTS
    TypeOK
    DetachAfterWorkers
    NeverIdle
    SuccessIsClean
    ConsumerOutlivesWorker
PROPERTY SignalEndsProcess
CHECK_DEADLOCK FALSE
