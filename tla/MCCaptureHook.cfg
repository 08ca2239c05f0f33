CONSTANTS
    WorkerCounts = {0, 1, 3}
    NCPU = 2
    MayFail <- AllButDetach
    DISPATCH_CAPACITY = 2
SPECIFICATION Spec
INVARIANT HookReleased
CHECK_DEADLOCK FALSE
