CONSTANTS
    NCPU_MAX = 2
    CpuIds = {0, 1}
    U64_MAX = 15000
    MaxCount = 3
SPECIFICATION FairSpec
INVARIANTS
    TypeOK
    SnapshotBounded
    DeltasAddUp
    DropRateBounded
PROPERTIES
    EveryFrameIsReported
    ReporterStops
CHECK_DEADLOCK FALSE
