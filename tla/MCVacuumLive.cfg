CONSTANTS
    SIGNAL_FRAME_SIZE = 64
    BATCH_SIZE = 2
    DISPATCH_CAPACITY = 1
    RING_CAPACITY = 2
    ArenaMayExit = FALSE
    MaxProduced = 4
    Timestamps = {1, 2}
    Records <- MCRecords
SPECIFICATION FairSpec
INVARIANTS
    NoSilentLoss
PROPERTIES
    ImplementsLife
    ShutdownStopsWorker
    RingIsDrained
    ArenaDrains
CHECK_DEADLOCK FALSE
