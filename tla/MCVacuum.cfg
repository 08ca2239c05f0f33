CONSTANTS
    SIGNAL_FRAME_SIZE = 64
    BATCH_SIZE = 2
    DISPATCH_CAPACITY = 2
    RING_CAPACITY = 2
    ArenaMayExit = TRUE
    MaxProduced = 5
    Timestamps = {1, 2, 3}
    Records <- MCRecords
SPECIFICATION Spec
INVARIANTS
    TypeOK
    Accounting
    SentIsCounted
    DeliveredInOrder
    NothingAbandoned
    StopIsPrompt
PROPERTY ImplementsFeed
CHECK_DEADLOCK FALSE
