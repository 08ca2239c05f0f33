CONSTANTS
    None = None
    CPUS = {0}
    Packets <- MCPackets
    Hash <- MCHash
    U32 = 1073741824
    DENY_ENTRIES = 2
    MAXPPS_THRESHOLD = 2
    RING_CAPACITY = 2
    SIGNAL_FRAME_SIZE = 64
    MaxClock = 1
SPECIFICATION FairSpec
PROPERTY GateReopens
