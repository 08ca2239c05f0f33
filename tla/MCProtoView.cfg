CONSTANTS
    None = None
    Descriptions <- MCDescriptions
    Lengths = {0, 13, 14, 23, 24, 33, 34, 37, 38, 53, 54, 60}
    OptionWords = {0, 1}
SPECIFICATION HashSpec
INVARIANTS
    ParsesPacket
    HashIsMurmur3
CHECK_DEADLOCK FALSE
