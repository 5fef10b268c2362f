CONSTANTS
    TSize = 7
    ByteBits = 3
    Counts <- MCCounts
SPECIFICATION ScanSpec
INVARIANTS
    ScanCorrect
PROPERTY
    Terminates
CHECK_DEADLOCK FALSE
