CONSTANTS
    MaxLine = 2
    ChunkMax = 3
    RingMax = 2
    MaxOutput = 6
    MaxErrors = 4
SPECIFICATION Spec
INVARIANTS
    TypeOK
    LinesAreWhole
    NothingIsLost
    LinesAreBounded
    RefusalIsEarned
    GrowthIsBounded
    RingIsTheTail
CHECK_DEADLOCK FALSE
