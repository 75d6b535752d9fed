SPECIFICATION MCSpec
CONSTANTS
    N = 5
    BUF_SIZE = 2
    Settings <- BothPrograms
    MaxSize = 6
    RingDepth = 3
    StdioSize = 2
INVARIANTS
    BlockOwnership
    SqeAvailable
    NoJunk
    CopiesComplete
PROPERTIES
    PlainRefineFileCopy
    CopiesEnd
CHECK_DEADLOCK FALSE
