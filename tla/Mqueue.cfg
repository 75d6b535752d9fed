SPECIFICATION FairSpec
CONSTANTS
    Msg <- Lines
    StopMsg <- StopLines
    FullMsg <- LongLines
    MaxLines = 4
    MaxSent = 8
    mq_maxmsg = 2
    Settings <- AnyOrSenderFirst
INVARIANTS
    NothingLost
    CleanEnd
PROPERTY
    BothEnd
CHECK_DEADLOCK FALSE
