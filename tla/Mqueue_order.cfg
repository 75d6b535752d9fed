SPECIFICATION FairSpec
CONSTANTS
    Msg <- Lines
    StopMsg <- StopLines
    FullMsg <- LongLines
    MaxLines = 3
    MaxSent = 8
    mq_maxmsg = 2
    Settings <- ReceiverFirst
PROPERTY
    BothEndInAnyOrder
CHECK_DEADLOCK FALSE
