SPECIFICATION MCSpec
CONSTANTS
    NULL = NULL
    Closed = Closed
    Stdin = Stdin
    Listen = Listen
    c1 = c1
    c2 = c2
    Client <- TwoClients
    MaxFd = 4
    MaxBytes = 2
    MaxTotal = 2
    MaxResets = 1
    MAXLINE = 2
    CQE_LEN = 2
    FaultSets <- StayOrReset
INVARIANTS
    OneRequest
    OwnBytes
PROPERTY
    EveryoneServed
CHECK_DEADLOCK FALSE
