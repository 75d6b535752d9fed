SPECIFICATION FairSpec
CONSTANTS
    NULL = NULL
    Closed = Closed
    Stdin = Stdin
    Listen = Listen
    c1 = c1
    c2 = c2
    a1 = a1
    a2 = a2
    a3 = a3
    a4 = a4
    Client <- TwoClients
    Info <- FourInfos
    MaxFd = 4
    MaxBytes = 2
    MAXLINE = 2
    CQE_LEN = 2
    FaultSets <- EarlyClose
INVARIANT
    EchoIntegrity
PROPERTY
    EverythingEchoed
CHECK_DEADLOCK FALSE
