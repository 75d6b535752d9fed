SPECIFICATION MCSpec
CONSTANTS
    t1 = t1
    t2 = t2
    t3 = t3
    p1 = p1
    p2 = p2
    p3 = p3
    f1 = f1
    f2 = f2
    Packets <- CutPackets
    Thread <- Threads
    Process <- Processes
    Tgids <- OneEachOrNot
    File <- TwoFiles
    MaxEntries = 2
    EventSlots = 2
    Faults <- NullName
    CODE_SIZE = 3
    Slots = 2
    MaxCalls = 4
    EventKind <- ThreeKinds
    IGNORED <- WatchGone
    OVERFLOW <- QueueFull
    HEADER = 1
    EVENTS_BUF_SIZE = 4
    MaxQueued = 3
    MaxEvents = 5
    MaxInterrupts = 1
    Results <- ReadResults
    MaxTimeouts = 2
    CAP = 4
    RingSize = 1
    MaxPackets = 2
INVARIANTS
    VerdictRight
    CaptureRight
    ArgumentTruthful
    NoStaleEntry
    ReportedInOrder
PROPERTY
    EverythingReported
CHECK_DEADLOCK FALSE
