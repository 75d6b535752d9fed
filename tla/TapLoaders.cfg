SPECIFICATION MCSpec
CONSTANTS
    p1 = p1
    p2 = p2
    p3 = p3
    None = None
    Foreign = Foreign
    Proc <- Three
    FaultSets <- RingOrNot
INVARIANTS
    TapsStay
    XdpLinkOwnsProgram
    StatusTruthful
PROPERTY
    AllStop
CHECK_DEADLOCK FALSE
