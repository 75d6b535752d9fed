SPECIFICATION Spec
CONSTANTS
    N = 7
    BUF_SIZE = 2
    DEPTH = 3
    Faults <- AllFaults
INVARIANTS
    TypeOK
    RingOwnership
    Accounting
    SqeAvailable
    NoCorruption
PROPERTY
    KernelOwnsBlock
