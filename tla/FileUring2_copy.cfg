SPECIFICATION
    FairSpec
CONSTANTS
    N = 5
    BUF_SIZE = 2
    DEPTH = 2
    Faults <- Handled
PROPERTIES
    RefinesFileCopy
    Terminates
