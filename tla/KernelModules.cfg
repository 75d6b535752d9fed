SPECIFICATION MCSpec
CONSTANTS
    u1 = u1
    u2 = u2
    Zero = Zero
    User <- TwoUsers
    MaxLoads = 2
    MaxSent = 2
    NCpu = 2
    MaxGets = 2
    FaultSets <- NothingOrAll
INVARIANTS
    OpenKeepsModule
    NothingOutlivesModule
    ResultSeen
    CountNotLow
PROPERTY
    ModulesSettle
CHECK_DEADLOCK FALSE
