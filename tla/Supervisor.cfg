SPECIFICATION FairSpec
CONSTANT MaxStarts = 2
INVARIANTS
    SupervisorInv
    UnsizedOnlyByCrash
    PairIsConnected
PROPERTIES
    WaitsEnd
CHECK_DEADLOCK FALSE
