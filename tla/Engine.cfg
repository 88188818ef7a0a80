SPECIFICATION FairSpec
INVARIANTS
    EngineInv
    HaltIsFinal
PROPERTIES
    HeldPressStops
    ExitEnds
CHECK_DEADLOCK FALSE
