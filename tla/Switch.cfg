CONSTANTS
    ShortMs = 4
    LongMs = 5
    MaxStall = 2
    IntBits = 9
    Writers = {w1}
    w1 = w1
SPECIFICATION FairSpec
INVARIANTS
    SwitchInv
    OnlySingleGestures
PROPERTIES
    ImplementsLedBar
    PressIsClassified
    StopIsServed
CHECK_DEADLOCK FALSE
