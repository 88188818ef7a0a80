CONSTANTS
    ShortMs = 2
    LongMs = 3
    MaxStall = 2
    IntBits = 10
    Writers = {w1}
    w1 = w1
SPECIFICATION Spec
PROPERTIES
    ShortShortTurnsOff
CHECK_DEADLOCK FALSE
