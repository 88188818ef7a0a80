CONSTANTS
    ShortMs = 4
    LongMs = 6
    MaxStall = 1
    IntBits = 10
    Writers = {w1}
    w1 = w1
SPECIFICATION Spec
PROPERTIES
    DoublePressRecognised
CHECK_DEADLOCK FALSE
