CONSTANTS
    Writers = {w1, w2}
    w1 = w1
    w2 = w2
    Rmmod = rmmod
    MaxWrites = 7
SPECIFICATION FairSpec
INVARIANTS
    IoInv
    NoLostWakeup
    NoFreeTurn
PROPERTIES
    SleeperAnswers
    StopIsServed
CHECK_DEADLOCK FALSE
