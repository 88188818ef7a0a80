SPECIFICATION FairSpec
CONSTANTS
    MaxRuns = 2
    MaxOverlap = 2
    Unreadable <- MCUnreadable
INVARIANTS
    WatchdogInv
    ReportIsOwn
PROPERTIES
    EverySignalIsServed
CHECK_DEADLOCK FALSE
