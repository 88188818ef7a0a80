SPECIFICATION FairSpec
CONSTANTS
    FdSlots = 3
    MsgCount = 2
    MaxMessages = 3
INVARIANTS
    InputInv
    DescriptorsAccounted
PROPERTIES
    KeepsPromise
    EveryRequestIsAnswered
    PromptReturns
    SessionComesBack
CHECK_DEADLOCK FALSE
