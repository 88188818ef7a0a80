CONSTANTS
    QueueCap = 1
    MaxSample = 2
    MaxDump = 1
SPECIFICATION FairSpec
INVARIANTS
    PipelineInv
    AnnouncedIsPublished
    StoredSkew
PROPERTIES
    ImplementsLatestValue
    EveryMeasurementArrives
    EveryDumpIsTaken
CHECK_DEADLOCK FALSE
