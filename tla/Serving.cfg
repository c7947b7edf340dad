SPECIFICATION ServingSpec
CONSTANTS
    Shards = {1, 2}
    Rungs = 2
    Reps = 2
    Requests = 2
    MaxProbes = 1
    MaxStarts = 2
    MaxFaults = 1
    FreshTags = TRUE
INVARIANTS
    VerdictIsOwn
    SuccessIsMeasured
    ThroughputIsOwn
PROPERTIES
    ScriptsEnd
CHECK_DEADLOCK FALSE
