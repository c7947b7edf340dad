SPECIFICATION Spec
CONSTANTS
    MaxNumReqs = 2
    NumSteps = 1
    TopK = 2
    BlockK = 2
    VocabSize = 3
    LogitsWidth = 4
    NaN = NaN
    NegInf = NegInf
    Garbage = Garbage
    TopKResults <- OverlappingLanes
    EdgeTables <- Edges
    Temperatures <- GreedyAndSampled
INVARIANTS
    NoGarbageProposed
    SupportCached
PROPERTY
    RefinesDense
