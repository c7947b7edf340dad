SPECIFICATION Spec
CONSTANTS
    MaxNumReqs = 1
    NumSteps = 2
    TopK = 3
    BlockK = 4
    VocabSize = 4
    LogitsWidth = 5
    NaN = NaN
    NegInf = NegInf
    Garbage = Garbage
    TopKResults <- ThreeLanes
    EdgeTables <- Edges
    Temperatures <- GreedyOrSampled
INVARIANTS
    TypeOK
    PathIsProposed
    ConditionedOnPath
    GreedyIsMode
