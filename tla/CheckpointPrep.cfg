SPECIFICATION Spec
CONSTANTS
    BaseCounts <- MCBaseCounts
    MtpTensors = 2
    Weights <- MCWeights
    MaxCrashes = 2
INVARIANTS
    
    AcceptedIsWhole
    IndexFindsTensors
    AcceptedDraftIsWhole
    
PROPERTIES
    FinishedTreeKept
    PreparationEnds
CHECK_DEADLOCK FALSE
