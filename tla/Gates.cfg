SPECIFICATION Spec
CONSTANTS
    Kinds <- MCKinds
    Requests = 2
    Marks <- MCMarks
    Positions = 2
    Reserve = 3
    Slack = 1
    Budget = 1
    LongBudget = 2
    LongExtra = 1
    Windows <- MCWindows
    Counts <- MCCounts
    Fractions <- MCFractions
    MinUsable = 4
    MinDepth = 2
    Frame = 1
    Needle = 2
    MaxRuns = 2
    MaxCrashes = 1
INVARIANTS
    PassedIsComplete
    LongestPrompt
    FitsWindow
    DepthsDiffer
PROPERTIES
    GateEnds
CHECK_DEADLOCK FALSE
