SPECIFICATION Spec
CONSTANTS
    N = 4
    MaxCrashes = 3
INVARIANTS ReportComplete
PROPERTIES NotAskedAgainAfterOneCrash
