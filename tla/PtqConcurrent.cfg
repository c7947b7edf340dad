SPECIFICATION FairSpec
CONSTANTS
    Drivers = {d1, d2}
    Attempts = {a1, a2}
    MaxPolls = 2
    FreshAttempts = TRUE
    OneAtATime = FALSE
    None = None
INVARIANTS VerdictIsOwn
PROPERTIES  DriversEnd
CHECK_DEADLOCK FALSE
