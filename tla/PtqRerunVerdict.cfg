SPECIFICATION Spec
CONSTANTS
    Drivers = {d1, d2}
    Attempts = {a1}
    MaxPolls = 2
    FreshAttempts = FALSE
    OneAtATime = TRUE
    None = None
INVARIANTS VerdictIsOwn
CHECK_DEADLOCK FALSE
