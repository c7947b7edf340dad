SPECIFICATION Spec
CONSTANTS
    Users <- AsyncTPUsers
    MaxRebuilds = 1
INVARIANTS GraphsFitRunner
CHECK_DEADLOCK FALSE
