SPECIFICATION Spec
CONSTANTS
    Users <- Resolutions
    MaxRebuilds = 1
INVARIANTS DraftHasItsSpeculator V2Supported GraphsFitRunner  RebuildAgrees
CHECK_DEADLOCK FALSE
