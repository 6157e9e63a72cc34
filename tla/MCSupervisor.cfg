SPECIFICATION FairSpec
CONSTANTS
    None = None
    MaxForks = 5
    MaxRequests = 2
    MaxCrashes = 1
    MaxFailures = 1
INVARIANTS WorkersKnown ServiceKept
PROPERTIES Returns
CHECK_DEADLOCK FALSE
