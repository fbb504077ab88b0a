CONSTANTS
    keep = keep
    clean = clean
    again = again
    user1 = user1
    user2 = user2
    e1 = e1
    e2 = e2
    None = None
    Retain = {}
    Cleanup = {clean}
    UserCleanup = {user1, user2}
    Execution = {e1}
    NoAdapter = {}
    Limit = 2
    MaxFaults = 2
    MaxCrashes = 0
SPECIFICATION Spec
INVARIANTS OwnerKept FailedCanRetry
CHECK_DEADLOCK FALSE
