CONSTANTS
    keep = keep
    clean = clean
    again = again
    user1 = user1
    user2 = user2
    e1 = e1
    e2 = e2
    None = None
    Retain = {keep}
    Cleanup = {clean}
    UserCleanup = {user1, user2}
    Execution = {e1, e2}
    NoAdapter = {e2}
    Limit = 2
    MaxFaults = 3
    MaxCrashes = 1
SPECIFICATION FairSpec
INVARIANTS PromiseKept
PROPERTIES RetainedSurvives DeletesInOrder DeletionCompletes
CHECK_DEADLOCK FALSE
