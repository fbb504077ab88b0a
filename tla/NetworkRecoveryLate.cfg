CONSTANTS
    Run = {r1}
    MaxEpoch = 3
    MaxRestart = 1
    r1 = r1
    r2 = r2
SPECIFICATION Spec
INVARIANTS WatchedAlways DeadHostAlways
CHECK_DEADLOCK FALSE
