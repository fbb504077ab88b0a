CONSTANTS
    Run = {r1}
    MaxEpoch = 2
    MaxRestart = 1
    r1 = r1
    r2 = r2
SPECIFICATION Spec
INVARIANTS AcceptedShowsProgress
CHECK_DEADLOCK FALSE
