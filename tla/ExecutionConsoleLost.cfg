SPECIFICATION Spec
CONSTANTS
    Run = {1, 2}
    TurnRuns = {}
    MaxRev <- NoRev
    MaxAttempts = 2
    FaultKinds = {"other"}
    MaxFaults = 3
INVARIANTS AlwaysCarried
CHECK_DEADLOCK FALSE
