SPECIFICATION Spec
CONSTANTS
    MaxDelivery = 2
    MaxRun = 2
    MaxEpoch = 1
    MaxRestart = 0
    Codex = TRUE
INVARIANT RefusedSupplementReturns
CHECK_DEADLOCK FALSE
