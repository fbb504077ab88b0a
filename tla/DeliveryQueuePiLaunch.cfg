SPECIFICATION Spec
CONSTANTS
    MaxDelivery = 1
    MaxRun = 1
    MaxEpoch = 1
    MaxRestart = 0
    Codex = FALSE
INVARIANT LaunchFailureEndsRun
CHECK_DEADLOCK FALSE
