SPECIFICATION Spec
CONSTANTS
    MaxDelivery = 2
    MaxRun = 2
    MaxEpoch = 1
    MaxRestart = 0
    Codex = TRUE
PROPERTY SettledByOwnRun
CHECK_DEADLOCK FALSE
