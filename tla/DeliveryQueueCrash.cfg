SPECIFICATION Spec
CONSTANTS
    MaxDelivery = 2
    MaxRun = 2
    MaxEpoch = 1
    MaxRestart = 1
    Codex = TRUE
PROPERTY ConsumedOnce
CHECK_DEADLOCK FALSE
