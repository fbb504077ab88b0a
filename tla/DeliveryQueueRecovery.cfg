SPECIFICATION Spec
CONSTANTS
    MaxDelivery = 2
    MaxRun = 2
    MaxEpoch = 2
    MaxRestart = 1
    Codex = FALSE
INVARIANTS OneOpenRun InputsSettled
PROPERTY ConsumedOnce
CHECK_DEADLOCK FALSE
