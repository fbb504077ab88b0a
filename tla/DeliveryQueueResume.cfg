SPECIFICATION FairSpec
CONSTANTS
    MaxDelivery = 1
    MaxRun = 1
    MaxEpoch = 1
    MaxRestart = 1
    Codex = TRUE
PROPERTY CrashedRunResumes
CHECK_DEADLOCK FALSE
