SPECIFICATION FairSpec
CONSTANTS
    MaxDelivery = 2
    MaxRun = 2
    MaxEpoch = 1
    MaxRestart = 0
    Codex = TRUE
INVARIANTS OneLiveTurn ClaimedIsOwned
PROPERTY LaneServed
CHECK_DEADLOCK FALSE
