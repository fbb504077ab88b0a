SPECIFICATION Spec
CONSTANTS
    Run = {1, 2}
    TurnRuns = {2}
    MaxRev <- NoRev
    MaxAttempts = 2
    FaultKinds = {"other", "refused", "unclear", "crash", "dropped", "slow"}
    MaxFaults = 1
INVARIANTS CardsAgree SealedIsCarried
CHECK_DEADLOCK FALSE
