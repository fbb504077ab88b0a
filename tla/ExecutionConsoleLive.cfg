SPECIFICATION FairSpec
CONSTANTS
    Run = {1, 2}
    TurnRuns = {2}
    MaxRev <- OneRev
    MaxAttempts = 2
    FaultKinds = {"other", "refused", "unclear", "crash", "dropped", "slow"}
    MaxFaults = 1
CONSTRAINT OneEvent
INVARIANTS
    CardsAgree
    SealedIsCarried
PROPERTIES
    FinalCardShown
CHECK_DEADLOCK FALSE
