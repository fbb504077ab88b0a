SPECIFICATION Spec
CONSTANTS
    Run = {1, 2}
    TurnRuns = {2}
    MaxRev <- OneRev
    MaxAttempts = 2
    FaultKinds = {"other"}
    MaxFaults = 3
INVARIANTS CardsAgree SealedIsCarried
CHECK_DEADLOCK FALSE
