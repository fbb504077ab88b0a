SPECIFICATION FairSpec
CONSTANTS
    Run = {1, 2}
    TurnRuns = {2}
    MaxRev <- NoRev
    MaxAttempts = 2
    FaultKinds = {"refused"}
    MaxFaults = 1
INVARIANTS CardsAgree AlwaysCarried
PROPERTIES CardWithdrawn FinalCardShown
CHECK_DEADLOCK FALSE
