CONSTANTS
    a1 = a1
    a2 = a2
    m1 = m1
    None = None
    Automation = {a1}
    Schedule <- TwoAndOnce
    Manual = {m1}
    Limit = {1, 2}
    DefaultLimit = 1
    Batch = 1
    Native = TRUE
    Desktop = TRUE
    MaxTime = 2
    MaxSleeps = 1
    MaxCrashes = 1
    MaxEdits = 2
    MaxBack = 1
    MaxUnsure = 1
SPECIFICATION FairSpec
CONSTRAINT OneMore
INVARIANTS OccurrencesAgree
PROPERTIES ClaimedRightly DueConsumed LimitEnforced
CHECK_DEADLOCK FALSE
