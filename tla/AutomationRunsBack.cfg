CONSTANTS
    a1 = a1
    a2 = a2
    m1 = m1
    None = None
    Automation = {a1}
    Schedule <- OnlyFew
    Manual = {}
    Limit = {1}
    DefaultLimit = 1
    Batch = 1
    Native = TRUE
    Desktop = FALSE
    MaxTime = 1
    MaxSleeps = 0
    MaxCrashes = 0
    MaxEdits = 3
    MaxBack = 1
    MaxUnsure = 0
SPECIFICATION FairSpec
PROPERTIES DueConsumedAlways
CHECK_DEADLOCK FALSE
