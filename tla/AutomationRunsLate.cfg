CONSTANTS
    a1 = a1
    a2 = a2
    m1 = m1
    None = None
    Automation = {a1}
    Schedule <- OnlyOften
    Manual = {}
    Limit = {1}
    DefaultLimit = 1
    Batch = 1
    Native = TRUE
    Desktop = FALSE
    MaxTime = 4
    MaxSleeps = 1
    MaxCrashes = 0
    MaxEdits = 1
    MaxBack = 0
    MaxUnsure = 0
SPECIFICATION Spec
PROPERTIES MissedBeforeBoundary
CHECK_DEADLOCK FALSE
