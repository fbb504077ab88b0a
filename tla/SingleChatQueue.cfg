CONSTANTS
    desktop = desktop
    web = web
    None = None
    Client = {desktop, web}
    MaxTexts = 4
    MaxSends = 3
    MaxRestarts = 1
SPECIFICATION FairSpec
INVARIANTS QueueAgrees
PROPERTIES ChatSettles
CHECK_DEADLOCK FALSE
