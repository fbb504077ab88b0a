CONSTANTS
    Run = {r1}
    MaxEpoch = 3
    MaxRestart = 1
    r1 = r1
    r2 = r2
SPECIFICATION FairSpec
INVARIANTS RecoveryAgrees Watched
PROPERTIES OlderWorkerInert RecoveryEnds
CONSTRAINT TwoDisturbances
CHECK_DEADLOCK FALSE
