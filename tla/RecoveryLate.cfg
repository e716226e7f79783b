SPECIFICATION Spec
CONSTANTS
    Plans = {p0, p1}
    Stop = Stop
    None = None
    MaxGeneration = 1
    LastSequence <- OneReset
    MaxRecoveries = 1
    MaxRefreshes = 1
    MaxLag = 2
    HoldLimit = 2
    MaxLaunches = 2
    MaxFaults = 0
INVARIANTS
    ExpiredNeverExecutes
CHECK_DEADLOCK FALSE
