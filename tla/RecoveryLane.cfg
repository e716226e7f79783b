SPECIFICATION Spec
CONSTANTS
    Plans = {p0, p1}
    Stop = Stop
    None = None
    MaxGeneration = 1
    LastSequence <- OneReset
    MaxRecoveries = 1
    MaxRefreshes = 1
    MaxLag = 1
    HoldLimit = 2
    MaxLaunches = 2
    MaxFaults = 1
INVARIANTS
    TypeOK
    SpinBudget
    ActiveHasAThread
    InStep
    OneTransaction
    BlamedPlanStaysOut
PROPERTIES
    NoGoalUnderLatch
VIEW LiveLane
SYMMETRY Interchangeable
CHECK_DEADLOCK FALSE
