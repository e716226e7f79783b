SPECIFICATION LoopSpec
CONSTANTS
    Plans <- OnePlan
    Goals = {"g1"}
    MaxTime = 2
    MaxJump = 2
    MaxGeneration = 1
    TabooCapacity = 2
    HistoryCapacity = 3
    MinSamples = 1
    MaxObservationGap = 1
    PlanCycleRepetitions = 2
    ActionTimeout = 1
    PlanWaitTimeout = 1
    RetryBackoff = 1
    CooldownTime = 1
    SafetyFreshness = 1
    MaxRecoveryDuration = 2
    MaxActionAttempts = 2
    MaxReplanRequests = 1
    MaxPlanRejections = 1
    MaxRecoveries = 1
    MaxCommands = 8
    RetreatEnabled = FALSE
INVARIANTS
    HonestAcksAreRecognised
    OneMotionInFlight
VIEW LoopView
