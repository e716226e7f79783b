SPECIFICATION FairLoopSpec
CONSTANTS
    Plans <- OnePlan
    Goals = {"g1"}
    MaxTime = 3
    MaxJump = 1
    MaxGeneration = 0
    TabooCapacity = 2
    HistoryCapacity = 12
    MinSamples = 1
    MaxObservationGap = 1
    PlanCycleRepetitions = 2
    ActionTimeout = 1
    PlanWaitTimeout = 1
    RetryBackoff = 1
    CooldownTime = 1
    SafetyFreshness = 1
    MaxRecoveryDuration = 1
    MaxActionAttempts = 1
    MaxReplanRequests = 1
    MaxPlanRejections = 1
    MaxRecoveries = 1
    MaxCommands = 8
    RetreatEnabled = FALSE
PROPERTIES
    RecoveryEnds
