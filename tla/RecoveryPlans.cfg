SPECIFICATION Spec
CONSTANTS
    Plans <- ThreePlans
    Goals = {"g1"}
    MaxTime = 1
    MaxJump = 1
    MaxGeneration = 0
    TabooCapacity = 3
    HistoryCapacity = 3
    MinSamples = 2
    MaxObservationGap = 1
    PlanCycleRepetitions = 2
    ActionTimeout = 1
    PlanWaitTimeout = 1
    RetryBackoff = 0
    CooldownTime = 1
    SafetyFreshness = 1
    MaxRecoveryDuration = 1
    MaxActionAttempts = 1
    MaxReplanRequests = 2
    MaxPlanRejections = 2
    MaxRecoveries = 2
    MaxCommands = 12
    RetreatEnabled = FALSE
INVARIANTS
    MemoryIsBounded
    BarrierPlanIsNovel
    BlamedPlanNotAccepted
VIEW LiveFields
