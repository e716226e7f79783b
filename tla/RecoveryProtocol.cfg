SPECIFICATION Spec
CONSTANTS
    Plans <- OnePlan
    Goals = {"g1", "g2"}
    MaxTime = 3
    MaxJump = 2
    MaxGeneration = 0
    TabooCapacity = 2
    HistoryCapacity = 12
    MinSamples = 1
    MaxObservationGap = 1
    PlanCycleRepetitions = 2
    ActionTimeout = 1
    PlanWaitTimeout = 1
    RetryBackoff = 1
    CooldownTime = 1
    SafetyFreshness = 1
    MaxRecoveryDuration = 2
    MaxActionAttempts = 2
    MaxReplanRequests = 2
    MaxPlanRejections = 2
    MaxRecoveries = 1
    MaxCommands = 8
    RetreatEnabled = TRUE
INVARIANTS
    TypeOK
    GatedCommandIsSafe
    OutstandingIsCurrent
    MotionBudget
    NeverStranded
    OneTimelyCommand
PROPERTIES
    TerminalIsLatched
    AcceptOnlyThroughBarrier
VIEW LiveFields
