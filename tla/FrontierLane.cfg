SPECIFICATION Spec
CONSTANTS
    None = None
    MaxGeneration = 1
    LastSequence <- OneReset
    Validity = 1
    MaxClock = 2
INVARIANTS
    TypeOK
    StoreIsAhead
    OneDrivePerCommand
    MovesOnlyAcceptedGoals
    FailedStepIsStopped
PROPERTIES
    FrontierIsForThisInstant
    LateCommitIsInert
CHECK_DEADLOCK FALSE
