SPECIFICATION SessionSpec
CONSTANTS
    Episodes = {e0}
    Digests = {d0, d1}
    Goals = {g0, g1}
    None = None
    MaxGeneration = 1
    MaxSequence = 1
    CacheSize = 1
    Reconcile = TRUE
    SimTimeOnly = TRUE
    MaxRestarts = 1
    MaxFaults = 1
INVARIANTS
    TypeOK
    DriftIsReconcilable
    AnswersAreForTheirObservation
    DiscardedStepsLeaveTheAgent
    AdmissionHolds
PROPERTIES
    RestartNeverRunsAhead
    RefinesLedger
VIEW LiveSession
SYMMETRY Interchangeable
CHECK_DEADLOCK FALSE
