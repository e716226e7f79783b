SPECIFICATION SessionSpec
CONSTANTS
    Episodes = {e0}
    Digests = {d0}
    Goals = {g0, g1}
    None = None
    MaxGeneration = 1
    MaxSequence = 1
    CacheSize = 1
    Reconcile = TRUE
    SimTimeOnly = TRUE
    MaxRestarts = 1
    MaxFaults = 1
PROPERTIES
    VerifiedRestartIsContinuous
VIEW LiveSession
SYMMETRY Interchangeable
CHECK_DEADLOCK FALSE
