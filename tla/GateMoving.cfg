SPECIFICATION Spec
CONSTANTS
    MotionTimeout = 1
    FutureTolerance = 1
    OdomTimeout = 1
    MaxTime = 2
    MaxGeneration = 0
    MaxOdometry = 2
    MaxStops = 2
INVARIANTS
    NoInferenceWhileMoving
VIEW LiveFields
CHECK_DEADLOCK FALSE
