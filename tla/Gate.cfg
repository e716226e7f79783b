SPECIFICATION Spec
CONSTANTS
    MotionTimeout = 1
    FutureTolerance = 1
    OdomTimeout = 1
    MaxTime = 2
    MaxGeneration = 1
    MaxOdometry = 2
    MaxStops = 3
INVARIANTS
    TypeOK
    InferenceSeesSettledSensors
    GoalIsSupervised
    NoGateMisuse
PROPERTIES
    MotionEndsInConfirmedStop
VIEW LiveFields
CHECK_DEADLOCK FALSE
