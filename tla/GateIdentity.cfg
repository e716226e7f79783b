SPECIFICATION Spec
CONSTANTS
    MotionTimeout = 1
    FutureTolerance = 1
    OdomTimeout = 1
    MaxTime = 2
    MaxGeneration = 1
    MaxOdometry = 2
    MaxStops = 2
PROPERTIES
    IdentityIsOwnedByReset
VIEW LiveFields
CHECK_DEADLOCK FALSE
