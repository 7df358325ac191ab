\* No stonith script: does a displaced primary always step down?
CONSTANTS
    HANDSHAKE_TIME = 1
    NO_CONTACT_WAIT = 1
    SecondaryDelay <- StartActiveDelay
    StonithInstalled = FALSE
    MaxConn = 2
    MarkerWriteMayFail = FALSE
    SecondaryMayCrash = FALSE
    MaxTime = 4
SPECIFICATION Spec
CONSTRAINT TimeBound
PROPERTY DisplacedPrimaryStepsDown
