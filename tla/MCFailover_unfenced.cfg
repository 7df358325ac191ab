\* No stonith script; the secondary configured with secondary_delay -1.
CONSTANTS
    HANDSHAKE_TIME = 1
    NO_CONTACT_WAIT = 1
    SecondaryDelay <- StartActiveDelay
    StonithInstalled = FALSE
    MaxConn = 2
    MarkerWriteMayFail = FALSE
    SecondaryMayCrash = FALSE
    MaxTime = 4
SPECIFICATION Spec
CONSTRAINT TimeBound
INVARIANTS
    MarkerMeansSecondaryActive
    RegistrationNotStale
PROPERTIES
    TakeoverOnlyAfterStagnantLiveness
