\* Stonith script installed; small clock and connection bounds.
CONSTANTS
    HANDSHAKE_TIME = 1
    NO_CONTACT_WAIT = 1
    SecondaryDelay = 1
    StonithInstalled = TRUE
    MaxConn = 2
    MarkerWriteMayFail = FALSE
    SecondaryMayCrash = TRUE
    MaxTime = 4
SPECIFICATION Spec
CONSTRAINT TimeBound
INVARIANTS
    TypeOK
    NoDualActive
    MarkerMeansSecondaryActive
    RegistrationNotStale
PROPERTIES
    TakeoverOnlyAfterStagnantLiveness
    ImplementsFailoverRoles
