\* Stonith installed, and the fopen of the marker may fail: is an active
\* secondary always recorded by the secondary_active marker?
CONSTANTS
    HANDSHAKE_TIME = 1
    NO_CONTACT_WAIT = 1
    SecondaryDelay = 1
    StonithInstalled = TRUE
    MaxConn = 2
    MarkerWriteMayFail = TRUE
    SecondaryMayCrash = FALSE
    MaxTime = 4
SPECIFICATION Spec
CONSTRAINT TimeBound
INVARIANT MarkerMeansSecondaryActive
