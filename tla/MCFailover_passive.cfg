\* No stonith script, secondary_delay 1: does a standby told to stay inactive
\* (SecdGoInactive) stay passive until a primary takes it back?
CONSTANTS
    HANDSHAKE_TIME = 1
    NO_CONTACT_WAIT = 1
    SecondaryDelay = 1
    StonithInstalled = FALSE
    MaxConn = 2
    MarkerWriteMayFail = FALSE
    SecondaryMayCrash = FALSE
    MaxTime = 4
SPECIFICATION Spec
CONSTRAINT TimeBound
PROPERTY PassiveUntilPrimaryReturns
