\* Fenced secondary: where does SecdTakeOver leave the state machine?
CONSTANTS
    HANDSHAKE_TIME = 1
    NO_CONTACT_WAIT = 1
    SecondaryDelay = 1
    StonithInstalled = TRUE
    MaxConn = 2
    MarkerWriteMayFail = FALSE
    SecondaryMayCrash = FALSE
    MaxTime = 4
SPECIFICATION Spec
CONSTRAINT TimeBound
PROPERTY HandoffGoesStraightToTakeover
