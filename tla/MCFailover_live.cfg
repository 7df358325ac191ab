\* No stonith script (a failing hook would be retried forever); the primary is
\* down from the start and stays down: does the standby take over?
CONSTANTS
    HANDSHAKE_TIME = 1
    NO_CONTACT_WAIT = 1
    SecondaryDelay = 1
    StonithInstalled = FALSE
    MaxConn = 2
    MarkerWriteMayFail = FALSE
    SecondaryMayCrash = TRUE
    MaxTime = 6
SPECIFICATION LiveSpec
PROPERTY StandbyTakesOver
