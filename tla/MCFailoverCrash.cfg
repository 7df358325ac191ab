\* No stonith script; the primary may serve and handshake until CrashBy and
\* is then gone for good: does the standby, wherever it was, take over?
CONSTANTS
    HANDSHAKE_TIME = 1
    NO_CONTACT_WAIT = 1
    SecondaryDelay = 1
    StonithInstalled = FALSE
    MaxConn = 2
    MarkerWriteMayFail = FALSE
    SecondaryMayCrash = FALSE
    MaxTime = 7
    CrashBy = 2
SPECIFICATION CrashSpec
PROPERTY StandbyTakesOver
