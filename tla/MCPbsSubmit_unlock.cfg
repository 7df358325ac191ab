\* Two threads on one connection: t1 makes two submit calls, t2 one.
CONSTANTS
    t1 = t1
    t2 = t2
    NoThread = NoThread
    Threads <- MCThreads
    Budget <- MCBudget
SPECIFICATION Spec
INVARIANT CommittedCallReturnsJobid
