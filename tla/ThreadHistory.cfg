SPECIFICATION Spec
CONSTANTS
    NoThread = NoThread
    NoRun = NoRun
    r1 = r1  r2 = r2  r3 = r3
    t1 = t1  t2 = t2
    Threads <- MCThreads
    Runs <- MCRuns
    MaxHistory = 4
    OwnHistories <- MCOwnHistories
SYMMETRY ThreadSymmetry
INVARIANTS
    TypeOK
    BufferIsRecentConversation
    ContextIsOwnThreadAtStart
    ContextIsPresentable
CHECK_DEADLOCK FALSE
