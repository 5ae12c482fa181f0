SPECIFICATION Spec
CONSTANTS
    None = None
    c1 = c1  c2 = c2
    q1 = q1  q2 = q2
    Requests <- MCRequests
    Readers <- OneReader
    EventCount = 2
    PoolSize = 1
    MaxFaults = 2
CHECK_DEADLOCK FALSE
INVARIANT FailedWriteCommitsNothing
