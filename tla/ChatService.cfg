SPECIFICATION FairSpec
CONSTANTS
    None = None
    c1 = c1  c2 = c2
    q1 = q1  q2 = q2
    Requests <- MCRequests
    Readers <- MCReaders
    EventCount = 2
    PoolSize = 2
    MaxFaults = 2
INVARIANTS
    TypeOK
    ReplyMatchesTables
    ConnectionsComeBack
PROPERTY ImplementsContract
CHECK_DEADLOCK FALSE
