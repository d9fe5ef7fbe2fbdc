SPECIFICATION Spec
CONSTANTS
    Thread = {t1, t2}
    FrameCount = 2
    MaxPage = 3
    WalBufferSize = 2
    MaxChange = 1
    MaxTxn = 2
    MaxRestart = 1
    Faults = {"evict", "checkpoint", "memory"}
    OldPages = {2}
    t1 = t1
    t2 = t2
SYMMETRY Interchangeable
INVARIANTS
    PoolConsistent
    LatestReadable
    AllocatedIsFree
    LogAheadOfFile
    CommittedLogged
PROPERTIES
    PagesHoldStill
