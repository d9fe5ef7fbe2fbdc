SPECIFICATION Spec
CONSTANTS
    Thread = {t1}
    FrameCount = 2
    MaxPage = 2
    WalBufferSize = 2
    MaxChange = 1
    MaxTxn = 2
    MaxRestart = 0
    OldPages = {1}
    Faults = {"wal"}
    t1 = t1
INVARIANT LogAppendsOnce
