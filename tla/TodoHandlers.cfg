SPECIFICATION FairHSpec
CONSTANTS
    Thread = {t1, t2}
    User = {u1}
    Data = {d1}
    Null = Null
    MaxId = 2
    MaxGeneration = 2
    CacheCapacity = 1
    Faults = {"begin", "insert", "malloc"}
    KnownIdsOnly = TRUE
INVARIANTS StoredTodosListed EntriesHaveRows UntouchedTodosListed DeletedStaysDeleted
PROPERTIES ReadersFinish WritersFinish
