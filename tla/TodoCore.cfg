SPECIFICATION Spec
CONSTANTS
    Thread = {t1, t2, t3}
    User = {u1}
    Data = {d1, d2}
    Null = Null
    MaxId = 2
    MaxGeneration = 2
    CacheCapacity = 1
    Faults = {"insert", "restore", "delete", "search"}
    KnownIdsOnly = TRUE
SYMMETRY Interchangeable
INVARIANTS TypeOK CacheCoherent
