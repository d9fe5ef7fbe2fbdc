SPECIFICATION HSpec
CONSTANTS
    Thread = {t1, t2}
    User = {u1}
    Data = {d1}
    Null = Null
    MaxId = 1
    MaxGeneration = 2
    CacheCapacity = 1
    Faults = {}
    KnownIdsOnly = TRUE
SYMMETRY Interchangeable
INVARIANTS ListingIsSnapshot
