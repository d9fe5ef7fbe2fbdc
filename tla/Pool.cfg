SPECIFICATION FairSpec
CONSTANTS
    Worker = {w1, w2}
    Submitter = {s1, s2}
    Task = {a, b, c}
    NumPriorities = 2
    None = None
    CreateMayFail = TRUE
    SubmitMayFail = TRUE
CHECK_DEADLOCK FALSE
INVARIANTS ParkedOnlyWhenCovered SizeIsExact FreedIsUnused
PROPERTIES KeepsPromise DestroyReturns HighestServed LowerServedInLulls
