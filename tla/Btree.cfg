SPECIFICATION Spec
CONSTANTS
    MaxKey = 6
    PairSize <- OneSmallPair
    SepSize = 3
    Capacity = 6
    MaxPage = 9
    MaxDepth = 6
    MaxCalls = 12
    MaxFaults = 1
INVARIANTS
    SearchFindsStored
    ScanIsSortedRange
    InsertRefusesOnlyDuplicates
    NothingLost
