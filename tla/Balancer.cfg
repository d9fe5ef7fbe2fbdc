SPECIFICATION FairSpec
CONSTANTS
    FailureThreshold = 2
    ConnCount = 2
    BufferSize = 2
    Setups <- SmallSetups
    Faults = {"accept", "nonblocking", "connect", "resources"}
INVARIANTS
    StreamsIntact
    EventsReachTheirConnection
    ConnectionsCounted
    HealthFollowsFailures
    WeightsBalanced
PROPERTIES
    ResponseIsComplete
    EndedIsReleased
