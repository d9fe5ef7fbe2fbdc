SPECIFICATION FairSpec
CONSTANTS
    Conn = {c1}
    Sends = {"part", "inline", "offload", "bad", "upgrade", "data", "close"}
    MaxSent = 3
    MaxBuffered = 3
    Faults = {}
    NoConn = NoConn
CHECK_DEADLOCK FALSE
PROPERTIES RequestsAnswered DeadPeersDropped ServerStops
