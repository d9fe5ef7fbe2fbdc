SPECIFICATION Spec
CONSTANTS
    Conn = {c1}
    Sends = {"offload"}
    MaxSent = 1
    MaxBuffered = 2
    Faults = {}
    NoConn = NoConn
CHECK_DEADLOCK FALSE
INVARIANTS RearmsLiveSocket
