SPECIFICATION Spec
CONSTANTS
    Conn = {c1, c2}
    Sends = {"inline", "offload"}
    MaxSent = 2
    MaxBuffered = 2
    Faults = {"add", "submit"}
    NoConn = NoConn
SYMMETRY Interchangeable
CHECK_DEADLOCK FALSE
INVARIANTS OffloadedIsKept BatchIsLive NothingLeaks
