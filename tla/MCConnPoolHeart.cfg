SPECIFICATION FairSpec
CONSTANTS
    Conn = {c1, c2}
    Pool = {c1}
    Client = {k1, k2}
    Fd = {f1, f2}
    WaitTime = 1
    Heartbeat = TRUE
    None = None
INVARIANT CountersMatch
PROPERTIES
    
    RecyReturned
CHECK_DEADLOCK FALSE
