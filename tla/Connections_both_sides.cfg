SPECIFICATION Spec
CONSTANTS
    Conn = {c1}
    Fd = {1}
    None = None
    Closers = {c1}
    Enders = {c1}
    MaxRequests = 1
INVARIANTS LocalCloseFindsWaiter
CHECK_DEADLOCK FALSE
