SPECIFICATION Spec
CONSTANTS
    Conn = {c1, c2}
    Fd = {1}
    None = None
    Closers = {c1}
    Enders = {}
    MaxRequests = 1
INVARIANTS NoDoubleRegistration
CHECK_DEADLOCK FALSE
