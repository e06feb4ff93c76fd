SPECIFICATION FairSpec
CONSTANTS
    Conn = {c1, c2}
    Fd = {1, 2}
    None = None
    Closers = {c1}
    Enders = {c1, c2}
    MaxRequests = 2
INVARIANTS TypeOK WaitersAgree NoneResumedAfterEnd NothingRaised OpenIffKept StopEndsWaiters
PROPERTIES EveryRequestAnswered EveryConnectionEnds
CHECK_DEADLOCK FALSE
