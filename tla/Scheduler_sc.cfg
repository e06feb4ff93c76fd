\* Sequential consistency, epoll_wait without a timeout.
CONSTANTS
    Poster = {p1, p2}
    Stopper = {s1}
    Task = {t1, t2, quit}
    StopTask = {quit}
    Fd = {conn}
    MaxEvents = 1
    EpollTimeout = FALSE
    StoreBuffers = FALSE
SPECIFICATION FairSpec
INVARIANTS TypeOK NoLostWakeup NoLostStop QueueUsedSafely
PROPERTIES EveryTaskRuns DeferredStopEndsStart
CHECK_DEADLOCK FALSE
