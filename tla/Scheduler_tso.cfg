\* x86 store buffers, epoll_wait with a timeout.
CONSTANTS
    Poster = {p1}
    Stopper = {s1}
    Task = {t1, quit}
    StopTask = {quit}
    Fd = {conn}
    MaxEvents = 1
    EpollTimeout = TRUE
    StoreBuffers = TRUE
SPECIFICATION FairSpec
PROPERTIES StopEndsStart
CHECK_DEADLOCK FALSE
