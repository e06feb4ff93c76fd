\* No worker, or one to three; a second Stop and an attempt to accept that fails.
CONSTANTS
    Sizes = {0, 1, 2, 3}
    MaxConnections = 3
    MaxStops = 2
    MaxFailures = 1
SPECIFICATION FairSpec
INVARIANTS SeverTypeOK BreaksOnlyWhen OffMeansEnded
PROPERTIES EveryoneServed StopEndsSever
CHECK_DEADLOCK FALSE
