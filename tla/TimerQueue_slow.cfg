SPECIFICATION FairSpec
CONSTANTS
    MaxTimers = 2
    MaxInterval = 2
    MaxLate = 1
    SlowCallbacks = TRUE
PROPERTIES
    EveryTimerRuns
