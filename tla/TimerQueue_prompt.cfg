SPECIFICATION FairSpec
CONSTANTS
    MaxTimers = 3
    MaxInterval = 2
    MaxLate = 1
    SlowCallbacks = FALSE
INVARIANTS
    TypeOK
    SetsAgree
    ArmedForEarliest
    CancelledIsGone
PROPERTIES
    EveryTimerRuns
