\* Two cells of length before each message; a buffer of four cells holds a message of
\* two exactly, one of five makes it grow.
CONSTANTS
    Initial = 4
    DoublingLimit = 4
    Increment = 2
    Package = 2
    HeaderLen = 2
    Payloads = {0, 1, 2, 5}
    MaxFrames = 4
    Keys = {0, 2, 3, 6, 8}
    FirstSize = 1
    MaxSize = 6
    Members = {1, 2, 3, 4}
    TopLevel = 3

SPECIFICATION Spec
CHECK_DEADLOCK FALSE
INVARIANTS StreamTypeOK StreamInOrder OverrunOnlyWhenPipelined HashIsSet IterationComplete RanksExact
PROPERTY EveryMessageReceived
