\* The discipline of Scheduler: two threads defer tasks while the loop drains.
CONSTANTS
    p1 = p1
    p2 = p2
    p3 = p3
    Producer = {p1, p2}
    Addr = {a1, a2, a3}
    NULL = NULL
    Disciplines <- TwoProducers
SPECIFICATION Spec
SYMMETRY Symmetric
INVARIANTS DequeuedWasEnqueued
