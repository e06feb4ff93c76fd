\* Three producers that are joined before the drain, or one producer against the
\* draining loop; four addresses for five nodes, so that new returns addresses that
\* were deleted before.
CONSTANTS
    p1 = p1
    p2 = p2
    p3 = p3
    Producer = {p1, p2, p3}
    Addr = {a1, a2, a3, a4}
    NULL = NULL
    Disciplines <- Safe
SPECIFICATION FairSpec
INVARIANTS TypeOK ListShape SizeExact NoUseAfterFree EmptyHandedOnlyWhenEmpty NothingLost
PROPERTIES ImplementsTaskQueue EveryCallEnds
