CONSTANTS
    t1 = t1
    t2 = t2
    t3 = t3
    Threads <- ThreeThreads
    Null = Null
    Timeouts = {"past", "sometime", "never"}
    maxItems = 2
CHECK_DEADLOCK FALSE
SPECIFICATION FairSpec
INVARIANTS
    NoHiddenWaiters
    NoStuckConsumer
PROPERTY
    WaitersAreServed
