CONSTANTS
    t1 = t1
    t2 = t2
    t3 = t3
    Threads <- ThreeThreads
    spinLimit = 1
SPECIFICATION FairSpec
INVARIANTS
    UnlockAsserts
    ParkedBitIsSet
PROPERTIES
    ImplementsMutex
    LockIsHandedOn
