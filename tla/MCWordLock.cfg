CONSTANTS
    t1 = t1
    t2 = t2
    t3 = t3
    Null = Null
    spinLimit = 1
    Threads <- ThreeThreads
SPECIFICATION FairSpec
INVARIANTS
    TypeOK
    MutualExclusion
    LockSlowAsserts
    UnlockSlowAsserts
    OwnDataAsserts
    QueueIsSound
PROPERTIES
    QueueIsFIFO
    ImplementsMutex
    UnlockReturns
    LockIsHandedOn
