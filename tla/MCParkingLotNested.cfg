CONSTANTS
    t1 = t1
    t2 = t2
    t3 = t3
    a1 = a1
    a2 = a2
    Null = Null
    Threads <- ThreeThreads
    Addresses <- TwoAddresses
    hashAddress <- CollidingHashes
    maxLoadFactor = 2
    growthFactor = 1
    bucketAddress <- Scrambled
    Calls <- ParkUnparkAndWalk
    Timeouts = {"never"}
    maxParks = 2
SPECIFICATION Spec
INVARIANTS
    NoDeadlock
    ThreadsAreFindable
    SleepersAreReachable
PROPERTIES
    RehashKeepsBuckets
