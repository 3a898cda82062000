CONSTANTS
    t1 = t1
    t2 = t2
    t3 = t3
    a1 = a1
    a2 = a2
    Null = Null
    Threads <- ThreeThreads
    Addresses <- TwoAddresses
    hashAddress <- CollidingHashes
    maxLoadFactor = 1
    growthFactor = 1
    bucketAddress <- Scrambled
    Calls <- SleepersAndWaker
    Timeouts = {"sometime"}
    maxParks = 1
SYMMETRY Symmetry
SPECIFICATION Spec
PROPERTIES
    ReturnsOffQueue
    ReportsAreTrue
    ImplementsParkingQueues
