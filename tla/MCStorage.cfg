CONSTANTS
    k1 = k1
    None = None
    Partial = Partial
    Keys <- OneKey
    maximumRetrievePriority = 1
    maximumActiveReadOperationCount = 0
    Large = {1}
    Faults = {"map", "link", "create", "write"}
    Calls = {"store", "retrieve", "remove", "clear", "setCapacity"}
    maxStores = 2
    maxRetrieves = 2
    maxCalls = 3
    maxShrinks = 1
SPECIFICATION FairSpec
CHECK_DEADLOCK FALSE
INVARIANTS
    AnswersAreWhole
    NoOlderWriteToCome
    FilterCoversDisk
PROPERTIES
    OperationsFinish
