CONSTANTS
    k1 = k1
    None = None
    Partial = Partial
    Keys <- OneKey
    maximumRetrievePriority = 0
    maximumActiveReadOperationCount = 0
    Large = {}
    Faults = {}
    Calls = {"store", "remove"}
    maxStores = 2
    maxRetrieves = 0
    maxCalls = 3
    maxShrinks = 0
SPECIFICATION Spec
CHECK_DEADLOCK FALSE
INVARIANTS
    NoStaleEntry
