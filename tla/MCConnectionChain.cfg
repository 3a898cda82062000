CONSTANTS
    None = None
    ui = ui
    web = web
    plugin = plugin
    Processes <- ThreeProcesses
    Endpoints <- TwoConnections
    processOf <- ProcessOfEndpoint
    peerOf <- PeerOfEndpoint
    OnlyFlagged <- Answering
    ExitOnFailure <- ExitsOnFailure
    NestedLoops = {}
    Operations <- CalledByBoth
    maxOperations <- WebTwice
    Mortal = {plugin}
    Names = {"async"}
    capacity = 1
CHECK_DEADLOCK FALSE
SPECIFICATION FairSpec
INVARIANT
    AssertsHold
PROPERTIES
    HandledInOrder
    NoMessageIsDropped
    
