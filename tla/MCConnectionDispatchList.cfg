CONSTANTS
    None = None
    ui = ui
    web = web
    plugin = plugin
    Processes <- ThreeProcesses
    Endpoints <- TwoConnections
    processOf <- ProcessOfEndpoint
    peerOf <- PeerOfEndpoint
    OnlyFlagged <- Answering
    ExitOnFailure <- ExitsOnFailure
    NestedLoops = {}
    Operations <- Geometry
    maxOperations <- WebTwice
    Mortal = {}
    Names = {"async"}
    capacity = 1
CHECK_DEADLOCK FALSE
SPECIFICATION Spec
INVARIANT
    NoSyncDeadlock
