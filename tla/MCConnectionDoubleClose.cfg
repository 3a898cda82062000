CONSTANTS
    None = None
    ui = ui
    web = web
    plugin = plugin
    Processes <- WebAndPlugin
    Endpoints <- PluginConnection
    processOf <- ProcessOfEndpoint
    peerOf <- PeerOfEndpoint
    OnlyFlagged <- Answering
    ExitOnFailure <- ExitsOnFailure
    NestedLoops = {}
    Operations <- HearOfCrash
    maxOperations <- WebTwice
    Mortal = {plugin}
    Names = {"async"}
    capacity = 1
CHECK_DEADLOCK FALSE
SPECIFICATION Spec
INVARIANT
    CloseAsserts
