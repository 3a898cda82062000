CONSTANTS
    None = None
    ui = ui
    web = web
    plugin = plugin
    Processes <- UIAndWeb
    Endpoints <- UIConnection
    processOf <- ProcessOfEndpoint
    peerOf <- PeerOfEndpoint
    OnlyFlagged <- Answering
    ExitOnFailure <- ExitsOnFailure
    NestedLoops = {ui}
    Operations <- Impatient
    maxOperations <- UITwice
    Mortal = {web}
    Names = {"async"}
    capacity = 1
CHECK_DEADLOCK FALSE
SPECIFICATION FairSpec
INVARIANTS
    TypeOK
    AssertsHold
    NoLostWakeup
PROPERTIES
    ImplementsSyncCall
    SyncSendsReturn
    NoMessageIsDropped
    QueuesDrain
    ClosesAreNoticed
