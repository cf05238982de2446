CONSTANTS
    gateway = gateway
    cli = cli
    home = home
    news = news
    Procs <- TwoProcesses
    Urls <- TwoUrls
    Versions <- TwoVersions
    Blocks <- SmallBlocks
    Models <- TwoModels
    OnlineMaxUrls = 2
    MaxIngests = 1
    MaxRetrieves = 1
    MaxUpdates = 1
    MaxStarts = 2
SPECIFICATION Spec
SYMMETRY Swap
INVARIANTS DatabaseIsSound EvidenceIsSound
PROPERTIES SavedIsStored
CHECK_DEADLOCK FALSE
