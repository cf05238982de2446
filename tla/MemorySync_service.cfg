CONSTANTS
    empty = empty
    alice = alice
    bob = bob
    gateway = gateway
    cli = cli
    Contents <- TwoContents
    Empty = empty
    Procs <- OneProcess
    MaxWrites = 2
    MaxEdits = 2
    MaxCrashes = 1
    MaxFaults = 1
SPECIFICATION FairSpec
INVARIANTS TypeOK ResultIsHonest HistoryIsComplete ImportsAreEdits
PROPERTIES NoSilentOverwrite SyncedFileIsView PendingResolves
