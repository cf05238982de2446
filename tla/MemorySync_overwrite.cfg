CONSTANTS
    empty = empty
    alice = alice
    bob = bob
    gateway = gateway
    cli = cli
    Contents <- TwoContents
    Empty = empty
    Procs <- OneProcess
    MaxWrites = 1
    MaxEdits = 1
    MaxCrashes = 0
    MaxFaults = 0
SPECIFICATION Spec
PROPERTIES NothingOverwritten
