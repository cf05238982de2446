CONSTANTS
    empty = empty
    alice = alice
    bob = bob
    gateway = gateway
    cli = cli
    Contents <- TwoContents
    Empty = empty
    Procs <- TwoProcesses
    MaxWrites = 2
    MaxEdits = 1
    MaxCrashes = 0
    MaxFaults = 0
SPECIFICATION Spec
SYMMETRY SwapProcs
INVARIANTS BaselineIsRendering IntentIsHead ReadsAreCoherent
PROPERTIES NoLostUpdate LedgerSpec
