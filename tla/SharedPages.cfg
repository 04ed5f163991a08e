CONSTANTS
    p1 = p1
    p2 = p2
    Procs <- MCProcs
    NoProc = NoProc
    Filler = Filler
    Garbage = Garbage
    Entries = 2
    NumBlocks = 2
    Mappings <- MCMappings
    MaxStores = 2
    MaxInfos = 2
SPECIFICATION Spec
INVARIANTS
    TypeOK
    SharedChecked
    OneMaster
    Recoverable
    WriteXorExecute
    NeighbourDenied
    NobodyKilled
CHECK_DEADLOCK FALSE
