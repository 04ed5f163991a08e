CONSTANTS
    p1 = p1
    p2 = p2
    Procs <- MCOne
    NoProc = NoProc
    Filler = Filler
    Garbage = Garbage
    Entries = 2
    NumBlocks = 2
    Mappings <- MCWritable
    MaxStores = 1
    MaxInfos = 2
SPECIFICATION Spec
INVARIANTS
    CheckedAgain
CHECK_DEADLOCK FALSE
