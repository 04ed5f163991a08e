CONSTANTS
    NumPages = 2
    PageSize = 4
    InvRun = 2
    Cell <- MCCell
    INV = "inv"
    Long <- MCLong
    Control <- MCControl
    Illegal <- MCIllegal
    Text <- CrossingText
    FreshText <- MCFresh
    InitProt <- WriteOnly
    Stored = {"new"}
    Transitions <- Sealing
    Remapped = {0}
    Failures = {"alloc", "register", "write", "check"}
    MaxChanges = 3
SPECIFICATION Spec
INVARIANTS
    TypeOK
    OnlyCheckedRuns
    CheckHolds
    WriteXorExecute
