CONSTANTS
    PageBytes = 6
    NeedleBytes = 2
    SyncChecks = 3
    Threads = {t1}
    t1 = t1
    Mode = 0
    Zones <- MCZones
    Texts <- MCTexts
    MaxLoads = 2
SPECIFICATION Spec
INVARIANTS
    TypeOK
    NothingLeft
    HooksServed
    CheckedUntilExit
    ShellcodeStopped
    StaysInPage
CHECK_DEADLOCK FALSE
