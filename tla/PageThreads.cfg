CONSTANTS
    t1 = t1
    t2 = t2
    Threads = {t1, t2}
    NoThread = NoThread
    NumPages = 2
    NumBlocks = 4
    Crossing = {0}
    Targets <- MCTargets
SPECIFICATION FairSpec
INVARIANTS
    TypeOK
    OnlyChecked
    DeniedUntouched
    UncrossedOneMaster
PROPERTIES
    EventuallyRuns
