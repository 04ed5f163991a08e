CONSTANTS
    NumPages = 2
    PageSize = 4
    InvRun = 2
    Cell <- MCCell
    INV = "inv"
    Long <- MCLong
    Control <- MCControl
    Illegal <- MCIllegal
    Text <- StraightText
    FreshText <- MCFresh
    InitProt <- TextThenJit
    Stored = {"new"}
    Transitions = {}
    Remapped = {}
    Failures = {}
    MaxChanges = 1
SPECIFICATION Spec
INVARIANT WholeInstructions
