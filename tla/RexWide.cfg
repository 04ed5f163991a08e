CONSTANTS
    Alphabet <- MCAlphabet
    Free = 3
    Filler = 144
    Piece = 5
    MaxLen = 19
SPECIFICATION Spec
INVARIANTS
    RexWIgnores66
CHECK_DEADLOCK FALSE
