SPECIFICATION Spec

CONSTANTS
    Texts <- MCTexts
    Lits <- MCLits

INVARIANTS
    RunIsSheet
    LinesMapBack
    MoveShowsValues

CHECK_DEADLOCK FALSE
