SPECIFICATION Spec

CONSTANTS
    Texts <- MCTwo
    Lits <- MCLits

INVARIANT RunIsSheet

CHECK_DEADLOCK FALSE
