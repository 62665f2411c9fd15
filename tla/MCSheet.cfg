SPECIFICATION RowSpec

CONSTANTS
    Low = 1
    High = 31
    Step = 4
    Default = 6
    Inputs <- MCInputs
    Bad = Bad
    NoTimer = NoTimer


    

PROPERTY
    TimerConfirms

CHECK_DEADLOCK FALSE
