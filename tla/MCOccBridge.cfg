SPECIFICATION Spec
CONSTANTS
    MaxId = 3
    MaxGeneration = 1
    Keys = {"k"}
    NoCall = NoCall
INVARIANTS
    IdsNameOneShape
    ScratchReturned
    AnswersAreWritten
