SPECIFICATION FairSpec
CONSTANTS
    flange = flange
    plate = plate
    v1 = v1
    v2 = v2
    Limit = 2
    NoSnap = NoSnap
    Bodies = {flange, plate}
    NoBody = NoBody
    Vals = {v1, v2}
    NoVals = NoVals
    SeedBody = flange
    SeedVal = v1
    NoDoc = NoDoc
    Typed <- MCTyped
    Earlier <- MCEarlier
    MaxInputs = 3
INVARIANTS
    TypeOK
    DirtyExact
    UndoLine
    MarkersSound
    
CHECK_DEADLOCK FALSE
PROPERTY Settles
