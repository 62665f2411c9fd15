SPECIFICATION Spec
CONSTANTS
    Op <- MCOp
    Prefix <- MCPrefix
    Name <- MCName
    FrameName = {"cs"}
    Shape <- MCShape
    KindOf <- MCKindOf
    Subs <- MCSubs
    MaxId = 4
    MaxDepth = 1
    Wanted = {"BODY"}
INVARIANTS
    TypeOK
    NamesSound
    PlacementsLive
PROPERTIES
    TagsFollowOps
    
    ReselectStable
