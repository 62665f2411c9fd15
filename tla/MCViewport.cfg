SPECIFICATION Spec

CONSTANTS
    Mouse = Mouse
    Fingers = {f1}
    NoDrag = NoDrag
    Pixels <- MCPixels
    Reach = 1
    Angles = 2
    DefaultLimits <- MCDefaultLimits
    Values <- MCValues
    Extents <- MCExtents

INVARIANT
    GestureOwned

PROPERTIES
    DragOwnsPointer
    FramingKept

CHECK_DEADLOCK FALSE
