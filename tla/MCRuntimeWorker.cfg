SPECIFICATION FairSpec
CONSTANTS
    k1 = k1
    k2 = k2
    p = p
    q = q
    r = r
    Keys <- MCKeys
    Prints <- MCPrints
    Prog <- MCProg
    Bases = {b1, b2}
    DefaultBase = b1
    NoBase = NoBase
    NoKey = NoKey
    NoMesh = NoMesh
    MaxJobs = 3
INVARIANTS
    TypeOK
    GuestShapesLive
    BusyMeansPending
    GuestRunsCurrentBase
PROPERTIES
    SweepExact
    ImplementsLatestWins EveryRequestAnswered
CHECK_DEADLOCK FALSE
