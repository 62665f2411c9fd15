SPECIFICATION Spec
CONSTANTS
    v1 = v1
    v2 = v2
    Val = {v1, v2}
    None = None
    Declared = v1
    MaxInputs = 3
    MaxFaults = 1
INVARIANTS  NoOrphanWait SheetOfLastHarvest CommitIsCurrent NothingHangs
CHECK_DEADLOCK FALSE
