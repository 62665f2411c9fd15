SPECIFICATION Spec
CONSTANTS
    MaxDocs = 4
    MaxPages = 2
    MaxRepos = 2
    MaxActs = 3
    Faults = {}
    Overlap = FALSE
    NoStore = NoStore
INVARIANT WipeIsFinal
