SPECIFICATION Spec
CONSTANTS
    MaxDocs = 3
    MaxPages = 2
    MaxRepos = 2
    MaxActs = 3
    Faults = {"open", "get", "put", "git", "save"}
    Overlap = FALSE
    NoStore = NoStore

    
    
    
PROPERTIES
    
    PrimaryFirst
