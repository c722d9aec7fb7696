SPECIFICATION Spec
CONSTANTS
    Works <- TwoClasses
    Envs = {"e1", "e2"}
    Runs = {"r1", "r2"}
    WorksOf <- Served
    Editors = {x1}
    Files <- SharedFile
    LongPauses = FALSE
    DrainedRollout = TRUE
    WriteLock = TRUE
    MaxCASBytes = 2
    NoEnv = NoEnv
    None = None
    MaxUploads = 1
    MaxFaults = 1
INVARIANTS
    
    NamedIsReadable
    StoredIsAccounted
