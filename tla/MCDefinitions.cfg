SPECIFICATION Spec
CONSTANTS
    Principals = {ann, bob}
    Ops <- MCOps
    Seed <- MCSeed
    Uploaded = {"d1"}
    Digests = {v1, v2}
    MaxEdits = 2
    MaxApprovals = 2
    MaxRuns = 1
    MaxFaults = 1
SYMMETRY Symmetry
INVARIANTS NoEditLost MergedUnseen  RunsWereReviewed
CHECK_DEADLOCK FALSE
