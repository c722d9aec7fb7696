SPECIFICATION BodiesSpec
CONSTANTS
    StepKinds <- MCStepKinds
    MaxBodies = 3
    GrantedSteps = {"read_run", "apply_operation", "start_run"}
    Untrusted = {}
    Batches <- MCBatches
    MaxSteps = 2
    MaxCalls = 2
    MaxTokens = 1
    MaxBodyFaults = 2
INVARIANTS
    StaysInBounds
    CallsAreRecorded
CHECK_DEADLOCK FALSE
