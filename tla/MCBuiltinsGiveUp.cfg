SPECIFICATION Spec
CONSTANTS
    Planes = {p1, p2}
    People = {h1}
    Steps <- MCSteps
    Preds <- MCPreds
    Kind <- MCKind
    From <- MCFrom
    Iteration <- MCIteration
    Pipelines <- MCPipelines
    Repeatable <- ModelRepeats
    MaxTries = 2
    LoopMax = 1
    MaxFragments = 4
    SlowPeople = TRUE
    MaxFaults = 1
    MaxFence = 3
INVARIANT
    FailuresAreFenced
CHECK_DEADLOCK FALSE
