SPECIFICATION FairSpec
CONSTANTS
    Steps = {1, 2}
    Preds <- Apart
    Pipelines = {{1}, {2}}
    Repeatable = {1}
    MaxTries = 2
    Advancers = {adv}
    Consumers = {con}
    Sweepers = {swp}
    Engines = {eng}
    SlowCommits = FALSE
    SweepsSurvive = TRUE
    MaxFaults = 1
    MaxFence = 5
INVARIANTS
    NeverOverDispatched
    ClosedHonestly
    NoDispatchLost
    InFlightIsCovered
PROPERTY
    RunSettles
