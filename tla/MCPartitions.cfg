SPECIFICATION FairSpec
CONSTANTS
    Instances = {1, 2}
    Count = 3
    TTL = 2
    MaxRingFaults = 2
INVARIANT OneOwner
PROPERTY RingSettles
CHECK_DEADLOCK FALSE
