SPECIFICATION Spec
CONSTANTS
    Steps = {s1}
    NoStep = NoStep
    Callers = {p, q}
    MaxAttempt = 2
    TTL = 1
    MaxOfferRaces = 2
    MaxRev = 5
    Horizon = 2
SYMMETRY CallerSymmetry
CHECK_DEADLOCK FALSE
INVARIANTS
    OneLeasePerAttempt
    OrphanHandedOnce
    UnacceptedNeverOrphaned
PROPERTIES
    FirstWindowHonoured
    ImplementsFencing
