CONSTANTS
    p1 = p1
    p2 = p2
    r1 = r1
    Passes = {p1, p2}
    Runs = {r1}
    Steps = {"scrub", "act", "host"}
    Engines = {"plain", "root"}
    Feeds <- MCFeeds
    Arrives <- MCArrives
    Effect <- MCEffect
    Needs <- MCNeeds
    WantsKind <- MCWantsKind
    Declares <- MCDeclares
    Builtin = {"host"}
    Upstream <- MCUpstream
    Lockfile <- MCLockfile
    Accepted = {}
    Tier = "default"
    Offers <- MCOffers
    Holdings <- MCHoldings
    Registered = {"plain"}
    GateSteps = {"scrub"}
    Tries <- MCTries
    Documents <- MCDocuments
    MaxHandles = 2
    MaxFaults = 1
SPECIFICATION Spec
SYMMETRY AlikePasses
INVARIANTS KeepsItsHandles RedeemedOnce HandlesDieInOneTick
PROPERTY NothingUntrustedActs
CHECK_DEADLOCK FALSE
