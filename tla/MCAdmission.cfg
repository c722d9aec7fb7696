SPECIFICATION AdmissionSpec
CONSTANTS
    t1 = t1
    t2 = t2
    a = a
    b = b
    w1 = w1
    w2 = w2
    p1 = p1
    Tenants = {t1, t2}
    Weight <- MCWeight
    Runs = {1, 2}
    Steps = {1, 2, 3}
    RunOf <- MCRunOf
    TenantOf <- MCTenantOf
    PipelineOf <- MCPipelineOf
    Limit <- MCLimit
    Quota <- MCQuota
    RunsPerDay = 1
    Workers = {w1, w2}
    PlaneOf <- MCPlaneOf
    Tries <- MCTries
    MaxSlots = 2
    MaxAdmissionFaults = 1
INVARIANTS
    BudgetHonoured
    PendingAccounted
    
PROPERTY
    DrainServesInTurn
CHECK_DEADLOCK FALSE
SYMMETRY Alike
