SPECIFICATION Spec
CONSTANTS
    p1 = p1
    p2 = p2
    Planes = {p1, p2}
    Schedules = {"nightly"}
    Hooks = {"push"}
    Git = {"push"}
    DeclaredOn <- MCDeclaredOn
    Port <- MCPort
    Period = 1
    Lease = 2
    MaxTime = 3
    MaxVersions = 2
    MaxFires = 2
    MaxFaults = 1
INVARIANTS ScheduleHonoured RunsFitTheirRevision 
CHECK_DEADLOCK FALSE
