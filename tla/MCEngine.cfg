CONSTANTS
    e1 = e1
    e2 = e2
    d1 = d1
    d2 = d2
    d3 = d3
    Engines = {e1, e2}
    Dispatches = {d1, d2, d3}
    Granted = {}
    Redeems = TRUE
    Named = FALSE
    Targeted = {}
    Slots <- MCSlots
    CapsOf <- MCCapsOf
    TenantOf <- MCTenantOf
    Invalid = {d3}
    AtMostOnce = {d2}
    Forking = {d1}
    Timed = {d1}
    MaxBoxes = 2
    MaxLive = 1
    Chunks = 2
    MaxFaults = 1
SPECIFICATION Spec
INVARIANTS  RoomIsOffered  
CHECK_DEADLOCK FALSE
