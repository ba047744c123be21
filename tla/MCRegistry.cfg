SPECIFICATION Spec
CONSTANTS
    r1 = r1
    r2 = r2
    r3 = r3
    k1 = k1
    k2 = k2
    None = None
    Slots = {r1, r2, r3}
    Clients = {1, 2, 3}
    Conns = {k1, k2}
    MaxRequests = 3
    MaxExpiries = 1
    MaxCrashes = 1
CHECK_DEADLOCK FALSE
INVARIANTS
    TypeOK
    ProcessAccounted
    OneLoadCreates
    DeadEntryIsTransient
    LoadListens
PROPERTIES
    LoadEnds
