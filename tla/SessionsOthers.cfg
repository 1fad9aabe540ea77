CONSTANTS
    u1 = u1
    u2 = u2
    d1 = d1
    d2 = d2
    c1 = c1
    c2 = c2
    r1 = r1
    r2 = r2
    r3 = r3
    Users = {u1, u2}
    Devices = {d1, d2}
    Clients = {c1, c2}
    Requests = {r1}
    TTL = 2
    MaxClock = 1
    FaultKinds = {}
    MaxFaults = 0
    None = None
SPECIFICATION Spec
SYMMETRY Interchangeable
\* All device ids may be used up, and nobody logged in.
CHECK_DEADLOCK FALSE
PROPERTIES
    OthersAreOwn
