CONSTANTS
    u1 = u1
    u2 = u2
    d1 = d1
    d2 = d2
    c1 = c1
    r1 = r1
    r2 = r2
    Users = {u1, u2}
    Devices = {d1, d2}
    Clients = {c1}
    Requests = {r1, r2}
    TTL = 2
    MaxClock = 1
    FaultKinds = {"db", "lost", "crash"}
    MaxFaults = 1
    None = None
SPECIFICATION Spec
SYMMETRY Interchangeable
\* All device ids may be used up, and nobody logged in.
CHECK_DEADLOCK FALSE
INVARIANTS
    TypeOK
    HolderIsAccepted
    OneGeneration
PROPERTIES
    EndedByOwner
    ImplementsLifecycle
