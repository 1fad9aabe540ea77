CONSTANTS
    u1 = u1
    u2 = u2
    p1 = p1
    p2 = p2
    h1 = h1
    h2 = h2
    Users = {u1, u2}
    Purchases = {p1, p2}
    Handlers = {h1, h2}
    Times = {"DAY"}
    Available = {"DAY"}
    Price <- CataloguePrice
    Methods <- OneOffMethods
    MaxCount = 1
    MaxCharges = 1
    MaxClock = 2
    FaultKinds = {"mail", "dup", "db"}
    MaxFaults = 1
    None = None
SPECIFICATION Spec
SYMMETRY Interchangeable
\* A purchase may be over, and nothing left to do.
CHECK_DEADLOCK FALSE
INVARIANTS
    NoFreeDays
PROPERTIES
    ExactUnlessStale
    ImplementsLifecycle
    EndedIsPastUnlessStale
