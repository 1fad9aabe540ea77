CONSTANTS
    u1 = u1
    p1 = p1
    h1 = h1
    h2 = h2
    Users = {u1}
    Purchases = {p1}
    Handlers = {h1, h2}
    Times = {"DAY"}
    Available = {"DAY"}
    Price <- CataloguePrice
    Methods <- AllMethods
    MaxCount = 2
    MaxCharges = 1
    MaxClock = 0
    FaultKinds = {"db", "mail", "timeout", "crash", "dup"}
    MaxFaults = 2
    None = None
SPECIFICATION Spec
SYMMETRY Interchangeable
\* A purchase may be over, and nothing left to do.
CHECK_DEADLOCK FALSE
INVARIANTS
    TypeOK
    PayableIsBacked
    AckedIsGranted
    ExtraGrantsNeedFaults
