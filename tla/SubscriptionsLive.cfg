CONSTANTS
    u1 = u1
    p1 = p1
    h1 = h1
    h2 = h2
    Users = {u1}
    Purchases = {p1}
    Handlers = {h1}
    Times = {"DAY"}
    Available = {"DAY"}
    Price <- CataloguePrice
    Methods <- AllMethods
    MaxCount = 1
    MaxCharges = 2
    MaxClock = 2
    FaultKinds = {"db", "mail", "timeout", "crash", "dup"}
    MaxFaults = 2
    None = None
SPECIFICATION FairSpec
\* A purchase may be over, and nothing left to do.
CHECK_DEADLOCK FALSE
PROPERTIES
    PaidIsGranted
    ExpiredIsEnded
