CONSTANTS
    u1 = u1
    p1 = p1
    h1 = h1
    Users = {u1}
    Purchases = {p1}
    Handlers = {h1}
    Times = {"DAY"}
    Available = {"DAY"}
    Price <- CataloguePrice
    Methods <- StripeMethods
    MaxCount = 1
    MaxCharges = 1
    MaxClock = 0
    FaultKinds = {}
    MaxFaults = 0
    None = None
SPECIFICATION Spec
SYMMETRY Interchangeable
\* A purchase may be over, and nothing left to do.
CHECK_DEADLOCK FALSE
PROPERTIES
    NoticeIsEndDate
