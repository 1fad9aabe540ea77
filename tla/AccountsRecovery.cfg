CONSTANTS
    u1 = u1
    e1 = e1
    n1 = n1
    k1 = k1
    k2 = k2
    k3 = k3
    google = google
    r1 = r1
    Users = {u1}
    Emails = {e1}
    Names = {n1}
    Codes = {k1, k2, k3}
    Providers = {google}
    Requests = {r1}
    CodeLife = 1
    MaxClock = 0
    MaxStarts = 3
    MaxRows = 1
    FaultKinds = {}
    MaxFaults = 0
    None = None
SPECIFICATION Spec
SYMMETRY Interchangeable
\* All requests may have been answered.
CHECK_DEADLOCK FALSE
PROPERTIES
    RecoveryMailWorks
