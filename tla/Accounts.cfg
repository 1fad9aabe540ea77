CONSTANTS
    u1 = u1
    u2 = u2
    e1 = e1
    e2 = e2
    n1 = n1
    n2 = n2
    k1 = k1
    k2 = k2
    k3 = k3
    google = google
    github = github
    r1 = r1
    r2 = r2
    Users = {u1, u2}
    Emails = {e1, e2}
    Names = {n1, n2}
    Codes = {k1, k2, k3}
    Providers = {google, github}
    Requests = {r1, r2}
    CodeLife = 0
    MaxClock = 1
    MaxStarts = 4
    MaxRows = 2
    FaultKinds = {"db", "mail", "late", "crash"}
    MaxFaults = 1
    None = None
SPECIFICATION Spec
SYMMETRY Interchangeable
\* All requests may have been answered.
CHECK_DEADLOCK FALSE
INVARIANTS
    TypeOK
    UnconfirmedCanConfirm
    StoredCodesAreMailed
    ResetsAreStored
    LoggedInAreConfirmed
    LinkedTwiceNeedsOverlap
PROPERTIES
    ConfirmedIsKept
