SPECIFICATION Spec
CONSTANTS
    None = None
    u1 = u1
    u2 = u2
    p1 = p1
    p2 = p2
    r1 = r1
    r2 = r2
    Users = {u1, u2}
    Posts = {p1, p2}
    Author <- Authors
    Requests = {r1, r2}
    MaxComments = 3
SYMMETRY Alike
INVARIANTS
    TypeOK
    ThreadsAreWhole
PROPERTIES
    RemovalIsAsked
    NewCommentsArePunctual
\* The posts may all be gone.
CHECK_DEADLOCK FALSE
