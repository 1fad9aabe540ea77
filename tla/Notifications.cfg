SPECIFICATION Spec
CONSTANTS
    None = None
    u1 = u1
    u2 = u2
    c1 = c1
    Users = {u1, u2}
    Clients = {c1}
    Week = 2
    MaxClock = 1
    MaxNotes = 2
    MaxMoves = 2
    FaultKinds = {"db", "crash", "down"}
    MaxFaults = 2
SYMMETRY Alike
INVARIANTS
    TypeOK
    ConnectedMissNothing
PROPERTIES
    EveryoneIsTold
    NoticeIsTrue
\* The last day may be over.
CHECK_DEADLOCK FALSE
