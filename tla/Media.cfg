SPECIFICATION FairSpec
CONSTANTS
    None = None
    u1 = u1
    u2 = u2
    i1 = i1
    i2 = i2
    p1 = p1
    p2 = p2
    c1 = c1
    c2 = c2
    r1 = r1
    r2 = r2
    Users = {u1}
    Images = {i1, i2}
    Posts = {p1, p2}
    Strays = {i1}
    Calls = {c1, c2}
    Requests = {r1, r2}
    Callers = {r1, r2, "cron"}
    FaultKinds = {"s3", "status", "mongo", "crash", "timeout", "db", "stop"}
    MaxFaults = 1
    Keep = 0
    MaxClock = 1
    MaxStarts = 3
INVARIANTS
    TypeOK
    ObjectsMatchRows
    PostImagesStand
    DanglingAvatarNeedsFault
PROPERTIES
    ClearTakesWhatItSaw
    GoneAreOld
    DueIsCleaned
CHECK_DEADLOCK FALSE
