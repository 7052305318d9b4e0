SPECIFICATION Spec

CONSTANTS
    Coord = coord
    Parts = {p1}
    Threads = {t1}
    Sidecar = sidecar
    Ops = {a}
    NoOp = NoOp
    Nothing = Nothing
    OpsMax = 1
    PartsMax = 1
    RetryMax = 1
    MaxBegin = 1
    MaxCommit = 1
    MaxAbort = 0
    MaxEagain = 1
    MaxHard = 0
    MaxCrash = 0
    MaxIO = 0
    MaxEvents = 3

INVARIANTS
    SameOps

CHECK_DEADLOCK FALSE
