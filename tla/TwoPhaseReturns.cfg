SPECIFICATION FairSpec

CONSTANTS
    Coord = coord
    Parts = {p1, p2}
    Threads = {t1, t2}
    Sidecar = sidecar
    Ops = {a}
    NoOp = NoOp
    Nothing = Nothing
    OpsMax = 1
    PartsMax = 1
    RetryMax = 1
    MaxBegin = 1
    MaxCommit = 1
    MaxAbort = 1
    MaxEagain = 1
    MaxHard = 1
    MaxCrash = 0
    MaxIO = 1
    MaxEvents = 4

PROPERTIES
    HandlerReturns

CHECK_DEADLOCK FALSE
