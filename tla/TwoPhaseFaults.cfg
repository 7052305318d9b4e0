SPECIFICATION Spec

CONSTANTS
    Coord = coord
    Parts = {p1}
    Threads = {t1, t2}
    Sidecar = sidecar
    Ops = {a}
    NoOp = NoOp
    Nothing = Nothing
    OpsMax = 1
    PartsMax = 1
    RetryMax = 2
    MaxBegin = 2
    MaxCommit = 2
    MaxAbort = 1
    MaxEagain = 1
    MaxHard = 1
    MaxCrash = 1
    MaxIO = 1
    MaxEvents = 5

SYMMETRY SymmetryAll

INVARIANTS
    CommitBacked
    CommitOnce
    OkIsDurable

CHECK_DEADLOCK FALSE
