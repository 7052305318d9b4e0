CONSTANTS
    c1 = c1
    c2 = c2
    Conns = {c1, c2}
    LiveMax = 2
    BatchMax = 2
    InboxMax = 1
    Window = 2
    MaxPids = 1
    CoroCap = 1
    Ids <- MsgIds
    Plans <- MCPlans
    val = val
    tomb = tomb
    plain = plain
    key = key
    NoKey = NoKey
    Unknown = Unknown
    Torn = Torn
    Nobody = Nobody
    RotateAt = 6
    DirtyNum = 1
    DirtyDen = 2
    Young = {TRUE, FALSE}
    RingMax = 1
    Troubles = {"attach", "other", "async", "crash", "power", "io", "stuck"}
    MaxAppend = 3
    MaxOpen = 3
    MaxUpkeep = 2
    MaxTrouble = 2

INIT MCInit
NEXT MCNext

INVARIANTS
    Durable
    ReadSound
    ArchiveView
    LiveExact
    FanoutHonest

PROPERTIES
    ReopenKeeps

CHECK_DEADLOCK FALSE
