SPECIFICATION Spec

CONSTANTS
    val = val
    tomb = tomb
    plain = plain
    key = key
    NoKey = NoKey
    Unknown = Unknown
    Torn = Torn
    Nobody = Nobody
    Payloads = {val, tomb, plain}
    Size <- MCSize
    KeyOf <- MCKeyOf
    Tombs = {tomb}
    RotateAt = 0
    DirtyNum = 1
    DirtyDen = 2
    Young = {TRUE, FALSE}
    RingMax = 1
    Troubles = {"attach"}
    MaxAppend = 3
    MaxOpen = 3
    MaxUpkeep = 0
    MaxTrouble = 1

PROPERTIES
    NothingLost

CHECK_DEADLOCK FALSE
