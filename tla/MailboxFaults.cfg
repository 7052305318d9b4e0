SPECIFICATION Spec

CONSTANTS
    w1 = w1
    w2 = w2
    a = a
    b = b
    r1 = r1
    r2 = r2
    s1 = s1
    Workers = {w1, w2}
    Acceptor = acceptor
    Clients = {a, b}
    Owner <- MCOwner
    Requests = {r1}
    From <- MCFrom
    To <- MCTo
    Sends = {s1}
    Dest <- MCDest
    NoId = NoId
    NoMsg = NoMsg
    QueueMax = 2
    Slack = 1
    WakeBatch = 1
    ServeTeardowns = 1
    Attempts = 2
    MaxTeardown = 1
    MaxWake = 1
    MaxDead = 1
    MaxIO = 1

INVARIANTS
    SlotFreedOnce
    NotStranded
    OneResponder
    AckedOnce

CHECK_DEADLOCK FALSE
