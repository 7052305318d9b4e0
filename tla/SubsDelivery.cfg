SPECIFICATION MCSpec

CONSTANTS
    w1 = w1
    w2 = w2
    a = a
    b = b
    s1 = s1
    s2 = s2
    none = none
    g = g
    Workers = {w1, w2}
    Clients = {a, b}
    Owner <- MCOwner
    Sids = {s1, s2}
    Interests <- MCInterests
    Topics <- MCTopics
    Inboxes <- MCInboxes
    NoGroup = none
    NoClient = NoClient
    NoRef = NoRef
    MaxClients = 2
    SubCap = 2
    QueueMax = 1
    Slack = 1
    MaxPub = 1
    MaxSub = 2
    MaxAdmin = 2
    MaxDoom = 1
    MaxOOM = 2
    MaxFaults = 2

INVARIANTS
    InterestSound
    TrieExact
    GroupOnce
    NoSilentLoss

SYMMETRY Swap

CHECK_DEADLOCK FALSE
