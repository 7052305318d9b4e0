INIT MCInit
NEXT MCNext
CONSTANTS
    n1 = n1
    n2 = n2
    n3 = n3
    Names = {n1, n2, n3}
    AnyPeer = AnyPeer
    NoName = NoName
    Sessions = {s1}
    Patterns <- MCPatterns
    Sources <- MCSources
    Topics <- MCTopics
    Inboxes <- MCInboxes
    Dests = {d1}
    AccountMax = 2
    MaxRules = 1
    MaxMaps = 1
    MaxEpoch = 3
    Takers = {h1, h2}
    Limits = {0, 1, 2}
    MaxLife = 4
SYMMETRY Sym
INVARIANTS
    PermsLive
    GatesAgree
    CreditsExact
CHECK_DEADLOCK FALSE
