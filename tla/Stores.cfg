\* A ring of two slots and three bytes, two consumers and three partitions; a $JS
\* stream of three messages with two ends of the process; two buckets where one fits.
CONSTANTS
    c1 = c1
    o1 = o1
    o1t = o1t
    o1tt = o1tt
    Values = {1, 2}
    Size <- MCSize
    PartOf <- MCPart
    SafeNames = {c1, c2}
    Cap = 2
    MaxBytes = 3
    MaxParts = 3
    ConsMax = 2
    NoVal = NoVal
    NoFile = NoFile
    Consumers = {c1, c2}
    Writers = {w1}
    Readers = {r1}
    Miss = Miss
    MaxSeq = 4
    Torn = Torn
    Junk = 4
    NoSlot = NoSlot
    Rotates = {0, 1}
    MaxPublish = 3
    MaxRestart = 1
    MaxReload = 1
    MaxTrouble = 1
    Buckets = {b1, b2}
    Keys = {k1, k2}
    KvValues = {v1, v2}
    Empty = Empty
    NoTable = NoTable
    BucketMax = 1
    SlotMax = 1
    MaxWrite = 2
INIT MCInit
NEXT MCNext
INVARIANTS BytesExact NothingSkipped LastNotStale Recovered
PROPERTIES ImplementsLog
CHECK_DEADLOCK FALSE
