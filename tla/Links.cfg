\* Two threads, three peers and two slots, so that the pools are full, slots are
\* reclaimed, and a dial may be overtaken by everything that can overtake it.  The
\* sizes stand on both sides of the limits of the packet formats.
CONSTANTS
  PeerNames = {x, y, z}
  Addrs = {a1, a2}
  Threads = {t1, t2}
  NoName = NoName
  NoAddr = NoAddr
  Bufs = {a1, a2}
  NoBuf = NoAddr
  RingSize = 2
  FreeMax = 1
  Fds = {1, 2, 3}
  Ports = {1, 2}
  MaxConns = 2
  MaxClusters = 3
  MaxTrouble = 2
  MaxWork = 3
  MaxDials = 3
  MaxSends = 1
  MaxSubs = 2
  MaxId = 3
  MaxCalls = 4
  MaxPackets = 3
  MaxMsgs = 4
  Sizes = {0, 1, 63, 64, 127, 1024}
  Totals = {0, 1, 127, 128, 129, 16383, 16384, 2097151, 2097152, 268435455}
  Levels = {"", "a", "b", "+", "#"}
  Chars = {"a", "/", "+", "#", ".", "*", ">"}
  MaxLevels = 3
  ItemSizes = {2, 3, 5}
  MaxItems = 2
INIT MCInit
NEXT MCNext
SYMMETRY Sym
INVARIANTS LinksOwned ForwardSound InterestExact SessionRestored WillOnce RelayFifo WireSound
PROPERTIES NoResurrect
CHECK_DEADLOCK FALSE
