CONSTANTS
  PathIds = {"tcp", "udp"}
  NoPath = "none"
  Rank <- MCRank
  t1 = t1
  t2 = t2
  t3 = t3
  Tasks = {t1, t2, t3}
  s1 = s1
  s2 = s2
  Socks = {s1, s2}
  NoSock = NoSock
  Retry = 2
  MaxActive = 2
  MaxEvents = 5
SPECIFICATION Spec
SYMMETRY Interchangeable
INVARIANTS TypeOK SocketsOwned ActiveIsCounted HotExists
PROPERTY PreferredKept
CHECK_DEADLOCK FALSE
