CONSTANTS
  d1 = d1
  d2 = d2
  Devices = {d1, d2}
  a1 = a1
  a2 = a2
  IPs = {a1, a2, a3}
  i1 = i1
  Ids = {i1}
  NoId = NoId
  Absent = Absent
  Id <- IdOf
  Home <- HomeOf
  Speakers = {d1}
  MaxStarts = 3
  MaxMoves = 1
  MaxErrors = 1
  MaxNet = 2
SPECIFICATION FairSpec
INVARIANTS OnePerDevice
PROPERTY BothFind
CHECK_DEADLOCK FALSE
