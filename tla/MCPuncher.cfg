CONSTANTS
  c1 = c1
  c2 = c2
  c3 = c3
  c4 = c4
  Candidates = {c1, c2, c3, c4}
  Concurrency = 2
  NoOne = NoOne
SPECIFICATION FairSpec
INVARIANTS OneSurvivor
PROPERTY EverybodyEnds
CHECK_DEADLOCK FALSE
