CONSTANTS
  NServers = 2
  AutoFailover = TRUE
  MaxStarts = 2
SPECIFICATION FairSpec
INVARIANTS TypeOK Works JoinedHere
PROPERTY StopsAll
CHECK_DEADLOCK FALSE
