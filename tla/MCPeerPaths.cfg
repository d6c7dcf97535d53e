CONSTANTS
  PathIds = {"tcp1", "tcp2", "udp1", "udp2"}
  NoPath = "none"
  Rank <- MCRank
  Roles = {"hot", "warm_safe", "warm_loose"}
  WarmSafe = "warm_safe"
  Protos = {"tcp", "udp"}
  Proto <- MCProto
  Floor <- MCFloor
  SafeCap <- MCSafeCap
  DoubleFactor <- MCDoubleFactor
  MaxInterval = 3600
  MaxOutcomes = 5
SPECIFICATION Spec
INVARIANTS OneOfEach ProbedByRole
PROPERTY OutcomesSteer
