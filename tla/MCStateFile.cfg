CONSTANTS
  Savers = {"loop", "cleanup"}
  Snapshots = {"small", "large"}
  Length <- MCLength
  Files = {"f1", "f2", "f3"}
  NoFile = "none"
SPECIFICATION Spec
INVARIANT FileIsWhole
CHECK_DEADLOCK FALSE
