CONSTANTS
  Skews <- MCSkews
  Versions = {1, 2}
  SampleCount = 2
  Timeout = 1
  CommitDelay = 2
  CommitResend = 2
  MaxSyncs = 2
  MaxAnswers = 1
  MaxTime = 3
SPECIFICATION Spec
INVARIANTS OffsetWithinHalfRtt PunchTogether OncePerCommit FormatFits
CHECK_DEADLOCK FALSE
