SPECIFICATION Spec
CONSTANTS
  NumConnections = 3
  NumTrials = 2
  ServerThreads = 3
  MaxForeign = 1
  Interval = 2
  MaxTime = 5
  Waits = {1, 2}
  SinceBoot = 3
  MaxSlow = 2
  Concurrency = 2
  PipelineSizes = {2}
  CpuThreads = 2
  MaxStarted = 1
  MaxTicks = 3
  MaxTurns = 2
  MaxLabels = 20
  Lower <- MCLower
  Crc32 <- MCCrc32
  Token <- MCToken
  BucketCountsTried = {1, 2, 4}
INVARIANTS
  VerdictFitsServer
  SlowQueriesMeetTheDisk
  ReportIsThisPhase
  GoldenReplays
  StatedAnswersHold
CHECK_DEADLOCK FALSE
