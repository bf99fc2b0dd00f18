SPECIFICATION MCSpec
CONSTANTS
  Workers = {w1, w2}
  NumQueries = 4
  ChannelFactor = 1
  SamplePoints = 3
  TopSlowLimit = 1
  Gate = 2
  Latencies = {1, 2, 3}
  Backends = 2
  MaxConcurrency = 3
  Limits = {2, 9}
  QueryCount = 4
  SampleRows = 2
  Durations = {1, 2}
INVARIANTS
  WorkIsSharedOut
  ReportTellsAll
  WarmUpStartsTogether
  NoLookupRefused
  ReportedRunIsComplete
  PercentilesAreRanks
PROPERTIES
  PhasesEnd
CHECK_DEADLOCK FALSE
