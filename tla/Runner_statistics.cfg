SPECIFICATION Spec
CONSTANTS
  Instances <- MCInstances
  FlagSettings <- MCFlags
  Times <- MCTimes
  Overshoots = {0}
  kMaxIterations = 20
  kDefaultMinTime = 10
  memory_manager = FALSE
INVARIANTS
  FirstReportHasStatistics
