SPECIFICATION FairSpec
CONSTANTS
  Instances <- MCInstances
  FlagSettings <- MCFlags
  Times <- MCTimes
  Overshoots = {0, 1}
  kMaxIterations = 20
  kDefaultMinTime = 10
  memory_manager = TRUE
INVARIANTS
  TypeOK
  SameRequest
  CountFound
PROPERTIES
  IterationsGrow
  WarmUpRestores
  RunnerTerminates
