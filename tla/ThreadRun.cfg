SPECIFICATION FairSpec
CONSTANTS
  NumThreads = 3
  Iters = 2
  Loops <- MCLoops
  ManualTimers = {0}
  UserSkipKinds = {"SkippedWithMessage"}
  HasProfiler = FALSE
  MayBreak = TRUE
INVARIANTS
  TypeOK
  MeetTogether
  TimerStoppedAtMerge
  SkipReported
  CompleteUnlessSkipped
PROPERTIES
  RunTerminates
