SPECIFICATION FairSpec
CONSTANTS
  t1 = t1
  t2 = t2
  t3 = t3
  t4 = t4
  Threads <- MCThreads4
  MaxPhase = 4
INVARIANTS
  TypeOK
  CountersExact
  NoLostWakeup
PROPERTIES
  RefinesRounds
  EveryWaitReturns
  RoundsComplete
CHECK_DEADLOCK FALSE
