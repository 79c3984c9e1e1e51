SPECIFICATION Spec
CONSTANTS
  Instances = {b1, b2}
  NoInstance = NoInstance
  CommandLines <- MCCommandLines
  NumStatistics = 1
  CounterRange = 2
  Word = 100
  MaxEnergy = 3
  MaxSessions = 2
SYMMETRY Symmetry
INVARIANTS
  TypeOK
  HeaderFirst
  EnergySinceLastCall
  EveryRunOnce
CHECK_DEADLOCK FALSE
