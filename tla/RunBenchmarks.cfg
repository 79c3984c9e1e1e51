SPECIFICATION Spec
CONSTANTS
  benchmarks <- MCBenchmarks
  HasFileReporter = TRUE
  MayRefuse = TRUE
  Suites = 2
INVARIANTS
  TypeOK
  ReportedOnce
  NoDanglingFamily
  BigOOnce
  JsonWellFormed
