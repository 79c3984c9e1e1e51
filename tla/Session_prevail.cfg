SPECIFICATION Spec
CONSTANTS
  Int32Texts = {"2", "3"}
  DoubleTexts = {"1.5"}
  FalseTexts = {"off", "false"}
  KvPairs <- MCKvPairs
  Environments <- MCEnvironments
  CommandLines <- MCCommandLines
  Contexts <- MCContexts
  Specs = {"all", "none", "broken"}
  Matching <- MCMatching
  MaxSuites = 2
  MaxAdded = 1
INVARIANTS
  CommandLinePrevails
CHECK_DEADLOCK FALSE
