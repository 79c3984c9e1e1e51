SPECIFICATION Spec
CONSTANTS
  Width = 4
  Names = {"f", "g", "off"}
  Disabled = {"off"}
  kRangeMultiplier = 3
  NumCpus = 4
  Limits <- MCLimits
  Lists <- MCLists
  Counts = {0, 1, 5}
  Multipliers = {1, 2, 4}
  Filters <- MCFilters
  MaxCalls = 4
INVARIANTS TypeOK ArgsAsAsked InstancesFound
CHECK_DEADLOCK FALSE
