SPECIFICATION Spec
CONSTANTS
  TimeUnits <- MCTimeUnits
  DefaultTimeUnit = "ns"
  CounterNames <- MCCounterNames
  FixedCounters = {"items_per_second"}
  CounterFlags <- MCCounterFlags
  InstanceResults <- MCInstanceResults
  Complexities = {"oNone", "oAuto", "oNSquared"}
  MaxReports = 2
  MaxSuites = 2
INVARIANTS
  TypeOK
  RowsUnderHeaders
  AggregatesExact
  BigOFits
CHECK_DEADLOCK FALSE
