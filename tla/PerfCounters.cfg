SPECIFICATION Spec
CONSTANTS
  Requests <- MCRequests
  Known = {"cycles", "misses", "branches", "faults"}
  kMaxCounters = 3
  kNrOfSyscallRetries = 2
  MaxEvents = 3
  MaxSections = 2
INVARIANTS TypeOK DescriptorsOwned MeasuredEvents
CHECK_DEADLOCK FALSE
