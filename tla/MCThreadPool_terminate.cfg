CONSTANTS
  Size = 2
  Queue = "sq"
  Clear = "AT_NEXT_WORKLOAD"
  ErrorMode = "TERMINATE"
  MaxLoad = 3
  MaxTask = 4
SPECIFICATION Spec
INVARIANTS TerminateStrandsOwner
CHECK_DEADLOCK FALSE
