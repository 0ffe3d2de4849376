CONSTANTS
  Size = 2
  Queue = "sq"
  Clear = "AT_NEXT_WORKLOAD"
  ErrorMode = "LOG"
  MaxLoad = 2
  MaxTask = 3
SPECIFICATION Spec
INVARIANT ErrorsAreOfLastWorkload
