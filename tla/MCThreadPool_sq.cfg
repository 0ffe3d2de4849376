CONSTANTS
  Size = 3
  Queue = "sq"
  Clear = "AT_NEXT_WORKLOAD"
  ErrorMode = "NONE"
  MaxLoad = 4
  MaxTask = 5
SPECIFICATION LiveSpec
INVARIANTS FutureMeansDone IdlePoolIsReady
PROPERTIES DestructorReturns ImplementsForkJoin
