CONSTANTS
  Timeout = TRUE
  MaxCallbacks = 5
SPECIFICATION LiveSpec
INVARIANTS OnePlace PoolOnlyInUpdate UnsafeInOrder CancelReachesQueued
PROPERTIES EveryCallbackRuns
