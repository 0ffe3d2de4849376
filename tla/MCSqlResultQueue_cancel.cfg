CONSTANTS
  Timeout = TRUE
  MaxCallbacks = 3
SPECIFICATION Spec
INVARIANTS CancelReachesAll
