CONSTANTS
  Size = 2
  Queue = "mq"
  Clear = "UPPON_COMPLETION"
  ErrorMode = "LOG"
  MaxLoad = 3
  MaxTask = 5
SPECIFICATION LiveSpec
INVARIANTS FutureMeansDone
PROPERTIES FutureFulfilled
