CONSTANTS
  Threads = {t1, t2}
  NWorkers = 2
  Serials = {0, 1}
  MaxOps = 3
SPECIFICATION LiveSpec
INVARIANTS ExecutedOnce
PROPERTIES ImplementsSerialStore CatchesUp
