CONSTANTS
  StmtKinds = {"plain", "prepared"}
  MaxTrans = 3
  MaxStmts = 3
  MaxLosses = 3
SPECIFICATION Spec
INVARIANTS AutocommitBetween AtomicWhileConnected PreparedAtomic
