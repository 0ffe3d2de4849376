CONSTANTS
  StmtKinds = {"plain", "prepared"}
  MaxTrans = 1
  MaxStmts = 2
  MaxLosses = 1
SPECIFICATION Spec
INVARIANTS TransactionAtomic
