--------------------------- MODULE SqlTransaction ---------------------------
(***************************************************************************)
(* One connection to the MySQL server and what a delay thread executes on  *)
(* it: SqlTransaction::Execute with its plain and prepared statements, and *)
(* between two of them the queries that reconnect.  The lock of the        *)
(* connection is held throughout, so there is one thread.                  *)
(*                                                                         *)
(* The server is modelled by what the code relies on: a session is in      *)
(* autocommit mode unless START TRANSACTION has been executed in it, and a *)
(* session that breaks takes its open transaction with it.  A statement is *)
(* <<x, k>>, the k-th of the x-th transaction.                             *)
(***************************************************************************)
EXTENDS Integers, Sequences, FiniteSets

CONSTANTS
    StmtKinds,   \* the kinds of statement in use: "plain", "prepared"
    MaxTrans,    \* bound: transactions in one behaviour
    MaxStmts,    \* bound: statements in one transaction
    MaxLosses    \* bound: losses of the connection in one behaviour

ASSUME SqlTransactionAssumption ==
    /\ StmtKinds \subseteq {"plain", "prepared"}
    /\ MaxTrans \in Nat /\ MaxStmts \in Nat /\ MaxLosses \in Nat

VARIABLES
    conn,      \* mMysql: "up", "broken" (not noticed yet), "null"
    inTrans,   \* the server's session has an open transaction
    pending,   \* what that transaction has done so far
    durable,   \* what is committed, and so what others see
    stmts,     \* m_queue of each transaction so far, as kinds of statement
    i,         \* the loop variable of SqlTransaction::Execute
    pc,        \* where Execute is
    result,    \* what each Execute returned
    losses

server == <<inTrans, pending, durable>>
vars == <<conn, server, stmts, i, pc, result, losses>>

X == Len(stmts)
StmtsOf(x) == {x} \X DOMAIN stmts[x]

Init ==
    /\ conn = "up" /\ inTrans = FALSE /\ pending = {} /\ durable = {}
    /\ stmts = << >> /\ i = 0 /\ pc = "idle" /\ result = << >> /\ losses = 0

\* The server goes away or drops the session; it rolls back what is open.
ConnectionLost ==
    /\ conn = "up" /\ losses < MaxLosses /\ pc # "crashed"
    /\ conn' = "broken" /\ inTrans' = FALSE /\ pending' = {}
    /\ losses' = losses + 1
    /\ UNCHANGED <<durable, stmts, i, pc, result>>

\* Reconnect(): a new session, in autocommit mode; mMysql stays null when the
\* server cannot be reached.
Reconnected == conn' = "up" /\ UNCHANGED server
ReconnectFails == conn' = "null" /\ UNCHANGED server

Goto(l) == pc' = l

-----------------------------------------------------------------------------
(* SqlTransaction::Execute.                                                *)

\* The first test: an empty transaction is a success.
ExecuteEmpty ==
    /\ pc = "idle" /\ X < MaxTrans
    /\ stmts' = Append(stmts, << >>)
    /\ result' = Append(result, TRUE)
    /\ UNCHANGED <<conn, server, i, pc, losses>>

Begins(kinds) ==
    /\ pc = "idle" /\ X < MaxTrans
    /\ stmts' = Append(stmts, kinds)
    /\ i' = 1
    /\ UNCHANGED <<pending, durable, result, losses>>

\* Mutant of BeginTransaction: no START TRANSACTION.
BeginNothing(kinds) ==
    /\ Begins(kinds)
    /\ conn # "null"
    /\ Goto("stmt")
    /\ UNCHANGED <<conn, inTrans>>

\* BeginTransaction(): the result of START TRANSACTION is not looked at, and
\* mMysql is not tested: a null one ends the process.
BeginTransaction(kinds) ==
    /\ Begins(kinds)
    /\ Goto(IF conn = "null" THEN "crashed" ELSE "stmt")
    /\ inTrans' = (conn = "up")
    /\ UNCHANGED conn

\* The statement has its effect, in the open transaction or at once.
Effect ==
    IF inTrans THEN pending' = pending \cup {<<X, i>>} /\ UNCHANGED <<inTrans, durable>>
    ELSE durable' = durable \cup {<<X, i>>} /\ UNCHANGED <<inTrans, pending>>

\* One turn of the loop over m_queue in which the statement succeeds.
StatementOk ==
    /\ pc = "stmt" /\ i <= Len(stmts[X]) /\ conn = "up"
    /\ Effect
    /\ i' = i + 1
    /\ UNCHANGED <<conn, stmts, pc, result, losses>>

\* Mutant of StatementFails: the failing statement is skipped.
StatementSkipped ==
    /\ pc = "stmt" /\ i <= Len(stmts[X])
    /\ i' = i + 1
    /\ UNCHANGED <<conn, server, stmts, pc, result, losses>>

\* Execute() or execute() returns false: a duplicate entry, a deadlock; or a
\* null mMysql, or a prepared statement whose session is gone.
StatementFails ==
    /\ pc = "stmt" /\ i <= Len(stmts[X])
    /\ conn = "broken" => stmts[X][i] = "prepared"
    /\ Goto("rollback")
    /\ UNCHANGED <<conn, server, stmts, i, result, losses>>

\* A plain statement finds the session gone: HandleMySQLError() reconnects and
\* the statement is tried again ...
StatementReconnects ==
    /\ pc = "stmt" /\ i <= Len(stmts[X])
    /\ conn = "broken" /\ stmts[X][i] = "plain"
    /\ Reconnected
    /\ UNCHANGED <<stmts, i, pc, result, losses>>

\* ... or it cannot, and Execute() returns false.
StatementGivesUp ==
    /\ pc = "stmt" /\ i <= Len(stmts[X])
    /\ conn = "broken" /\ stmts[X][i] = "plain"
    /\ ReconnectFails
    /\ Goto("rollback")
    /\ UNCHANGED <<stmts, i, result, losses>>

Returns(b) ==
    /\ pc' = "idle"
    /\ result' = Append(result, b)
    /\ UNCHANGED <<stmts, i>>

\* Mutant of RollbackTransaction: Execute() returns without it.
RollbackNothing ==
    /\ pc = "rollback"
    /\ Returns(FALSE)
    /\ UNCHANGED <<conn, server, losses>>

\* RollbackTransaction(), with the same null mMysql as BeginTransaction().
RollbackTransaction ==
    /\ pc = "rollback"
    /\ IF conn = "null" THEN Goto("crashed") /\ UNCHANGED <<stmts, i, result>> ELSE Returns(FALSE)
    /\ inTrans' = FALSE /\ pending' = {}
    /\ UNCHANGED <<durable, conn, losses>>

Commits == durable' = durable \cup pending /\ inTrans' = FALSE /\ pending' = {}

\* CommitTransaction(): COMMIT is refused by a broken session, ...
CommitTransaction ==
    /\ pc = "stmt" /\ i > Len(stmts[X])
    /\ IF conn = "up" THEN Commits ELSE UNCHANGED server
    /\ Returns(conn = "up")
    /\ UNCHANGED <<conn, losses>>

\* ... or executed by a server whose answer does not arrive.
CommitAnswerLost ==
    /\ pc = "stmt" /\ i > Len(stmts[X])
    /\ conn = "up" /\ losses < MaxLosses
    /\ Commits
    /\ conn' = "broken" /\ losses' = losses + 1
    /\ Returns(FALSE)

-----------------------------------------------------------------------------
(* Between two transactions: a query of a callback, or the ping of the     *)
(* delay thread.  _Query() is the one place that repairs a null mMysql.    *)

QueryReconnects ==
    /\ pc = "idle" /\ conn # "up"
    /\ Reconnected
    /\ UNCHANGED <<stmts, i, pc, result, losses>>

QueryGivesUp ==
    /\ pc = "idle" /\ conn # "up"
    /\ ReconnectFails
    /\ UNCHANGED <<stmts, i, pc, result, losses>>

Stopped == (pc = "crashed" \/ (pc = "idle" /\ X = MaxTrans)) /\ UNCHANGED vars

-----------------------------------------------------------------------------
Next ==
    \/ ConnectionLost
    \/ ExecuteEmpty
    \/ \E n \in 1 .. MaxStmts : \E kinds \in [1 .. n -> StmtKinds] : BeginTransaction(kinds)
    \/ StatementOk \/ StatementFails \/ StatementReconnects \/ StatementGivesUp
    \/ RollbackTransaction \/ CommitTransaction \/ CommitAnswerLost
    \/ QueryReconnects \/ QueryGivesUp
    \/ Stopped

Spec == Init /\ [][Next]_vars

-----------------------------------------------------------------------------
TypeOK ==
    /\ conn \in {"up", "broken", "null"} /\ inTrans \in BOOLEAN
    /\ stmts \in Seq(Seq(StmtKinds))
    /\ pending \subseteq UNION {StmtsOf(x) : x \in DOMAIN stmts}
    /\ durable \subseteq UNION {StmtsOf(x) : x \in DOMAIN stmts}
    /\ i \in Nat /\ pc \in {"idle", "stmt", "rollback", "crashed"}
    /\ result \in Seq(BOOLEAN) /\ losses \in 0 .. MaxLosses

\* "Setting it to on makes atomic updates work" (DatabaseMysql.cpp:122): at no
\* point can others, or a restart after a crash, see a part of a transaction.
TransactionAtomic ==
    \A x \in DOMAIN stmts : durable \cap StmtsOf(x) \in {{}, StmtsOf(x)}

\* All statements of the transaction are prepared ones.
Prepared(x) == \A k \in DOMAIN stmts[x] : stmts[x][k] = "prepared"

\* A transaction of prepared statements whose Execute() returned true is durable.
ResultTells ==
    \A x \in DOMAIN result : result[x] /\ Prepared(x) => StmtsOf(x) \subseteq durable

\* As long as the connection has held, whatever fails: transactions are atomic,
\* and Execute() returned true exactly for those that are durable.
AtomicWhileConnected ==
    losses = 0 =>
        /\ TransactionAtomic
        /\ \A x \in DOMAIN result :
              durable \cap StmtsOf(x) = IF result[x] THEN StmtsOf(x) ELSE {}

\* A transaction of prepared statements only is atomic, also next to others
\* that are not: their reconnects never make a part of it durable.
PreparedAtomic ==
    \A x \in DOMAIN stmts : Prepared(x) => durable \cap StmtsOf(x) \in {{}, StmtsOf(x)}

\* Between two transactions the session is in autocommit mode again: a later
\* statement cannot end up in a transaction that nobody commits.
AutocommitBetween == pc = "idle" => ~inTrans /\ pending = {}

\* The transactions in whose middle nothing can have reconnected.
Safe(x) == losses = 0 \/ Prepared(x)

\* What keeps transactions atomic where they are: a session that is in the
\* middle of a safe one and up has its transaction open, with all the
\* statements so far in it; and what is open is never another transaction's.
SessionInv ==
    /\ losses = 0 => conn = "up"
    /\ inTrans => conn = "up"
    /\ ~inTrans => pending = {}
    /\ pending \subseteq {X} \X Nat
    /\ pc = "idle" => ~inTrans /\ Len(result) = X
    /\ pc # "idle" => X > 0 /\ Len(result) = X - 1
    /\ pc = "stmt" => i \in 1 .. Len(stmts[X]) + 1
    /\ pc = "stmt" /\ conn = "up" /\ Safe(X) => inTrans /\ pending = {X} \X (1 .. i - 1)

\* Nothing of a safe transaction that is executed is durable, of the others all
\* or nothing, and all if Execute() returned true.
DurableInv ==
    /\ durable \subseteq (DOMAIN stmts) \X Nat
    /\ pc # "idle" /\ Safe(X) => durable \cap StmtsOf(X) = {}
    /\ \A x \in DOMAIN stmts : Safe(x) => durable \cap StmtsOf(x) \in {{}, StmtsOf(x)}
    /\ \A x \in DOMAIN result : Safe(x) /\ result[x] => StmtsOf(x) \subseteq durable
    /\ \A x \in DOMAIN result : losses = 0 /\ ~result[x] => durable \cap StmtsOf(x) = {}

AtomicInv == SessionInv /\ DurableInv
=============================================================================
