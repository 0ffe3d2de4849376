------------------------ MODULE SqlTransactionProofs ------------------------
(***************************************************************************)
(* Transactions are atomic on a connection that holds, and those whose     *)
(* statements are all prepared also on one that is lost at any point.      *)
(***************************************************************************)
EXTENDS SqlTransaction, TLAPS

\* The part of TypeOK that AtomicInv rests on.
Types ==
    /\ conn \in {"up", "broken", "null"} /\ inTrans \in BOOLEAN
    /\ stmts \in Seq(Seq(StmtKinds))
    /\ i \in Nat /\ pc \in {"idle", "stmt", "rollback", "crashed"}
    /\ result \in Seq(BOOLEAN) /\ losses \in 0 .. MaxLosses

\* Appending keeps what was there.
LEMMA Appended ==
    ASSUME NEW S, NEW s \in Seq(S), NEW e \in S
    PROVE  /\ Append(s, e) \in Seq(S)
           /\ Len(Append(s, e)) = Len(s) + 1
           /\ Append(s, e)[Len(s) + 1] = e
           /\ \A k \in DOMAIN s : Append(s, e)[k] = s[k]
           /\ DOMAIN s = 1 .. Len(s) /\ Len(s) \in Nat
           /\ DOMAIN Append(s, e) = 1 .. Len(s) + 1
  OBVIOUS

\* The empty sequence has no elements.
LEMMA Nothing == ASSUME NEW S, NEW s, s = << >> PROVE s \in Seq(S) /\ Len(s) = 0 /\ DOMAIN s = {}
  OBVIOUS

\* What the steps do to m_queue and to the results.
LEMMA NextTypes ==
    ASSUME Types, [Next]_vars
    PROVE  Types'
<1> USE DEF Types, server, Goto, Reconnected, ReconnectFails, Begins, Returns, Effect, Commits
<1>1. CASE ConnectionLost
  <2>1. losses' \in 0 .. MaxLosses
    BY <1>1, SqlTransactionAssumption DEF ConnectionLost
  <2> QED
    BY <1>1, <2>1 DEF ConnectionLost
<1>2. CASE ExecuteEmpty
  <2> DEFINE e == << >>
  <2>1. e \in Seq(StmtKinds)
    BY Nothing
  <2>2. stmts' = Append(stmts, e) /\ result' = Append(result, TRUE) /\ UNCHANGED <<conn, inTrans, i, pc, losses>>
    BY <1>2 DEF ExecuteEmpty
  <2> HIDE DEF e
  <2>3. stmts' \in Seq(Seq(StmtKinds))
    BY <2>1, <2>2, Appended
  <2>4. result' \in Seq(BOOLEAN)
    BY <2>2, Appended
  <2> QED
    BY <2>2, <2>3, <2>4
<1>3. ASSUME NEW n \in 1 .. MaxStmts, NEW kinds \in [1 .. n -> StmtKinds], BeginTransaction(kinds)
      PROVE  Types'
  <2>1. kinds \in Seq(StmtKinds)
    BY SqlTransactionAssumption
  <2>2. stmts' \in Seq(Seq(StmtKinds))
    BY <1>3, <2>1, Appended DEF BeginTransaction
  <2> QED
    BY <1>3, <2>2 DEF BeginTransaction
<1>4. CASE StatementOk \/ StatementFails \/ StatementReconnects \/ StatementGivesUp
  <2>1. /\ UNCHANGED <<inTrans, stmts, result, losses>> /\ i' \in {i, i + 1}
        /\ pc' \in {pc, "rollback"} /\ conn' \in {conn, "up", "null"}
    BY <1>4 DEF StatementOk, StatementFails, StatementReconnects, StatementGivesUp
  <2> QED
    BY <2>1
<1>5. CASE RollbackTransaction \/ CommitTransaction \/ CommitAnswerLost
  <2>1. Append(result, FALSE) \in Seq(BOOLEAN) /\ Append(result, conn = "up") \in Seq(BOOLEAN)
    BY Appended
  <2>2. CASE RollbackTransaction
    BY <2>1, <2>2 DEF RollbackTransaction
  <2>3. CASE CommitTransaction
    <3>1. inTrans' = FALSE \/ inTrans' = inTrans
      BY <2>3 DEF CommitTransaction
    <3>2. result' = Append(result, conn = "up") /\ pc' = "idle" /\ UNCHANGED <<conn, stmts, i, losses>>
      BY <2>3 DEF CommitTransaction
    <3> QED
      BY <2>1, <3>1, <3>2
  <2>4. CASE CommitAnswerLost
    <3>1. losses' \in 0 .. MaxLosses
      BY <2>4, SqlTransactionAssumption DEF CommitAnswerLost
    <3> QED
      BY <2>1, <2>4, <3>1 DEF CommitAnswerLost
  <2> QED
    BY <1>5, <2>2, <2>3, <2>4
<1>6. CASE QueryReconnects \/ QueryGivesUp
  BY <1>6 DEF QueryReconnects, QueryGivesUp
<1>7. CASE UNCHANGED vars
  BY <1>7 DEF vars
<1> QED
  BY <1>1, <1>2, <1>3, <1>4, <1>5, <1>6, <1>7 DEF Next, Stopped

\* What is known of a transaction stays known while m_queue only grows.
LEMMA Grown ==
    ASSUME Types, NEW e \in Seq(StmtKinds), stmts' = Append(stmts, e)
    PROVE  /\ X \in Nat /\ X' = X + 1
           /\ DOMAIN stmts' = 1 .. X + 1 /\ DOMAIN stmts = 1 .. X
           /\ \A x \in 1 .. X : stmts'[x] = stmts[x]
           /\ stmts'[X + 1] = e
  BY Appended DEF Types, X, StmtsOf

\* The results only grow.
LEMMA Returned ==
    ASSUME Types, NEW b \in BOOLEAN, result' = Append(result, b)
    PROVE  /\ Len(result) \in Nat /\ DOMAIN result = 1 .. Len(result)
           /\ Len(result') = Len(result) + 1 /\ DOMAIN result' = 1 .. Len(result) + 1
           /\ \A k \in DOMAIN result : result'[k] = result[k]
           /\ result'[Len(result) + 1] = b
  BY Appended DEF Types

\* What is a sequence, and of which length.
LEMMA Lengths ==
    ASSUME Types
    PROVE  /\ X \in Nat /\ DOMAIN stmts = 1 .. X
           /\ DOMAIN result = 1 .. Len(result) /\ Len(result) \in Nat
           /\ \A x \in 1 .. X : /\ stmts[x] \in Seq(StmtKinds) /\ Len(stmts[x]) \in Nat
                                /\ DOMAIN stmts[x] = 1 .. Len(stmts[x])
  BY DEF Types, X

\* A transaction that is safe now was safe before.
LEMMA SafeBefore ==
    ASSUME NEW x, stmts'[x] = stmts[x], losses' = 0 => losses = 0, Safe(x)'
    PROVE  Safe(x)
  BY DEF Safe, Prepared

\* A step inside a transaction or between two that commits nothing.
LEMMA Frame ==
    ASSUME DurableInv, UNCHANGED <<stmts, result, durable>>, pc' # "idle" => pc # "idle", losses' = 0 => losses = 0
    PROVE  DurableInv'
<1>1. X' = X /\ \A x : Safe(x)' => Safe(x)
  BY SafeBefore DEF X
<1>2. \A x : StmtsOf(x)' = StmtsOf(x)
  BY DEF StmtsOf
<1>3. pc' # "idle" /\ Safe(X)' => durable' \cap StmtsOf(X)' = {}
  BY <1>1, <1>2 DEF DurableInv
<1>4. \A x \in DOMAIN stmts' : Safe(x)' => durable' \cap StmtsOf(x)' \in {{}, StmtsOf(x)'}
  BY <1>1, <1>2 DEF DurableInv
<1>5. \A x \in DOMAIN result' : Safe(x)' /\ result'[x] => StmtsOf(x)' \subseteq durable'
  BY <1>1, <1>2 DEF DurableInv
<1>6. \A x \in DOMAIN result' : losses' = 0 /\ ~result'[x] => durable' \cap StmtsOf(x)' = {}
  BY <1>2 DEF DurableInv
<1> QED
  BY <1>3, <1>4, <1>5, <1>6 DEF DurableInv

\* A new transaction has nothing durable and takes nothing from the others.
LEMMA NewDurable ==
    ASSUME Types, DurableInv, NEW e \in Seq(StmtKinds), stmts' = Append(stmts, e), UNCHANGED <<durable, losses>>
    PROVE  /\ durable' \subseteq (DOMAIN stmts') \X Nat
           /\ durable' \cap StmtsOf(X)' = {}
           /\ \A x \in DOMAIN stmts' : Safe(x)' => durable' \cap StmtsOf(x)' \in {{}, StmtsOf(x)'}
           /\ \A x \in 1 .. X : (Safe(x)' => Safe(x)) /\ StmtsOf(x)' = StmtsOf(x)
<1>1. /\ X \in Nat /\ X' = X + 1
      /\ DOMAIN stmts' = 1 .. X + 1 /\ DOMAIN stmts = 1 .. X
      /\ \A x \in 1 .. X : stmts'[x] = stmts[x]
  BY Grown
<1>2. durable' \subseteq (1 .. X) \X Nat
  BY <1>1 DEF DurableInv
<1>3. durable' \cap StmtsOf(X)' = {}
  BY <1>1, <1>2 DEF StmtsOf
<1>4. ASSUME NEW x \in 1 .. X PROVE (Safe(x)' => Safe(x)) /\ StmtsOf(x)' = StmtsOf(x)
  BY <1>1, SafeBefore DEF StmtsOf
<1>5. ASSUME NEW x \in 1 .. X, Safe(x)' PROVE durable' \cap StmtsOf(x)' \in {{}, StmtsOf(x)'}
  <2>1. Safe(x) /\ StmtsOf(x)' = StmtsOf(x)
    BY <1>4, <1>5
  <2> QED
    BY <1>1, <2>1 DEF DurableInv
<1>6. ASSUME NEW x \in 1 .. X + 1, Safe(x)' PROVE durable' \cap StmtsOf(x)' \in {{}, StmtsOf(x)'}
  <2>1. CASE x = X + 1
    BY <1>1, <1>3, <2>1
  <2>2. CASE x # X + 1
    <3>1. x \in 1 .. X
      BY <1>1, <2>2
    <3> QED
      BY <1>5, <1>6, <3>1
  <2> QED
    BY <2>1, <2>2
<1>7. durable' \subseteq (DOMAIN stmts') \X Nat
  BY <1>1, <1>2
<1> QED
  BY <1>1, <1>3, <1>4, <1>6, <1>7

\* Execute() returns and what it says is true.
LEMMA ResultsKept ==
    ASSUME Types, DurableInv, X > 0, Len(result) = X - 1, NEW b \in BOOLEAN, result' = Append(result, b),
           UNCHANGED stmts, losses' = 0 => losses = 0,
           \A x \in 1 .. X - 1 : durable' \cap StmtsOf(x) = durable \cap StmtsOf(x),
           b /\ Safe(X) => StmtsOf(X) \subseteq durable',
           ~b /\ losses' = 0 => durable' \cap StmtsOf(X) = {}
    PROVE  /\ Len(result') = X' /\ X' = X
           /\ \A x \in DOMAIN result' : Safe(x)' /\ result'[x] => StmtsOf(x)' \subseteq durable'
           /\ \A x \in DOMAIN result' : losses' = 0 /\ ~result'[x] => durable' \cap StmtsOf(x)' = {}
<1>1. /\ Len(result) \in Nat /\ DOMAIN result = 1 .. Len(result)
      /\ Len(result') = Len(result) + 1 /\ DOMAIN result' = 1 .. Len(result) + 1
      /\ \A k \in DOMAIN result : result'[k] = result[k]
      /\ result'[Len(result) + 1] = b
  BY Returned
<1>2. X' = X /\ X \in Nat
  BY Lengths DEF X
<1>3. \A x : (Safe(x)' => Safe(x)) /\ StmtsOf(x)' = StmtsOf(x)
  BY SafeBefore DEF StmtsOf
<1>4. ASSUME NEW x \in DOMAIN result'
      PROVE  /\ Safe(x)' /\ result'[x] => StmtsOf(x) \subseteq durable'
             /\ losses' = 0 /\ ~result'[x] => durable' \cap StmtsOf(x) = {}
  <2>1. CASE x = X
    BY <1>1, <1>2, <1>3, <2>1
  <2>2. CASE x # X
    <3>1. x \in DOMAIN result /\ result'[x] = result[x] /\ x \in 1 .. X - 1
      BY <1>1, <1>2, <1>4, <2>2
    <3>2. durable' \cap StmtsOf(x) = durable \cap StmtsOf(x)
      BY <3>1
    <3>3. Safe(x) /\ result[x] => StmtsOf(x) \subseteq durable
      BY <3>1 DEF DurableInv
    <3>4. losses = 0 /\ ~result[x] => durable \cap StmtsOf(x) = {}
      BY <3>1 DEF DurableInv
    <3> QED
      BY <1>3, <3>1, <3>2, <3>3, <3>4
  <2> QED
    BY <2>1, <2>2
<1> QED
  BY <1>1, <1>2, <1>3, <1>4

\* COMMIT, with or without its answer: the whole transaction gets durable.
LEMMA CommitAtomic ==
    ASSUME Types, AtomicInv, NEW b \in BOOLEAN, pc = "stmt", i > Len(stmts[X]), conn = "up",
           Commits, Returns(b), losses' \in Nat, losses' = 0 => losses = 0 /\ conn' = "up" /\ b
    PROVE  AtomicInv'
<1>0. /\ X \in Nat /\ DOMAIN stmts = 1 .. X
      /\ \A x \in 1 .. X : Len(stmts[x]) \in Nat /\ DOMAIN stmts[x] = 1 .. Len(stmts[x])
  BY Lengths
<1>1. X > 0 /\ Len(result) = X - 1 /\ pending \subseteq {X} \X Nat /\ i = Len(stmts[X]) + 1
  <2>1. X > 0 /\ Len(result) = X - 1 /\ pending \subseteq {X} \X Nat /\ i \in 1 .. Len(stmts[X]) + 1
    BY DEF AtomicInv, SessionInv
  <2>2. Len(stmts[X]) \in Nat
    BY <1>0, <2>1
  <2> QED
    BY <2>1, <2>2
<1>2. ASSUME Safe(X) PROVE StmtsOf(X) = pending
  <2>1. pending = {X} \X (1 .. i - 1)
    BY <1>2 DEF AtomicInv, SessionInv
  <2>2. DOMAIN stmts[X] = 1 .. i - 1
    BY <1>0, <1>1
  <2> QED
    BY <2>1, <2>2 DEF StmtsOf
<1>3. /\ pc' = "idle" /\ result' = Append(result, b) /\ UNCHANGED <<stmts, i>>
      /\ durable' = durable \cup pending /\ inTrans' = FALSE /\ pending' = {}
  BY DEF Commits, Returns
<1>4. ASSUME NEW x \in 1 .. X, x # X PROVE durable' \cap StmtsOf(x) = durable \cap StmtsOf(x)
  <2>1. pending \cap StmtsOf(x) = {}
    BY <1>1, <1>4 DEF StmtsOf
  <2> QED
    BY <1>3, <2>1
<1>5. /\ Len(result') = X' /\ X' = X
      /\ \A x \in DOMAIN result' : Safe(x)' /\ result'[x] => StmtsOf(x)' \subseteq durable'
      /\ \A x \in DOMAIN result' : losses' = 0 /\ ~result'[x] => durable' \cap StmtsOf(x)' = {}
  <2>1. \A x \in 1 .. X - 1 : durable' \cap StmtsOf(x) = durable \cap StmtsOf(x)
    BY <1>0, <1>4
  <2>2. b /\ Safe(X) => StmtsOf(X) \subseteq durable'
    BY <1>2, <1>3
  <2> QED
    BY <1>1, <1>3, <2>1, <2>2, ResultsKept DEF AtomicInv
<1>6. ASSUME NEW x \in 1 .. X, Safe(x)' PROVE durable' \cap StmtsOf(x)' \in {{}, StmtsOf(x)'}
  <2>0. Safe(x) /\ StmtsOf(x)' = StmtsOf(x)
    BY <1>3, <1>6, SafeBefore DEF StmtsOf
  <2>1. CASE x = X
    BY <1>2, <1>3, <2>0, <2>1
  <2>2. CASE x # X
    <3>1. durable \cap StmtsOf(x) \in {{}, StmtsOf(x)}
      BY <1>0, <2>0 DEF AtomicInv, DurableInv
    <3> QED
      BY <1>4, <2>0, <2>2, <3>1
  <2> QED
    BY <2>1, <2>2
<1>7. durable' \subseteq (DOMAIN stmts') \X Nat
  BY <1>0, <1>1, <1>3 DEF AtomicInv, DurableInv
<1>8. SessionInv'
  BY <1>3, <1>5 DEF SessionInv
<1>9. DOMAIN stmts' = 1 .. X
  BY <1>0, <1>3
<1> QED
  BY <1>3, <1>5, <1>6, <1>7, <1>8, <1>9 DEF AtomicInv, DurableInv

\* Each step keeps AtomicInv.
LEMMA NextAtomic ==
    ASSUME Types, Types', AtomicInv, [Next]_vars
    PROVE  AtomicInv'
<1>0. /\ X \in Nat /\ DOMAIN stmts = 1 .. X
      /\ DOMAIN result = 1 .. Len(result) /\ Len(result) \in Nat
      /\ \A x \in 1 .. X : /\ stmts[x] \in Seq(StmtKinds) /\ Len(stmts[x]) \in Nat
                           /\ DOMAIN stmts[x] = 1 .. Len(stmts[x])
  BY Lengths
<1> USE DEF server, Goto, Reconnected, ReconnectFails, Begins, Returns
<1>1. CASE ConnectionLost
  <2>1. losses' # 0 /\ conn' = "broken" /\ inTrans' = FALSE /\ pending' = {}
        /\ UNCHANGED <<durable, stmts, i, pc, result>>
    BY <1>1 DEF ConnectionLost, Types
  <2>2. SessionInv'
    BY <2>1 DEF AtomicInv, SessionInv, X
  <2> QED
    BY <2>1, <2>2, Frame DEF AtomicInv
<1>2. CASE ExecuteEmpty
  <2> DEFINE e == << >>
  <2>1. e \in Seq(StmtKinds) /\ DOMAIN e = {}
    BY Nothing
  <2>2. /\ stmts' = Append(stmts, e) /\ result' = Append(result, TRUE) /\ pc = "idle"
        /\ UNCHANGED <<conn, inTrans, pending, durable, i, pc, losses>>
    BY <1>2 DEF ExecuteEmpty
  <2> HIDE DEF e
  <2>3. /\ X' = X + 1 /\ DOMAIN stmts' = 1 .. X + 1 /\ stmts'[X + 1] = e
        /\ \A x \in 1 .. X : stmts'[x] = stmts[x]
    BY <2>1, <2>2, Grown
  <2>4. StmtsOf(X)' = {}
    BY <2>1, <2>3 DEF StmtsOf
  <2>5. /\ Len(result') = Len(result) + 1 /\ DOMAIN result' = 1 .. Len(result) + 1
        /\ \A k \in DOMAIN result : result'[k] = result[k]
        /\ result'[Len(result) + 1] = TRUE
    BY <2>2, Returned
  <2>6. Len(result) = X /\ ~inTrans /\ pending = {}
    BY <2>2 DEF AtomicInv, SessionInv
  <2>7. /\ durable' \subseteq (DOMAIN stmts') \X Nat
        /\ \A x \in DOMAIN stmts' : Safe(x)' => durable' \cap StmtsOf(x)' \in {{}, StmtsOf(x)'}
        /\ \A x \in 1 .. X : (Safe(x)' => Safe(x)) /\ StmtsOf(x)' = StmtsOf(x)
    BY <2>1, <2>2, NewDurable DEF AtomicInv
  <2>8. ASSUME NEW x \in DOMAIN result'
        PROVE  /\ Safe(x)' /\ result'[x] => StmtsOf(x)' \subseteq durable'
               /\ losses' = 0 /\ ~result'[x] => durable' \cap StmtsOf(x)' = {}
    <3>1. CASE x = X + 1
      BY <2>3, <2>4, <3>1
    <3>2. CASE x # X + 1
      <4>1. x \in 1 .. X /\ x \in DOMAIN result /\ result'[x] = result[x]
        BY <1>0, <2>5, <2>6, <3>2
      <4>2. (Safe(x)' => Safe(x)) /\ StmtsOf(x)' = StmtsOf(x)
        BY <2>7, <4>1
      <4>3. Safe(x) /\ result[x] => StmtsOf(x) \subseteq durable
        BY <4>1 DEF AtomicInv, DurableInv
      <4>4. losses = 0 /\ ~result[x] => durable \cap StmtsOf(x) = {}
        BY <4>1 DEF AtomicInv, DurableInv
      <4> QED
        BY <2>2, <4>1, <4>2, <4>3, <4>4
    <3> QED
      BY <3>1, <3>2
  <2>9. SessionInv'
    BY <2>2, <2>3, <2>5, <2>6 DEF AtomicInv, SessionInv
  <2> QED
    BY <2>2, <2>7, <2>8, <2>9 DEF AtomicInv, DurableInv
<1>3. ASSUME NEW n \in 1 .. MaxStmts, NEW kinds \in [1 .. n -> StmtKinds], BeginTransaction(kinds)
      PROVE  AtomicInv'
  <2>1. kinds \in Seq(StmtKinds) /\ Len(kinds) = n /\ n \in Nat
    BY SqlTransactionAssumption
  <2>2. /\ X' = X + 1 /\ DOMAIN stmts' = 1 .. X + 1 /\ stmts'[X + 1] = kinds
        /\ \A x \in 1 .. X : stmts'[x] = stmts[x]
    BY <1>3, <2>1, Grown DEF BeginTransaction
  <2>3. /\ pc = "idle" /\ i' = 1 /\ (inTrans' <=> conn = "up")
        /\ pc' = (IF conn = "null" THEN "crashed" ELSE "stmt")
        /\ stmts' = Append(stmts, kinds)
        /\ UNCHANGED <<conn, pending, durable, result, losses>>
    BY <1>3 DEF BeginTransaction
  <2>4. pending' = {} /\ {X + 1} \X (1 .. 0) = {} /\ Len(result) = X
    BY <2>3 DEF AtomicInv, SessionInv
  <2>5. /\ durable' \subseteq (DOMAIN stmts') \X Nat
        /\ durable' \cap StmtsOf(X)' = {}
        /\ \A x \in DOMAIN stmts' : Safe(x)' => durable' \cap StmtsOf(x)' \in {{}, StmtsOf(x)'}
        /\ \A x \in 1 .. X : (Safe(x)' => Safe(x)) /\ StmtsOf(x)' = StmtsOf(x)
    BY <2>1, <2>3, NewDurable DEF AtomicInv
  <2>6. ASSUME NEW x \in DOMAIN result'
        PROVE  /\ Safe(x)' /\ result'[x] => StmtsOf(x)' \subseteq durable'
               /\ losses' = 0 /\ ~result'[x] => durable' \cap StmtsOf(x)' = {}
    <3>1. x \in 1 .. X /\ x \in DOMAIN result
      BY <1>0, <2>3, <2>4
    <3>2. Safe(x) /\ result[x] => StmtsOf(x) \subseteq durable
      BY <3>1 DEF AtomicInv, DurableInv
    <3>3. losses = 0 /\ ~result[x] => durable \cap StmtsOf(x) = {}
      BY <3>1 DEF AtomicInv, DurableInv
    <3> QED
      BY <2>3, <2>5, <3>1, <3>2, <3>3
  <2>7. DurableInv'
    BY <2>5, <2>6 DEF DurableInv
  <2>8. SessionInv'
    BY <1>0, <2>1, <2>2, <2>3, <2>4 DEF AtomicInv, SessionInv, Types
  <2> QED
    BY <2>7, <2>8 DEF AtomicInv
<1>4. CASE StatementOk
  <2>1. /\ X > 0 /\ Len(result) = X - 1 /\ i \in Nat \ {0} /\ i <= Len(stmts[X]) /\ conn = "up" /\ pc = "stmt"
        /\ i' = i + 1 /\ UNCHANGED <<conn, inTrans, stmts, pc, result, losses>>
    BY <1>4 DEF StatementOk, Effect, AtomicInv, SessionInv, Types
  <2>2. X' = X /\ i' \in 1 .. Len(stmts[X]) + 1
    BY <1>0, <2>1 DEF X
  <2>3. \A x : (Safe(x)' => Safe(x)) /\ StmtsOf(x)' = StmtsOf(x)
    BY <2>1, SafeBefore DEF StmtsOf
  <2>4. CASE inTrans
    <3>1. pending' = pending \cup {<<X, i>>} /\ durable' = durable
      BY <1>4, <2>4 DEF StatementOk, Effect
    <3>2. Safe(X) => pending = {X} \X (1 .. i - 1)
      BY <2>1 DEF AtomicInv, SessionInv
    <3>3. Safe(X)' => pending' = {X} \X (1 .. i' - 1)
      BY <2>1, <2>2, <2>3, <3>1, <3>2
    <3>4. pending' \subseteq {X} \X Nat
      BY <2>1, <3>1 DEF AtomicInv, SessionInv
    <3>5. SessionInv'
      BY <2>1, <2>2, <2>4, <3>3, <3>4 DEF AtomicInv, SessionInv
    <3> QED
      BY <2>1, <3>1, <3>5, Frame DEF AtomicInv
  <2>5. CASE ~inTrans
    <3>1. durable' = durable \cup {<<X, i>>} /\ pending' = pending
      BY <1>4, <2>5 DEF StatementOk, Effect
    <3>2. ~Safe(X) /\ ~Safe(X)' /\ losses' # 0
      BY <2>1, <2>2, <2>3, <2>5 DEF AtomicInv, SessionInv, Safe
    <3>3. SessionInv'
      BY <2>1, <2>2, <2>5, <3>1, <3>2 DEF AtomicInv, SessionInv
    <3>4. \A x \in 1 .. X : x # X => durable' \cap StmtsOf(x) = durable \cap StmtsOf(x)
      BY <3>1 DEF StmtsOf
    <3>5. durable' \subseteq (DOMAIN stmts') \X Nat
      BY <1>0, <2>1, <3>1 DEF AtomicInv, DurableInv
    <3>6. ASSUME NEW x \in DOMAIN stmts', Safe(x)' PROVE durable' \cap StmtsOf(x)' \in {{}, StmtsOf(x)'}
      <4>1. x \in 1 .. X /\ x # X /\ Safe(x) /\ x \in DOMAIN stmts
        BY <1>0, <2>1, <2>2, <2>3, <3>2, <3>6
      <4>2. durable \cap StmtsOf(x) \in {{}, StmtsOf(x)}
        BY <4>1 DEF AtomicInv, DurableInv
      <4> QED
        BY <2>3, <3>4, <4>1, <4>2
    <3>7. ASSUME NEW x \in DOMAIN result', Safe(x)', result'[x] PROVE StmtsOf(x)' \subseteq durable'
      <4>1. Safe(x) /\ x \in DOMAIN result /\ result[x]
        BY <2>1, <2>3, <3>7
      <4> QED
        BY <2>3, <3>1, <4>1 DEF AtomicInv, DurableInv
    <3> QED
      BY <2>1, <2>2, <3>2, <3>3, <3>5, <3>6, <3>7 DEF AtomicInv, DurableInv
  <2> QED
    BY <2>4, <2>5
<1>5. CASE StatementFails
  <2>1. pc = "stmt" /\ pc' = "rollback" /\ UNCHANGED <<conn, inTrans, pending, durable, stmts, i, result, losses>>
    BY <1>5 DEF StatementFails
  <2>2. SessionInv'
    BY <2>1 DEF AtomicInv, SessionInv, X
  <2> QED
    BY <2>1, <2>2, Frame DEF AtomicInv
<1>6. CASE StatementReconnects \/ StatementGivesUp
  <2>1. /\ pc = "stmt" /\ i <= Len(stmts[X]) /\ conn = "broken" /\ stmts[X][i] = "plain"
        /\ UNCHANGED <<inTrans, pending, durable, stmts, i, result, losses>>
        /\ pc' \in {"stmt", "rollback"}
    BY <1>6 DEF StatementReconnects, StatementGivesUp
  <2>2. i \in DOMAIN stmts[X] /\ losses # 0
    BY <1>0, <2>1 DEF AtomicInv, SessionInv, Types
  <2>3. ~Safe(X)' /\ X' = X
    BY <2>1, <2>2 DEF Safe, Prepared, X
  <2>4. SessionInv'
    BY <2>1, <2>2, <2>3 DEF AtomicInv, SessionInv
  <2> QED
    BY <2>1, <2>4, Frame DEF AtomicInv
<1>7. ASSUME X > 0, Len(result) = X - 1, pc # "idle", ~inTrans', pending' = {}, pc' = "idle", result' = Append(result, FALSE),
             UNCHANGED <<durable, stmts, conn, losses>>
      PROVE  AtomicInv'
  <2>0. losses' = 0 => durable' \cap StmtsOf(X) = {}
    BY <1>7 DEF AtomicInv, DurableInv, Safe
  <2>1. /\ Len(result') = X' /\ X' = X
        /\ \A x \in DOMAIN result' : Safe(x)' /\ result'[x] => StmtsOf(x)' \subseteq durable'
        /\ \A x \in DOMAIN result' : losses' = 0 /\ ~result'[x] => durable' \cap StmtsOf(x)' = {}
    BY <1>7, <2>0, ResultsKept DEF AtomicInv
  <2>2. ASSUME NEW x \in DOMAIN stmts', Safe(x)' PROVE durable' \cap StmtsOf(x)' \in {{}, StmtsOf(x)'}
    <3>1. Safe(x) /\ StmtsOf(x)' = StmtsOf(x)
      BY <1>7, <2>2, SafeBefore DEF StmtsOf
    <3> QED
      BY <1>7, <2>2, <3>1 DEF AtomicInv, DurableInv
  <2>3. SessionInv'
    BY <1>7, <2>1 DEF AtomicInv, SessionInv
  <2> QED
    BY <1>7, <2>1, <2>2, <2>3 DEF AtomicInv, DurableInv
<1>8. CASE RollbackTransaction
  <2>1. /\ X > 0 /\ Len(result) = X - 1 /\ inTrans' = FALSE /\ pending' = {} /\ pc = "rollback"
        /\ UNCHANGED <<durable, stmts, conn, losses, i>>
    BY <1>8 DEF RollbackTransaction, AtomicInv, SessionInv
  <2>2. CASE conn = "null"
    <3>1. pc' = "crashed" /\ UNCHANGED result
      BY <1>8, <2>2 DEF RollbackTransaction
    <3>2. SessionInv'
      BY <2>1, <3>1 DEF AtomicInv, SessionInv, X
    <3> QED
      BY <2>1, <3>1, <3>2, Frame DEF AtomicInv
  <2>3. CASE conn # "null"
    <3>1. pc' = "idle" /\ result' = Append(result, FALSE)
      BY <1>8, <2>3 DEF RollbackTransaction
    <3> QED
      BY <1>7, <2>1, <3>1
  <2> QED
    BY <2>2, <2>3
<1>9. CASE CommitTransaction
  <2>1. CASE conn = "up"
    <3>1. /\ pc = "stmt" /\ i > Len(stmts[X]) /\ Commits /\ losses' = losses
          /\ conn' = "up" /\ losses' \in Nat
      BY <1>9, <2>1 DEF CommitTransaction, Types
    <3>2. Returns(TRUE)
      BY <1>9, <2>1 DEF CommitTransaction
    <3> QED
      BY <2>1, <3>1, <3>2, CommitAtomic
  <2>2. CASE conn # "up"
    <3>1. /\ pc = "stmt" /\ pc' = "idle" /\ result' = Append(result, FALSE)
          /\ UNCHANGED <<inTrans, pending, durable, stmts, i, conn, losses>>
      BY <1>9, <2>2 DEF CommitTransaction
    <3>2. X > 0 /\ Len(result) = X - 1 /\ ~inTrans' /\ pending' = {}
      BY <2>2, <3>1 DEF AtomicInv, SessionInv
    <3> QED
      BY <1>7, <3>1, <3>2
  <2> QED
    BY <2>1, <2>2
<1>10. CASE CommitAnswerLost
  <2>1. /\ pc = "stmt" /\ i > Len(stmts[X]) /\ conn = "up" /\ Commits /\ Returns(FALSE)
        /\ losses' = losses + 1 /\ losses \in Nat
    BY <1>10 DEF CommitAnswerLost, Types
  <2>2. losses' # 0 /\ losses' \in Nat
    BY <2>1
  <2> QED
    BY <2>1, <2>2, CommitAtomic
<1>11. CASE QueryReconnects \/ QueryGivesUp
  <2>1. /\ pc = "idle" /\ conn # "up" /\ UNCHANGED <<inTrans, pending, durable, stmts, i, pc, result, losses>>
    BY <1>11 DEF QueryReconnects, QueryGivesUp
  <2>2. SessionInv'
    BY <2>1 DEF AtomicInv, SessionInv, X
  <2> QED
    BY <2>1, <2>2, Frame DEF AtomicInv
<1>12. CASE UNCHANGED vars
  <2>1. UNCHANGED <<conn, inTrans, pending, durable, stmts, i, pc, result, losses>>
    BY <1>12 DEF vars
  <2>2. X' = X /\ (Safe(X)' <=> Safe(X))
    BY <2>1 DEF X, Safe, Prepared
  <2>3. SessionInv'
    BY <2>1, <2>2 DEF AtomicInv, SessionInv
  <2> QED
    BY <2>1, <2>3, Frame DEF AtomicInv
<1> QED
  BY <1>1, <1>2, <1>3, <1>4, <1>5, <1>6, <1>8, <1>9, <1>10, <1>11, <1>12 DEF Next, Stopped

\* The first state.
LEMMA InitAtomic == Init => Types /\ AtomicInv
<1> SUFFICES ASSUME Init PROVE Types /\ AtomicInv
  OBVIOUS
<1>1. stmts = << >> /\ result = << >>
  BY DEF Init
<1>2. stmts \in Seq(Seq(StmtKinds)) /\ Len(stmts) = 0 /\ DOMAIN stmts = {}
  BY <1>1, Nothing
<1>3. result \in Seq(BOOLEAN) /\ Len(result) = 0 /\ DOMAIN result = {}
  BY <1>1, Nothing
<1>4. /\ conn = "up" /\ inTrans = FALSE /\ pending = {} /\ durable = {}
      /\ i = 0 /\ pc = "idle" /\ losses = 0
  BY DEF Init
<1>5. Types
  <2>1. losses \in 0 .. MaxLosses
    BY <1>4, SqlTransactionAssumption
  <2> QED
    BY <1>2, <1>3, <1>4, <2>1 DEF Types
<1>6. SessionInv
  BY <1>2, <1>3, <1>4 DEF SessionInv, X
<1>7. DurableInv
  <2>1. durable \subseteq (DOMAIN stmts) \X Nat
    BY <1>4
  <2> QED
    BY <1>2, <1>3, <1>4, <2>1 DEF DurableInv
<1> QED
  BY <1>5, <1>6, <1>7 DEF AtomicInv

\* In the middle of a transaction of SqlTransaction::Execute in which nothing
\* can have reconnected, the server has it open with every statement so far.
THEOREM AtomicInvariant == Spec => [](Types /\ AtomicInv)
<1>1. Init => Types /\ AtomicInv
  BY InitAtomic
<1>2. Types /\ AtomicInv /\ [Next]_vars => (Types /\ AtomicInv)'
  BY NextTypes, NextAtomic
<1> QED
  BY <1>1, <1>2, PTL DEF Spec

\* The server knows of no statement that is not in an m_queue.
LEMMA NextStatements ==
    ASSUME Types, AtomicInv, [Next]_vars,
           pending \subseteq UNION {StmtsOf(x) : x \in DOMAIN stmts},
           durable \subseteq UNION {StmtsOf(x) : x \in DOMAIN stmts}
    PROVE  /\ pending' \subseteq UNION {StmtsOf(x)' : x \in DOMAIN stmts'}
           /\ durable' \subseteq UNION {StmtsOf(x)' : x \in DOMAIN stmts'}
<1> DEFINE All == UNION {StmtsOf(x) : x \in DOMAIN stmts}
           AllNext == UNION {StmtsOf(x)' : x \in DOMAIN stmts'}
<1>1. ASSUME pending' \cup durable' \subseteq All, All \subseteq AllNext
      PROVE  pending' \subseteq AllNext /\ durable' \subseteq AllNext
  BY <1>1
<1>2. ASSUME UNCHANGED stmts PROVE All \subseteq AllNext
  BY <1>2 DEF StmtsOf
<1>3. ASSUME NEW e \in Seq(StmtKinds), stmts' = Append(stmts, e) PROVE All \subseteq AllNext
  <2>1. \A x \in DOMAIN stmts : x \in DOMAIN stmts' /\ StmtsOf(x)' = StmtsOf(x)
    BY <1>3, Grown DEF StmtsOf
  <2> QED
    BY <2>1
<1>4. CASE StatementOk
  <2>1. X \in DOMAIN stmts /\ i \in DOMAIN stmts[X]
    BY <1>4, Lengths DEF StatementOk, AtomicInv, SessionInv
  <2>2. <<X, i>> \in All
    BY <2>1 DEF StmtsOf
  <2>3. UNCHANGED stmts /\ pending' \cup durable' \subseteq pending \cup durable \cup {<<X, i>>}
    BY <1>4 DEF StatementOk, Effect
  <2> QED
    BY <1>1, <1>2, <2>2, <2>3
<1>5. CASE ExecuteEmpty
  <2>1. \E e \in Seq(StmtKinds) : stmts' = Append(stmts, e)
    BY <1>5, Nothing DEF ExecuteEmpty
  <2> QED
    BY <1>1, <1>3, <1>5, <2>1 DEF ExecuteEmpty, server
<1>6. ASSUME NEW n \in 1 .. MaxStmts, NEW kinds \in [1 .. n -> StmtKinds], BeginTransaction(kinds)
      PROVE  pending' \subseteq AllNext /\ durable' \subseteq AllNext
  <2>1. kinds \in Seq(StmtKinds) /\ stmts' = Append(stmts, kinds)
    BY <1>6, SqlTransactionAssumption DEF BeginTransaction, Begins
  <2> QED
    BY <1>1, <1>3, <1>6, <2>1 DEF BeginTransaction, Begins
<1>7. CASE CommitTransaction \/ CommitAnswerLost \/ RollbackTransaction \/ ConnectionLost
  <2>1. UNCHANGED stmts /\ pending' \cup durable' \subseteq pending \cup durable
    BY <1>7 DEF CommitTransaction, CommitAnswerLost, RollbackTransaction, ConnectionLost, Commits, Returns, server
  <2> QED
    BY <1>1, <1>2, <2>1
<1>8. CASE StatementFails \/ StatementReconnects \/ StatementGivesUp \/ QueryReconnects \/ QueryGivesUp \/ UNCHANGED vars
  <2>1. UNCHANGED <<stmts, pending, durable>>
    BY <1>8 DEF StatementFails, StatementReconnects, StatementGivesUp, QueryReconnects, QueryGivesUp,
                Reconnected, ReconnectFails, vars, server
  <2> QED
    BY <1>1, <1>2, <2>1
<1> QED
  BY <1>4, <1>5, <1>6, <1>7, <1>8 DEF Next, Stopped

\* The type invariant: also, what is open or durable at the server is a
\* statement of one of the transactions that were given to Execute().
THEOREM TypeCorrect == Spec => []TypeOK
<1>1. Init => TypeOK
  BY InitAtomic DEF Init, Types, TypeOK
<1>2. Types /\ AtomicInv /\ TypeOK /\ [Next]_vars => TypeOK'
  BY NextTypes, NextStatements DEF Types, TypeOK
<1> QED
  BY <1>1, <1>2, AtomicInvariant, PTL DEF Spec

\* On a connection that has held so far, all transactions are atomic and
\* Execute() returned true exactly for the durable ones.
THEOREM Connected == Spec => []AtomicWhileConnected
<1>1. ASSUME Types, AtomicInv PROVE AtomicWhileConnected
  <2> SUFFICES ASSUME losses = 0
               PROVE  /\ TransactionAtomic
                      /\ \A x \in DOMAIN result :
                            durable \cap StmtsOf(x) = IF result[x] THEN StmtsOf(x) ELSE {}
    BY DEF AtomicWhileConnected
  <2>1. \A x : Safe(x)
    BY DEF Safe
  <2>2. TransactionAtomic
    BY <1>1, <2>1 DEF TransactionAtomic, AtomicInv, DurableInv
  <2>3. ASSUME NEW x \in DOMAIN result PROVE durable \cap StmtsOf(x) = IF result[x] THEN StmtsOf(x) ELSE {}
    <3>1. CASE result[x]
      <4>1. StmtsOf(x) \subseteq durable
        BY <1>1, <2>1, <3>1 DEF AtomicInv, DurableInv
      <4> QED
        BY <3>1, <4>1
    <3>2. CASE ~result[x]
      <4>1. durable \cap StmtsOf(x) = {}
        BY <1>1, <3>2 DEF AtomicInv, DurableInv
      <4> QED
        BY <3>2, <4>1
    <3> QED
      BY <3>1, <3>2
  <2> QED
    BY <2>2, <2>3
<1> QED
  BY <1>1, AtomicInvariant, PTL

\* A transaction of prepared statements is atomic whatever happens to the
\* connection and whatever the transactions around it are made of.
THEOREM PreparedIsAtomic == Spec => []PreparedAtomic
<1>1. AtomicInv => PreparedAtomic
  BY DEF AtomicInv, DurableInv, PreparedAtomic, Safe
<1> QED
  BY <1>1, AtomicInvariant, PTL

\* What Execute() reports as done, of prepared statements, is durable.
THEOREM ResultsAreTrue == Spec => []ResultTells
<1>1. AtomicInv => ResultTells
  BY DEF AtomicInv, DurableInv, ResultTells, Safe
<1> QED
  BY <1>1, AtomicInvariant, PTL

\* No transaction is left open after Execute().
THEOREM NoneLeftOpen == Spec => []AutocommitBetween
<1>1. AtomicInv => AutocommitBetween
  BY DEF AtomicInv, SessionInv, AutocommitBetween
<1> QED
  BY <1>1, AtomicInvariant, PTL
=============================================================================
