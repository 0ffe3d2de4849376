--------------------------- MODULE DatabaseProofs ---------------------------
(***************************************************************************)
(* Proofs about Database, for any set of game threads, any number of delay *)
(* threads, any serial ids and any number of operations.                   *)
(***************************************************************************)
EXTENDS DatabaseInv, FiniteSetTheorems, TLAPS

(***************************************************************************)
(* Sequences as queues.                                                    *)
(***************************************************************************)
\* The positions of a sequence are 1 to its length.
LEMMA Positions ==
    ASSUME NEW S, NEW q \in Seq(S)
    PROVE  Len(q) \in Nat /\ DOMAIN q = 1 .. Len(q) /\ q \in [1 .. Len(q) -> S]
  OBVIOUS

\* A sequence over S has its values in S.
LEMMA Value == ASSUME NEW S, NEW q \in Seq(S), NEW i \in 1 .. Len(q) PROVE q[i] \in S
  OBVIOUS

\* The empty sequence, and no other, has length 0.
LEMMA Empty ==
    ASSUME NEW S
    PROVE  /\ << >> \in Seq(S) /\ Len(<< >>) = 0
           /\ \A q \in Seq(S) : q # << >> => Len(q) \in Nat \ {0}
  OBVIOUS

\* Head and tail of a sequence.
LEMMA Beheaded ==
    ASSUME NEW S, NEW q \in Seq(S), q # << >>
    PROVE  /\ Head(q) \in S /\ Tail(q) \in Seq(S) /\ Len(Tail(q)) = Len(q) - 1
           /\ \A i \in 1 .. Len(Tail(q)) : Tail(q)[i] = q[i + 1]
  OBVIOUS

\* A sequence with one more value.
LEMMA Appended ==
    ASSUME NEW S, NEW q \in Seq(S), NEW e \in S
    PROVE  /\ Append(q, e) \in Seq(S) /\ Append(q, e) # << >> /\ Len(Append(q, e)) = Len(q) + 1
           /\ \A i \in 1 .. Len(q) : Append(q, e)[i] = q[i]
           /\ Append(q, e)[Len(q) + 1] = e
           /\ Append(q, e) = q \o <<e>>
  OBVIOUS

(***************************************************************************)

\* The empty sequence is a sequence over any set.
LEMMA NoElements == ASSUME NEW S, NEW s, s = << >> PROVE s \in Seq(S)
  BY Empty

\* Positions and values of an appended sequence.
LEMMA Grow ==
    ASSUME NEW S, NEW q \in Seq(S), NEW x \in S
    PROVE  /\ DOMAIN Append(q, x) = DOMAIN q \cup {Len(q) + 1}
           /\ Append(q, x)[Len(q) + 1] = x
           /\ \A k \in DOMAIN q : Append(q, x)[k] = q[k] /\ k \in Nat \ {0} /\ k < Len(q) + 1
           /\ Len(q) + 1 \in Nat \ {0}
<1>1. DOMAIN q = 1 .. Len(q) /\ Len(q) \in Nat
  BY Positions
<1>2. DOMAIN Append(q, x) = 1 .. Len(q) + 1
  BY Appended, Positions
<1> QED
  BY <1>1, <1>2, Appended

\* Positions and values of what remains when the head is taken.
LEMMA Shrink ==
    ASSUME NEW S, NEW q \in Seq(S), q # << >>
    PROVE  /\ Head(q) = q[1] /\ 1 \in DOMAIN q
           /\ \A k \in DOMAIN Tail(q) : k \in Nat \ {0} /\ k + 1 \in DOMAIN q /\ Tail(q)[k] = q[k + 1]
           /\ \A k \in DOMAIN q : k = 1 \/ (k \in Nat /\ 1 < k /\ k - 1 \in DOMAIN Tail(q) /\ Tail(q)[k - 1] = q[k])
<1>1. DOMAIN q = 1 .. Len(q) /\ Len(q) \in Nat \ {0}
  BY Positions, Empty
<1>2. Tail(q) \in Seq(S) /\ Len(Tail(q)) = Len(q) - 1 /\ \A i \in 1 .. Len(Tail(q)) : Tail(q)[i] = q[i + 1]
  BY Beheaded
<1>3. DOMAIN Tail(q) = 1 .. Len(q) - 1
  BY <1>2, Positions
<1>4. Head(q) = q[1]
  OBVIOUS
<1> QED
  BY <1>1, <1>2, <1>3, <1>4

\* A set without two different elements counts as 1 or is empty.
LEMMA CountOne ==
    ASSUME NEW S, \A x, y \in S : x = y
    PROVE  Cardinality(S) = IF S = {} THEN 0 ELSE 1
<1>1. CASE S = {}
  BY <1>1, FS_EmptySet
<1>2. CASE S # {}
  <2>1. PICK x : S = {x}
    BY <1>2
  <2> QED
    BY <1>2, <2>1, FS_Singleton
<1> QED
  BY <1>1, <1>2

\* How often c is in a queue that is in strictly increasing order.
LEMMA CountOccurrences ==
    ASSUME NEW q \in Seq(Nat), \A j, k \in DOMAIN q : j < k => q[j] < q[k], NEW c
    PROVE  Cardinality({k \in DOMAIN q : q[k] = c}) = IF \E k \in DOMAIN q : q[k] = c THEN 1 ELSE 0
<1>1. DOMAIN q \subseteq Nat /\ \A k \in DOMAIN q : q[k] \in Nat
  BY Value, Positions
<1>2. ASSUME NEW j \in DOMAIN q, NEW k \in DOMAIN q, q[j] = q[k] PROVE j = k
  <2>1. ~(j < k) /\ ~(k < j)
    BY <1>1, <1>2
  <2> QED
    BY <1>1, <2>1
<1>3. \A j, k \in {i \in DOMAIN q : q[i] = c} : j = k
  BY <1>2
<1> QED
  BY <1>3, CountOne

OpRecord == [serial : Serials, kind : Kinds]

\* The initial state is well typed.
LEMMA InitTypeOK == Init => TypeOK
<1> SUFFICES ASSUME Init PROVE TypeOK
  OBVIOUS
<1>1. ops \in Seq([serial : Serials, kind : Kinds])
  <2>1. ops = << >>
    BY DEF Init
  <2> QED
    BY <2>1, NoElements
<1>2. delayQueue \in Seq(Nat)
  <2>1. delayQueue = << >>
    BY DEF Init
  <2> QED
    BY <2>1, NoElements
<1>3. serialQueue \in [Workers -> Seq(Nat)]
  <2>1. \A w \in Workers : serialQueue[w] = << >>
    BY DEF Init
  <2>2. \A w \in Workers : serialQueue[w] \in Seq(Nat)
    BY <2>1, NoElements
  <2> QED
    BY <2>2 DEF Init
<1>4. allow \in BOOLEAN
  BY Zenon DEF Init
<1>5. trans \in [Threads -> Trans]
  BY DEF Init, Trans
<1> QED
  BY <1>1, <1>2, <1>3, <1>4, <1>5 DEF Init, TypeOK

\* What AddToSerialDelayQueue does to the queues, for any serial id.
LEMMA AddFacts ==
    ASSUME TypeOK, NEW s \in Serials, NEW kind \in Kinds, AddToSerialDelayQueue(s, kind)
    PROVE  /\ ops' = Append(ops, [serial |-> s, kind |-> kind])
           /\ NextOp \in Nat \ {0}
           /\ s = 0 => delayQueue' = Append(delayQueue, NextOp) /\ serialQueue' = serialQueue
           /\ s # 0 => /\ s % NWorkers \in Workers
                       /\ delayQueue' = delayQueue
                       /\ serialQueue' = [serialQueue EXCEPT ![s % NWorkers] = Append(@, NextOp)]
<1>1. s \in Nat /\ s % NWorkers \in Workers
  BY DatabaseAssumption DEF Workers
<1>2. Len(ops) \in Nat
  BY Positions DEF TypeOK
<1> QED
  BY <1>1, <1>2 DEF AddToSerialDelayQueue, AddToDelayQueue, Queued, NextOp

\* Queueing keeps the types of the queues.
LEMMA AddTypes ==
    ASSUME TypeOK, NEW s \in Serials, NEW kind \in Kinds, AddToSerialDelayQueue(s, kind)
    PROVE  /\ ops' \in Seq(OpRecord)
           /\ delayQueue' \in Seq(Nat)
           /\ serialQueue' \in [Workers -> Seq(Nat)]
<1> DEFINE r == [serial |-> s, kind |-> kind]
<1>1. r \in OpRecord
  BY DEF OpRecord
<1>2. Append(ops, r) \in Seq(OpRecord)
  <2>1. ops \in Seq(OpRecord)
    BY DEF TypeOK, OpRecord
  <2> QED
    BY <1>1, <2>1, Appended
<1>3. CASE s = 0
  <2>1. Append(delayQueue, NextOp) \in Seq(Nat)
    BY AddFacts, Appended DEF TypeOK
  <2>2. serialQueue \in [Workers -> Seq(Nat)]
    BY DEF TypeOK
  <2> QED
    BY <1>2, <1>3, <2>1, <2>2, AddFacts
<1>4. CASE s # 0
  <2>1. Append(serialQueue[s % NWorkers], NextOp) \in Seq(Nat)
    BY <1>4, AddFacts, Appended DEF TypeOK
  <2> QED
    BY <1>2, <1>4, <2>1, AddFacts DEF TypeOK
<1> QED
  BY <1>3, <1>4

\* A statement or a query without serial id goes the way of serial id 0.
LEMMA AddShared ==
    ASSUME NEW kind, AddToDelayQueue(0, kind)
    PROVE  AddToSerialDelayQueue(0, kind)
  BY DEF AddToSerialDelayQueue

\* The kinds of steps OwnerInv tells apart: one operation is queued, nothing
\* it speaks of changes, a delay thread takes or executes an operation.
Adds == \E s \in Serials, kind \in Kinds :
            AddToSerialDelayQueue(s, kind) /\ UNCHANGED workerVars
Idles == UNCHANGED <<ops, delayQueue, serialQueue, cur, done, row>>
Takes(w) == NextShared(w) \/ NextSerial(w) \/ ExecuteOp(w)

\* Every step is of one of these kinds.
LEMMA StepKinds ==
    ASSUME TypeOK, [Next]_vars
    PROVE  Adds \/ Idles \/ \E w \in Workers : Takes(w)
<1> USE DEF clientVars, queueVars, workerVars
<1>1. ASSUME NEW t \in Threads, ThreadStep(t) PROVE Adds \/ Idles
  <2>1. ASSUME NEW s \in Serials, BeginTransaction(t, s) PROVE Idles
    BY <2>1 DEF BeginTransaction, Idles
  <2>2. ASSUME NEW s \in Serials, DelayQueryHolder(t, s) PROVE Adds
    BY <2>2 DEF DelayQueryHolder, Adds, Kinds
  <2>3. CASE Execute(t)
    BY <2>3, AddShared, DatabaseAssumption DEF Execute, Adds, Idles, Kinds
  <2>4. CASE CommitTransaction(t)
    <3>1. trans[t].serial \in Serials
      <4>1. trans[t] = NoTrans \/ trans[t] \in [serial : Serials, open : {TRUE}, filled : BOOLEAN]
        BY DEF TypeOK, Trans
      <4>2. NoTrans.serial = 0
        BY DEF NoTrans
      <4> QED
        BY <4>1, <4>2, DatabaseAssumption
    <3> DEFINE kind == IF trans[t].filled THEN "write" ELSE "read"
    <3>2. kind \in Kinds
      BY DEF Kinds
    <3>3. AddToSerialDelayQueue(trans[t].serial, kind) /\ UNCHANGED workerVars
      BY <2>4 DEF CommitTransaction
    <3> HIDE DEF kind
    <3> QED
      BY <3>1, <3>2, <3>3 DEF Adds
  <2>5. CASE AsyncQuery(t)
    BY <2>5, AddShared, DatabaseAssumption DEF AsyncQuery, Adds, Kinds
  <2>6. CASE CommitTransactionDirect(t) \/ RollbackTransaction(t) \/ ThreadEnds(t)
    BY <2>6 DEF CommitTransactionDirect, RollbackTransaction, ThreadEnds, Idles
  <2> QED
    BY <1>1, <2>1, <2>2, <2>3, <2>4, <2>5, <2>6 DEF ThreadStep
<1>2. ASSUME NEW w \in Workers, WorkerStep(w) PROVE Idles \/ Takes(w)
  BY <1>2 DEF WorkerStep, LoopTest, Takes, Idles
<1>3. CASE AllowAsyncTransactions \/ StopServer \/ StopStep \/ Exited \/ UNCHANGED vars
  BY <1>3 DEF AllowAsyncTransactions, StopServer, StopStep, Join, Halted, Stop, DestroyBody, Exited, Idles, vars
<1> QED
  BY <1>1, <1>2, <1>3 DEF Next

\* The types of what a delay thread changes.
LEMMA TakeTypes ==
    ASSUME TypeOK, OwnerInv, NEW w \in Workers, Takes(w)
    PROVE  /\ ops' = ops
           /\ delayQueue' \in Seq(Nat)
           /\ serialQueue' \in [Workers -> Seq(Nat)]
           /\ cur' \in [Workers -> Nat]
           /\ done' \subseteq Nat
           /\ row' \in [Serials -> Nat]
<1>1. CASE NextShared(w)
  <2>1. CASE delayQueue # << >>
    <3>1. Head(delayQueue) \in Nat /\ Tail(delayQueue) \in Seq(Nat)
      BY <2>1, Beheaded DEF TypeOK
    <3> QED
      BY <1>1, <2>1, <3>1 DEF NextShared, TypeOK
  <2>2. CASE delayQueue = << >>
    BY <1>1, <2>2 DEF NextShared, TypeOK
  <2> QED
    BY <2>1, <2>2
<1>2. CASE NextSerial(w)
  <2>1. CASE serialQueue[w] # << >>
    <3>1. Head(serialQueue[w]) \in Nat /\ Tail(serialQueue[w]) \in Seq(Nat)
      BY <2>1, Beheaded DEF TypeOK
    <3> QED
      BY <1>2, <2>1, <3>1 DEF NextSerial, TypeOK
  <2>2. CASE serialQueue[w] = << >>
    BY <1>2, <2>2 DEF NextSerial, TypeOK
  <2> QED
    BY <2>1, <2>2
<1>3. CASE ExecuteOp(w)
  <2> DEFINE new == [row EXCEPT ![ops[cur[w]].serial] = cur[w]]
  <2>0. row' \in {row} \cup (IF ops[cur[w]].kind = "write" THEN {new} ELSE {})
    BY <1>3 DEF ExecuteOp
  <2>1. row' = row \/ row' = new
    <3> HIDE DEF new
    <3> QED
      BY <2>0
  <2>2. row' \in [Serials -> Nat]
    BY <2>1 DEF TypeOK
  <2>3. /\ done' = done \cup {cur[w]} /\ cur' = [cur EXCEPT ![w] = 0]
        /\ UNCHANGED queueVars
    BY <1>3 DEF ExecuteOp
  <2> HIDE DEF new
  <2> QED
    BY <2>2, <2>3 DEF TypeOK, queueVars
<1> QED
  BY <1>1, <1>2, <1>3 DEF Takes

\* Every step keeps the types.
LEMMA NextTypeOK ==
    ASSUME TypeOK, OwnerInv, [Next]_vars
    PROVE  TypeOK'
<1> USE DEF clientVars, queueVars, workerVars
<1>1. /\ ops' \in Seq([serial : Serials, kind : Kinds])
      /\ delayQueue' \in Seq(Nat)
      /\ serialQueue' \in [Workers -> Seq(Nat)]
      /\ cur' \in [Workers -> Nat]
      /\ done' \subseteq Nat
      /\ row' \in [Serials -> Nat]
  <2>1. CASE Adds
    BY <2>1, AddTypes DEF Adds, TypeOK, OpRecord
  <2>2. CASE Idles
    BY <2>2 DEF Idles, TypeOK
  <2>3. ASSUME NEW w \in Workers, Takes(w)
        PROVE  /\ ops' \in Seq([serial : Serials, kind : Kinds])
               /\ delayQueue' \in Seq(Nat)
               /\ serialQueue' \in [Workers -> Seq(Nat)]
               /\ cur' \in [Workers -> Nat]
               /\ done' \subseteq Nat
               /\ row' \in [Serials -> Nat]
    BY <2>3, TakeTypes DEF TypeOK
  <2> QED
    BY <2>1, <2>2, <2>3, StepKinds
<1>2. /\ allow' \in BOOLEAN
      /\ trans' \in [Threads -> Trans]
      /\ left' \subseteq Threads
  <2>1. ASSUME NEW t \in Threads, ThreadStep(t)
        PROVE  trans' \in [Threads -> Trans] /\ allow' = allow /\ left' \subseteq Threads
    <3>1. NoTrans \in Trans
      BY DEF Trans
    <3>2. CASE trans' = [trans EXCEPT ![t] = NoTrans]
      BY <2>1, <3>1, <3>2 DEF ThreadStep, BeginTransaction, Execute, CommitTransaction, CommitTransactionDirect,
            RollbackTransaction, AsyncQuery, DelayQueryHolder, ThreadEnds, TypeOK
    <3>3. ASSUME NEW s \in Serials, BeginTransaction(t, s)
          PROVE  trans' \in [Threads -> Trans] /\ allow' = allow /\ left' \subseteq Threads
      <4>1. [serial |-> s, open |-> TRUE, filled |-> FALSE] \in Trans
        BY DEF Trans
      <4> QED
        BY <3>3, <4>1 DEF BeginTransaction, TypeOK
    <3>4. CASE Execute(t)
      <4>1. CASE trans[t].open
        <5>1. trans[t] \in [serial : Serials, open : {TRUE}, filled : BOOLEAN]
          <6>1. NoTrans.open = FALSE
            BY DEF NoTrans
          <6> QED
            BY <4>1, <6>1 DEF TypeOK, Trans
        <5>2. [trans[t] EXCEPT !.filled = TRUE] \in Trans
          BY <5>1 DEF Trans
        <5>3. trans' = [trans EXCEPT ![t] = [trans[t] EXCEPT !.filled = TRUE]]
          BY <3>4, <4>1 DEF Execute
        <5> QED
          BY <3>4, <5>2, <5>3 DEF Execute, TypeOK
      <4>2. CASE ~trans[t].open
        BY <3>4, <4>2 DEF Execute, TypeOK
      <4> QED
        BY <4>1, <4>2
    <3> QED
      BY <2>1, <3>2, <3>3, <3>4 DEF ThreadStep, CommitTransaction, CommitTransactionDirect,
            RollbackTransaction, AsyncQuery, DelayQueryHolder, ThreadEnds, TypeOK
  <2>2. CASE \E w \in Workers : WorkerStep(w)
    BY <2>2 DEF WorkerStep, LoopTest, NextShared, NextSerial, ExecuteOp, TypeOK
  <2>3. CASE AllowAsyncTransactions
    <3>1. allow' = TRUE /\ UNCHANGED <<trans, left>>
      BY <2>3 DEF AllowAsyncTransactions
    <3> QED
      BY <3>1 DEF TypeOK
  <2>4. CASE StopServer \/ StopStep \/ Exited \/ UNCHANGED vars
    BY <2>4 DEF StopServer, StopStep, Join, Halted, Stop, DestroyBody, Exited, vars, TypeOK
  <2>5. allow \in BOOLEAN
    BY DEF TypeOK
  <2> QED
    BY <2>1, <2>2, <2>3, <2>4, <2>5 DEF Next
<1>3. /\ running' \in [Workers -> BOOLEAN]
      /\ pc' \in [Workers -> {"loop", "shared", "serial", "exited", "gone"}]
      /\ phase' \in {"up", "stopping", "destroying", "halted"}
  <2>1. CASE \E t \in Threads : ThreadStep(t)
    BY <2>1 DEF ThreadStep, BeginTransaction, Execute, CommitTransaction, CommitTransactionDirect,
            RollbackTransaction, AsyncQuery, DelayQueryHolder, ThreadEnds, TypeOK
  <2>2. CASE \E w \in Workers : WorkerStep(w)
    BY <2>2 DEF WorkerStep, LoopTest, NextShared, NextSerial, ExecuteOp, TypeOK
  <2>3. CASE AllowAsyncTransactions
    BY <2>3 DEF AllowAsyncTransactions, TypeOK
  <2>4. CASE StopServer \/ StopStep \/ Exited \/ UNCHANGED vars
    BY <2>4 DEF StopServer, StopStep, Join, Halted, Stop, DestroyBody, Exited, vars, TypeOK
  <2> QED
    BY <2>1, <2>2, <2>3, <2>4 DEF Next
<1> QED
  BY <1>1, <1>2, <1>3 DEF TypeOK

-----------------------------------------------------------------------------
(* The ownership of the operations with a serial id.                       *)

\* Operation numbers are positive and their serial ids are natural numbers.
LEMMA OpFacts ==
    ASSUME TypeOK, NEW i \in OpIds
    PROVE  i \in Nat \ {0} /\ Serial(i) \in Serials /\ (Serial(i) # 0 => Owner(i) \in Workers)
<1>1. ops[i] \in OpRecord /\ i \in Nat \ {0}
  <2>1. ops \in Seq(OpRecord)
    BY DEF TypeOK, OpRecord
  <2> QED
    BY <2>1, Value, Positions DEF OpIds
<1> QED
  <2>1. Serial(i) \in Serials
    BY <1>1 DEF OpRecord, Serial
  <2>2. Serial(i) \in Nat
    BY <2>1, DatabaseAssumption
  <2>3. Owner(i) \in Workers
    BY <2>2, DatabaseAssumption DEF Owner, Workers
  <2> QED
    BY <1>1, <2>1, <2>3

\* Init is a state of OwnerInv.
LEMMA InitOwner == Init => OwnerInv
<1> SUFFICES ASSUME Init PROVE OwnerInv
  OBVIOUS
<1>1. DOMAIN ops = {} /\ DOMAIN delayQueue = {}
  <2>1. ops = << >> /\ delayQueue = << >>
    BY DEF Init
  <2> QED
    BY <2>1
<1>2. \A w \in Workers : DOMAIN serialQueue[w] = {}
  <2>1. \A w \in Workers : serialQueue[w] = << >>
    BY DEF Init
  <2> QED
    BY <2>1
<1>3. done = {} /\ (\A w \in Workers : cur[w] = 0) /\ \A s \in Serials : row[s] = 0
  BY DEF Init
<1> QED
  BY <1>1, <1>2, <1>3 DEF OwnerInv, SharedInv, QueueInv, CurInv, FoundInv, DoneInv, RowInv, OpIds

\* A new operation is the last of its owner.
LEMMA AddOwner ==
    ASSUME TypeOK, OwnerInv, Adds
    PROVE  OwnerInv'
<1>1. PICK s \in Serials, kind \in Kinds : AddToSerialDelayQueue(s, kind) /\ UNCHANGED workerVars
  BY DEF Adds
<1>0. \A i \in OpIds : ops[i].serial # 0 => ops[i].serial % NWorkers \in Workers
  BY OpFacts DEF Serial, Owner
<1> USE DEF Serial, Owner
<1> DEFINE n == NextOp
           r == [serial |-> s, kind |-> kind]
<1>2. UNCHANGED <<cur, done, row>>
  BY <1>1 DEF workerVars
<1>3. /\ OpIds' = OpIds \cup {n} /\ n \in Nat \ {0}
      /\ \A i \in OpIds : ops'[i].serial = ops[i].serial /\ i < n
      /\ ops'[n].serial = s
  <2>1. ops \in Seq(OpRecord) /\ r \in OpRecord /\ ops' = Append(ops, r)
    BY <1>1, AddFacts DEF TypeOK, OpRecord
  <2>2. /\ DOMAIN ops' = DOMAIN ops \cup {n} /\ ops'[n] = r /\ n \in Nat \ {0}
        /\ \A i \in DOMAIN ops : ops'[i] = ops[i] /\ i < n
    BY <2>1, Grow DEF NextOp
  <2> QED
    BY <2>2 DEF OpIds
<1>4. s = 0 => delayQueue' = Append(delayQueue, n) /\ serialQueue' = serialQueue
  BY <1>1, AddFacts
<1>5. s # 0 => /\ s % NWorkers \in Workers /\ delayQueue' = delayQueue
               /\ serialQueue' = [serialQueue EXCEPT ![s % NWorkers] = Append(@, n)]
  BY <1>1, AddFacts
<1> HIDE DEF n
<1>6. CASE s = 0
  <2>0. delayQueue \in Seq(Nat) /\ n \in Nat
    BY <1>3 DEF TypeOK
  <2>1. /\ DOMAIN delayQueue' = DOMAIN delayQueue \cup {Len(delayQueue) + 1}
        /\ delayQueue'[Len(delayQueue) + 1] = n
        /\ \A k \in DOMAIN delayQueue : delayQueue'[k] = delayQueue[k]
    BY <1>4, <1>6, <2>0, Grow
  <2>2. SharedInv'
    BY <1>3, <1>6, <2>1 DEF OwnerInv, SharedInv
  <2>3. QueueInv' /\ CurInv'
    BY <1>2, <1>3, <1>4, <1>6 DEF OwnerInv, QueueInv, CurInv
  <2>4. FoundInv'
    BY <1>0, <1>2, <1>3, <1>4, <1>6 DEF OwnerInv, FoundInv, InSerialQueue
  <2>5. DoneInv'
    <3>1. ASSUME NEW i \in done PROVE i \in OpIds /\ ops'[i].serial = ops[i].serial
      BY <1>3, <3>1 DEF OwnerInv, DoneInv
    <3>2. \A v \in Workers : cur'[v] # 0 => ops'[cur'[v]].serial = ops[cur[v]].serial /\ cur'[v] = cur[v]
      BY <1>2, <1>3 DEF OwnerInv, CurInv
    <3>3. ASSUME NEW i \in done, ops[i].serial # 0, NEW v \in Workers, v = ops[i].serial % NWorkers
          PROVE  /\ cur'[v] # 0 /\ ops'[cur'[v]].serial # 0 => i < cur'[v]
                 /\ \A k \in DOMAIN serialQueue'[v] : i < serialQueue'[v][k]
      <4>1. /\ cur[v] # 0 /\ ops[cur[v]].serial # 0 => i < cur[v]
            /\ \A k \in DOMAIN serialQueue[v] : i < serialQueue[v][k]
        BY <3>3 DEF OwnerInv, DoneInv
      <4> QED
        BY <1>4, <1>6, <3>1, <3>2, <4>1
    <3> QED
      BY <1>0, <1>2, <1>3, <3>1, <3>3 DEF DoneInv
  <2>6. RowInv'
    BY <1>2, <1>3 DEF OwnerInv, DoneInv, RowInv
  <2> QED
    BY <2>2, <2>3, <2>4, <2>5, <2>6 DEF OwnerInv
<1>7. CASE s # 0
  <2> DEFINE o == s % NWorkers
             L == Len(serialQueue[o]) + 1
  <2>1. /\ DOMAIN serialQueue'[o] = DOMAIN serialQueue[o] \cup {L}
        /\ serialQueue'[o][L] = n /\ L \in Nat
        /\ \A k \in DOMAIN serialQueue[o] : serialQueue'[o][k] = serialQueue[o][k] /\ k \in Nat /\ k < L
    BY <1>3, <1>5, <1>7, Grow DEF TypeOK
  <2>2. \A w \in Workers \ {o} : serialQueue'[w] = serialQueue[w]
    BY <1>5, <1>7 DEF TypeOK
  <2>3. o \in Workers /\ ops'[n].serial % NWorkers = o
    BY <1>3, <1>5, <1>7
  <2> HIDE DEF o, L
  <2>4. SharedInv'
    BY <1>3, <1>5, <1>7 DEF OwnerInv, SharedInv
  <2>5. QueueInv'
    BY <1>3, <1>7, <2>1, <2>2, <2>3 DEF OwnerInv, QueueInv
  <2>6. CurInv'
    BY <1>2, <1>3, <1>7, <2>1, <2>2 DEF OwnerInv, CurInv
  <2>7. FoundInv'
    BY <1>0, <1>2, <1>3, <1>7, <2>1, <2>2, <2>3 DEF OwnerInv, FoundInv, InSerialQueue
  <2>8. DoneInv'
    <3>1. ASSUME NEW i \in done PROVE i \in OpIds /\ i < n /\ ops'[i].serial = ops[i].serial
      BY <1>3, <3>1 DEF OwnerInv, DoneInv
    <3>2. \A v \in Workers : cur'[v] # 0 => ops'[cur'[v]].serial = ops[cur[v]].serial /\ cur'[v] = cur[v]
      BY <1>2, <1>3 DEF OwnerInv, CurInv
    <3>3. ASSUME NEW i \in done, ops[i].serial # 0, NEW v \in Workers, v = ops[i].serial % NWorkers
          PROVE  /\ cur'[v] # 0 /\ ops'[cur'[v]].serial # 0 => i < cur'[v]
                 /\ \A k \in DOMAIN serialQueue'[v] : i < serialQueue'[v][k]
      <4>1. /\ cur[v] # 0 /\ ops[cur[v]].serial # 0 => i < cur[v]
            /\ \A k \in DOMAIN serialQueue[v] : i < serialQueue[v][k]
        BY <3>3 DEF OwnerInv, DoneInv
      <4> QED
        BY <2>1, <2>2, <3>1, <3>2, <4>1
    <3> QED
      BY <1>0, <1>2, <1>3, <3>1, <3>3 DEF DoneInv
  <2>9. RowInv'
    BY <1>2, <1>3 DEF OwnerInv, DoneInv, RowInv
  <2> QED
    BY <2>4, <2>5, <2>6, <2>7, <2>8, <2>9 DEF OwnerInv
<1> QED
  BY <1>6, <1>7

\* A step that changes none of what OwnerInv speaks of keeps it.
LEMMA IdleOwner ==
    ASSUME OwnerInv, Idles
    PROVE  OwnerInv'
<1>1. UNCHANGED <<ops, delayQueue, serialQueue, cur, done, row>>
  BY DEF Idles
<1>2. OpIds' = OpIds /\ \A i : Serial(i)' = Serial(i) /\ Owner(i)' = Owner(i)
  BY <1>1 DEF OpIds, Serial, Owner
<1>3. SharedInv' /\ QueueInv' /\ CurInv'
  BY <1>1, <1>2 DEF OwnerInv, SharedInv, QueueInv, CurInv
<1>4. FoundInv'
  BY <1>1, <1>2 DEF OwnerInv, FoundInv, InSerialQueue
<1>5. DoneInv' /\ RowInv'
  BY <1>1, <1>2 DEF OwnerInv, DoneInv, RowInv
<1> QED
  BY <1>3, <1>4, <1>5 DEF OwnerInv

\* Taking from the shared queue gives a delay thread an operation without
\* serial id.
LEMMA SharedOwner ==
    ASSUME TypeOK, OwnerInv, NEW w \in Workers, NextShared(w)
    PROVE  OwnerInv'
<1>0. \A i \in OpIds : ops[i].serial # 0 => ops[i].serial % NWorkers \in Workers
  BY OpFacts DEF Serial, Owner
<1> USE DEF Serial, Owner
<1>1. cur[w] = 0 /\ UNCHANGED <<ops, serialQueue, done, row>>
  BY DEF NextShared
<1>2. CASE delayQueue # << >>
  <2>1. cur' = [cur EXCEPT ![w] = Head(delayQueue)] /\ delayQueue' = Tail(delayQueue)
    BY <1>2 DEF NextShared
  <2>2. delayQueue \in Seq(Nat)
    BY DEF TypeOK
  <2>3. /\ Head(delayQueue) = delayQueue[1] /\ 1 \in DOMAIN delayQueue
        /\ \A k \in DOMAIN Tail(delayQueue) : k + 1 \in DOMAIN delayQueue /\ Tail(delayQueue)[k] = delayQueue[k + 1]
    BY <1>2, <2>2, Shrink
  <2>4. cur'[w] = delayQueue[1] /\ cur'[w] \in OpIds /\ ops[cur'[w]].serial = 0
    BY <2>1, <2>3 DEF TypeOK, OwnerInv, SharedInv
  <2>5. \A v \in Workers \ {w} : cur'[v] = cur[v]
    BY <2>1 DEF TypeOK
  <2>6. SharedInv'
    BY <1>1, <2>1, <2>3 DEF OwnerInv, SharedInv, OpIds
  <2>7. QueueInv' /\ CurInv'
    BY <1>1, <2>4, <2>5 DEF OwnerInv, QueueInv, CurInv, OpIds
  <2>8. FoundInv'
    <3>1. \A i \in OpIds : i # 0
      BY OpFacts
    <3>2. \A v \in Workers : \A i \in OpIds : cur[v] = i /\ ops[i].serial # 0 => cur'[v] = i
      BY <1>1, <2>5, <3>1
    <3> QED
      BY <1>0, <1>1, <3>2 DEF OwnerInv, FoundInv, InSerialQueue, OpIds
  <2>9. DoneInv' /\ RowInv'
    BY <1>0, <1>1, <2>4, <2>5 DEF OwnerInv, DoneInv, RowInv, OpIds
  <2> QED
    BY <2>6, <2>7, <2>8, <2>9 DEF OwnerInv
<1>3. CASE delayQueue = << >>
  <2>1. Idles
    BY <1>1, <1>3 DEF NextShared, Idles
  <2> QED
    BY <2>1, IdleOwner
<1> QED
  BY <1>2, <1>3

\* Taking from the serial queue gives a delay thread the first of its own.
LEMMA SerialOwner ==
    ASSUME TypeOK, OwnerInv, NEW w \in Workers, NextSerial(w)
    PROVE  OwnerInv'
<1>0. \A i \in OpIds : ops[i].serial # 0 => ops[i].serial % NWorkers \in Workers
  BY OpFacts DEF Serial, Owner
<1> USE DEF Serial, Owner
<1>1. cur[w] = 0 /\ UNCHANGED <<ops, delayQueue, done, row>>
  BY DEF NextSerial
<1>2. CASE serialQueue[w] # << >>
  <2> DEFINE q == serialQueue[w]
  <2>1. cur' = [cur EXCEPT ![w] = Head(q)] /\ serialQueue' = [serialQueue EXCEPT ![w] = Tail(q)]
    BY <1>2 DEF NextSerial
  <2>2. q \in Seq(Nat)
    BY DEF TypeOK
  <2>3. /\ Head(q) = q[1] /\ 1 \in DOMAIN q
        /\ \A k \in DOMAIN Tail(q) : k \in Nat \ {0} /\ k + 1 \in DOMAIN q /\ Tail(q)[k] = q[k + 1]
        /\ \A k \in DOMAIN q : k = 1 \/ (k \in Nat /\ 1 < k /\ k - 1 \in DOMAIN Tail(q) /\ Tail(q)[k - 1] = q[k])
    BY <1>2, <2>2, Shrink
  <2>4. cur'[w] = q[1] /\ serialQueue'[w] = Tail(q)
    BY <2>1, <2>3 DEF TypeOK
  <2>5. \A v \in Workers \ {w} : cur'[v] = cur[v] /\ serialQueue'[v] = serialQueue[v]
    BY <2>1 DEF TypeOK
  <2>6. q[1] \in OpIds /\ ops[q[1]].serial # 0 /\ ops[q[1]].serial % NWorkers = w
    BY <2>3 DEF OwnerInv, QueueInv
  <2>7. \A k \in DOMAIN Tail(q) : q[1] < Tail(q)[k]
    BY <2>3 DEF OwnerInv, QueueInv
  <2>8. SharedInv'
    BY <1>1 DEF OwnerInv, SharedInv, OpIds
  <2>9. QueueInv'
    <3>1. ASSUME NEW k \in DOMAIN Tail(q)
          PROVE  /\ Tail(q)[k] \in OpIds
                 /\ ops[Tail(q)[k]].serial # 0 /\ ops[Tail(q)[k]].serial % NWorkers = w
                 /\ \A j \in DOMAIN Tail(q) : j < k => Tail(q)[j] < Tail(q)[k]
      BY <2>3 DEF OwnerInv, QueueInv
    <3> DEFINE tq == Tail(q)
    <3>2. serialQueue'[w] = tq
      BY <2>4
    <3> HIDE DEF tq
    <3>3. ASSUME NEW v \in Workers, v # w, NEW k \in DOMAIN serialQueue'[v]
          PROVE  /\ serialQueue'[v][k] \in OpIds
                 /\ ops[serialQueue'[v][k]].serial # 0 /\ ops[serialQueue'[v][k]].serial % NWorkers = v
                 /\ \A j \in DOMAIN serialQueue'[v] : j < k => serialQueue'[v][j] < serialQueue'[v][k]
      BY <2>5, <3>3 DEF OwnerInv, QueueInv
    <3>4. ASSUME NEW k \in DOMAIN serialQueue'[w]
          PROVE  /\ serialQueue'[w][k] \in OpIds
                 /\ ops[serialQueue'[w][k]].serial # 0 /\ ops[serialQueue'[w][k]].serial % NWorkers = w
                 /\ \A j \in DOMAIN serialQueue'[w] : j < k => serialQueue'[w][j] < serialQueue'[w][k]
      BY <3>1, <3>2 DEF tq
    <3> QED
      BY <1>1, <3>3, <3>4 DEF QueueInv, OpIds
  <2>10. CurInv'
    BY <1>1, <2>4, <2>5, <2>6, <2>7 DEF OwnerInv, CurInv, OpIds
  <2>11. FoundInv'
    <3>1. ASSUME NEW i \in OpIds, ops[i].serial # 0, ops[i].serial % NWorkers = w, i \notin done
          PROVE  cur'[w] = i \/ \E k \in DOMAIN Tail(q) : Tail(q)[k] = i
      <4>1. i # 0
        BY OpFacts
      <4>2. PICK k \in DOMAIN q : q[k] = i
        BY <1>1, <3>1, <4>1 DEF OwnerInv, FoundInv, InSerialQueue
      <4> QED
        BY <2>3, <2>4, <4>2
    <3>2. ASSUME NEW i \in OpIds, ops[i].serial # 0, ops[i].serial % NWorkers # w, i \notin done
          PROVE  LET v == ops[i].serial % NWorkers
                 IN  cur'[v] = i \/ \E k \in DOMAIN serialQueue'[v] : serialQueue'[v][k] = i
      BY <1>0, <2>5, <3>2 DEF OwnerInv, FoundInv, InSerialQueue
    <3>3. ASSUME NEW i \in OpIds, ops[i].serial # 0, ops[i].serial % NWorkers = w, i \notin done
          PROVE  cur'[w] = i \/ \E k \in DOMAIN serialQueue'[w] : serialQueue'[w][k] = i
      BY <2>4, <3>1, <3>3
    <3> QED
      BY <1>1, <3>2, <3>3 DEF FoundInv, InSerialQueue, OpIds
  <2>12. DoneInv'
    <3>1. ASSUME NEW i \in done, ops[i].serial # 0, ops[i].serial % NWorkers = w
          PROVE  i < q[1] /\ \A k \in DOMAIN Tail(q) : i < Tail(q)[k]
      BY <2>3, <3>1 DEF OwnerInv, DoneInv
    <3>2. ASSUME NEW i \in done, ops[i].serial # 0, ops[i].serial % NWorkers # w
          PROVE  LET v == ops[i].serial % NWorkers
                 IN  /\ (cur'[v] # 0 /\ ops[cur'[v]].serial # 0) => i < cur'[v]
                     /\ \A k \in DOMAIN serialQueue'[v] : i < serialQueue'[v][k]
      <4>1. i \in OpIds
        BY DEF OwnerInv, DoneInv
      <4> QED
        BY <1>0, <2>5, <3>2, <4>1 DEF OwnerInv, DoneInv
    <3>3. ASSUME NEW i \in done, ops[i].serial # 0, ops[i].serial % NWorkers = w
          PROVE  /\ i < cur'[w]
                 /\ \A k \in DOMAIN serialQueue'[w] : i < serialQueue'[w][k]
      BY <2>4, <3>1, <3>3
    <3>4. \A i \in done : i \in OpIds
      BY DEF OwnerInv, DoneInv
    <3> QED
      BY <1>1, <3>2, <3>3, <3>4 DEF DoneInv, OpIds
  <2>13. RowInv'
    BY <1>1 DEF OwnerInv, RowInv
  <2> QED
    BY <2>8, <2>9, <2>10, <2>11, <2>12, <2>13 DEF OwnerInv
<1>3. CASE serialQueue[w] = << >>
  <2>1. Idles
    BY <1>1, <1>3 DEF NextSerial, Idles
  <2> QED
    BY <2>1, IdleOwner
<1> QED
  BY <1>2, <1>3

\* What ExecuteOp does, without the choice of the row.
LEMMA ExecuteFacts ==
    ASSUME TypeOK, OwnerInv, NEW w \in Workers, ExecuteOp(w)
    PROVE  /\ cur[w] \in OpIds /\ cur[w] # 0
           /\ done' = done \cup {cur[w]} /\ cur'[w] = 0
           /\ \A v \in Workers \ {w} : cur'[v] = cur[v]
           /\ UNCHANGED <<ops, delayQueue, serialQueue>>
           /\ \A s \in Serials : row'[s] = row[s] \/ (row'[s] = cur[w] /\ Serial(cur[w]) = s)
<1> DEFINE new == [row EXCEPT ![ops[cur[w]].serial] = cur[w]]
<1>1. row' \in {row} \cup (IF ops[cur[w]].kind = "write" THEN {new} ELSE {})
  BY DEF ExecuteOp
<1>2. row' = row \/ row' = new
  <2> HIDE DEF new
  <2> QED
    BY <1>1
<1>3. \A s \in Serials : row'[s] = row[s] \/ (row'[s] = cur[w] /\ Serial(cur[w]) = s)
  BY <1>2 DEF Serial, TypeOK
<1>4. /\ done' = done \cup {cur[w]} /\ cur' = [cur EXCEPT ![w] = 0] /\ cur[w] # 0
      /\ UNCHANGED <<ops, delayQueue, serialQueue>>
  BY DEF ExecuteOp, queueVars
<1> HIDE DEF new
<1> QED
  BY <1>3, <1>4 DEF TypeOK, OwnerInv, CurInv

\* Executing an operation moves it from the hands of its owner to done.
LEMMA ExecuteOwner ==
    ASSUME TypeOK, OwnerInv, NEW w \in Workers, ExecuteOp(w)
    PROVE  OwnerInv'
<1>0. \A i \in OpIds : i # 0 /\ (ops[i].serial # 0 => ops[i].serial % NWorkers \in Workers)
  BY OpFacts DEF Serial, Owner
<1>1. /\ cur[w] \in OpIds /\ cur[w] # 0
      /\ done' = done \cup {cur[w]} /\ cur'[w] = 0
      /\ \A v \in Workers \ {w} : cur'[v] = cur[v]
      /\ UNCHANGED <<ops, delayQueue, serialQueue>>
  BY ExecuteFacts
<1>2. \A s \in Serials : row'[s] = row[s] \/ (row'[s] = cur[w] /\ ops[cur[w]].serial = s)
  BY ExecuteFacts DEF Serial
<1> USE DEF Serial, Owner
<1>3. SharedInv' /\ QueueInv' /\ CurInv'
  BY <1>1 DEF OwnerInv, SharedInv, QueueInv, CurInv, OpIds
<1>4. FoundInv'
  BY <1>0, <1>1 DEF OwnerInv, FoundInv, InSerialQueue, OpIds
<1>5. DoneInv'
  <2>1. ops[cur[w]].serial # 0 =>
           /\ ops[cur[w]].serial % NWorkers = w
           /\ \A k \in DOMAIN serialQueue[w] : cur[w] < serialQueue[w][k]
    BY <1>1 DEF OwnerInv, CurInv
  <2>2. \A v \in Workers : cur'[v] # 0 => v # w /\ cur'[v] = cur[v]
    BY <1>1
  <2>3. ASSUME NEW i \in done, ops[i].serial # 0, NEW v \in Workers, v = ops[i].serial % NWorkers
        PROVE  /\ cur'[v] # 0 /\ ops[cur'[v]].serial # 0 => i < cur'[v]
               /\ \A k \in DOMAIN serialQueue[v] : i < serialQueue[v][k]
    BY <2>2, <2>3 DEF OwnerInv, DoneInv
  <2>4. done \subseteq OpIds
    BY DEF OwnerInv, DoneInv
  <2> QED
    BY <1>0, <1>1, <2>1, <2>3, <2>4 DEF DoneInv, OpIds
<1>6. RowInv'
  BY <1>1, <1>2 DEF OwnerInv, RowInv
<1> QED
  BY <1>3, <1>4, <1>5, <1>6 DEF OwnerInv

\* Every step keeps OwnerInv.
LEMMA NextOwner ==
    ASSUME TypeOK, OwnerInv, [Next]_vars
    PROVE  OwnerInv'
  BY IdleOwner, AddOwner, SharedOwner, SerialOwner, ExecuteOwner, StepKinds DEF Takes

\* Every reachable state is well typed and keeps the ownership.
THEOREM Ownership == Spec => [](TypeOK /\ OwnerInv)
<1>1. Init => TypeOK /\ OwnerInv
  BY InitTypeOK, InitOwner
<1>2. TypeOK /\ OwnerInv /\ [Next]_vars => (TypeOK /\ OwnerInv)'
  BY NextTypeOK, NextOwner
<1> QED
  BY <1>1, <1>2, PTL DEF Spec

\* While a delay thread executes an operation, those queued before it with its
\* serial id are neither in its queue nor in its hands: they were executed.
LEMMA OwnedIsOrdered ==
    ASSUME TypeOK, OwnerInv
    PROVE  SerialOrder
<1> SUFFICES ASSUME NEW w \in Workers, cur[w] # 0,
                    NEW i \in OpIds, i < cur[w], SameSerial(i, cur[w])
             PROVE  i \in done
  BY DEF SerialOrder
<1>1. Serial(i) # 0 /\ Owner(i) = w /\ \A k \in DOMAIN serialQueue[w] : cur[w] < serialQueue[w][k]
  BY DEF SameSerial, OwnerInv, CurInv, Serial, Owner
<1>2. cur[w] \in Nat /\ i \in Nat /\ \A k \in DOMAIN serialQueue[w] : serialQueue[w][k] \in Nat
  BY OpFacts DEF OwnerInv, QueueInv, CurInv
<1>3. ~InSerialQueue(w, i)
  BY <1>1, <1>2 DEF InSerialQueue
<1> QED
  BY <1>1, <1>2, <1>3 DEF OwnerInv, FoundInv

\* Operations with one serial id are executed one at a time and in the order
\* in which they were queued: a login loads what the last save wrote.
THEOREM SerialOrdered == Spec => []SerialOrder
<1>1. TypeOK /\ OwnerInv => SerialOrder
  BY OwnedIsOrdered
<1> QED
  BY <1>1, Ownership, PTL

\* No delay thread overwrites the row of a serial id with an older write.
THEOREM RowsAdvance == Spec => RowNeverGoesBack
<1>1. TypeOK /\ OwnerInv /\ [Next]_vars => [\A s \in Serials \ {0} : row'[s] >= row[s]]_vars
  <2> SUFFICES ASSUME TypeOK, OwnerInv, Next, NEW s \in Serials \ {0}
               PROVE  row'[s] >= row[s]
    BY DEF vars, workerVars, TypeOK
  <2>1. row[s] \in Nat
    BY DEF TypeOK
  <2>2. CASE row' = row
    BY <2>1, <2>2
  <2>3. ASSUME NEW w \in Workers, ExecuteOp(w) PROVE row'[s] >= row[s]
    <3>1. cur[w] \in OpIds /\ cur[w] # 0 /\ (row'[s] = row[s] \/ (row'[s] = cur[w] /\ Serial(cur[w]) = s))
      BY <2>3, ExecuteFacts
    <3>2. cur[w] \in Nat
      BY <3>1, OpFacts
    <3>3. CASE Serial(cur[w]) = s /\ row[s] # 0
      <4>1. row[s] \in done /\ Serial(row[s]) = s
        BY <3>3 DEF OwnerInv, RowInv
      <4>2. Owner(cur[w]) = w /\ Owner(row[s]) = w
        BY <3>1, <3>3, <4>1 DEF OwnerInv, CurInv, Owner
      <4>3. row[s] < cur[w]
        BY <3>1, <3>3, <4>1, <4>2 DEF OwnerInv, DoneInv
      <4> QED
        BY <2>1, <3>1, <3>2, <4>3
    <3> QED
      BY <2>1, <3>1, <3>2, <3>3
  <2>4. row' = row \/ \E w \in Workers : ExecuteOp(w)
    BY StepKinds DEF Adds, Idles, Takes, NextShared, NextSerial, workerVars
  <2> QED
    BY <2>2, <2>3, <2>4
<1> QED
  BY <1>1, Ownership, PTL DEF Spec, RowNeverGoesBack

-----------------------------------------------------------------------------
(* Database implements SerialStore.                                        *)

\* Init is a state of OnceInv.
LEMMA InitOnce == Init => OnceInv
<1> SUFFICES ASSUME Init PROVE OnceInv
  OBVIOUS
<1>1. DOMAIN delayQueue = {}
  <2>1. delayQueue = << >>
    BY DEF Init
  <2> QED
    BY <2>1
<1>2. \A w \in Workers : cur[w] = 0
  BY DEF Init
<1> QED
  BY <1>1, <1>2 DEF OnceInv

\* A new operation has a number that none in the queues, in the hands of a
\* delay thread or executed has.
LEMMA AddOnce ==
    ASSUME TypeOK, OwnerInv, OnceInv, Adds
    PROVE  OnceInv'
<1>1. PICK s \in Serials, kind \in Kinds : AddToSerialDelayQueue(s, kind) /\ UNCHANGED workerVars
  BY DEF Adds
<1> DEFINE n == NextOp
<1>2. UNCHANGED <<cur, done>>
  BY <1>1 DEF workerVars
<1>3. n \in Nat \ {0} /\ \A i \in OpIds : i \in Nat /\ i < n
  <2>1. ops \in Seq(OpRecord) /\ DOMAIN ops = 1 .. Len(ops) /\ Len(ops) \in Nat
    BY Positions DEF TypeOK, OpRecord
  <2> QED
    BY <2>1 DEF NextOp, OpIds
<1>4. n \notin done /\ (\A w \in Workers : cur[w] # n) /\ \A k \in DOMAIN delayQueue : delayQueue[k] < n
  <2>1. n \notin OpIds
    BY <1>3
  <2> HIDE DEF n
  <2>2. n \notin done /\ \A w \in Workers : cur[w] # n
    BY <1>3, <2>1 DEF OwnerInv, DoneInv, CurInv
  <2> QED
    BY <1>3, <2>2 DEF OwnerInv, SharedInv
<1>5. s = 0 => delayQueue' = Append(delayQueue, n)
  BY <1>1, AddFacts
<1>6. s # 0 => delayQueue' = delayQueue
  BY <1>1, AddFacts
<1> HIDE DEF n
<1>7. CASE s = 0
  <2> DEFINE L == Len(delayQueue) + 1
  <2>1. delayQueue \in Seq(Nat) /\ n \in Nat
    BY <1>3 DEF TypeOK
  <2>2. /\ DOMAIN delayQueue' = DOMAIN delayQueue \cup {L}
        /\ delayQueue'[L] = n /\ L \in Nat
        /\ \A k \in DOMAIN delayQueue : delayQueue'[k] = delayQueue[k] /\ k \in Nat /\ k < L
    BY <1>5, <1>7, <2>1, Grow
  <2> HIDE DEF L
  <2> QED
    BY <1>2, <1>4, <2>2 DEF OnceInv
<1>8. CASE s # 0
  BY <1>2, <1>6, <1>8 DEF OnceInv
<1> QED
  BY <1>7, <1>8

\* What is taken from the shared queue is there no more.
LEMMA SharedOnce ==
    ASSUME TypeOK, OwnerInv, OnceInv, NEW w \in Workers, NextShared(w)
    PROVE  OnceInv'
<1>1. done' = done /\ cur[w] = 0
  BY DEF NextShared
<1>2. CASE delayQueue # << >>
  <2>1. cur' = [cur EXCEPT ![w] = Head(delayQueue)] /\ delayQueue' = Tail(delayQueue)
    BY <1>2 DEF NextShared
  <2>2. delayQueue \in Seq(Nat)
    BY DEF TypeOK
  <2>3. /\ Head(delayQueue) = delayQueue[1] /\ 1 \in DOMAIN delayQueue
        /\ \A k \in DOMAIN Tail(delayQueue) :
              k \in Nat \ {0} /\ k + 1 \in DOMAIN delayQueue /\ Tail(delayQueue)[k] = delayQueue[k + 1]
    BY <1>2, <2>2, Shrink
  <2>4. \A k \in DOMAIN delayQueue : delayQueue[k] \in Nat
    BY <2>2, Value, Positions
  <2>5. cur'[w] = delayQueue[1] /\ \A v \in Workers \ {w} : cur'[v] = cur[v]
    BY <2>1, <2>3 DEF TypeOK
  <2> DEFINE tq == Tail(delayQueue)
  <2>6. \A k \in DOMAIN tq :
           /\ tq[k] \notin done /\ delayQueue[1] < tq[k] /\ tq[k] \in Nat
           /\ \A j \in DOMAIN tq : j < k => tq[j] < tq[k]
           /\ \A v \in Workers : cur[v] # tq[k]
    BY <2>3, <2>4 DEF OnceInv
  <2>7. delayQueue' = tq
    BY <2>1
  <2>8. delayQueue[1] \in Nat /\ delayQueue[1] \notin done /\ \A v \in Workers : cur[v] # delayQueue[1]
    BY <2>3, <2>4 DEF OnceInv
  <2> HIDE DEF tq
  <2>9. \A k \in DOMAIN tq : \A v \in Workers : cur'[v] # tq[k]
    BY <2>5, <2>6, <2>8
  <2>10. \A u \in Workers : cur'[u] # 0 => cur'[u] \notin done /\ \A v \in Workers \ {u} : cur'[v] # cur'[u]
    BY <2>5, <2>8 DEF OnceInv
  <2> QED
    BY <1>1, <2>6, <2>7, <2>9, <2>10 DEF OnceInv
<1>3. CASE delayQueue = << >>
  BY <1>3 DEF NextShared, OnceInv
<1> QED
  BY <1>2, <1>3

\* What is taken from a serial queue has a serial id, was not executed, and no
\* other delay thread owns it.
LEMMA SerialOnce ==
    ASSUME TypeOK, OwnerInv, OnceInv, NEW w \in Workers, NextSerial(w)
    PROVE  OnceInv'
<1>1. UNCHANGED <<done, delayQueue>>
  BY DEF NextSerial
<1>2. CASE serialQueue[w] # << >>
  <2> DEFINE h == serialQueue[w][1]
  <2>1. serialQueue[w] \in Seq(Nat)
    BY DEF TypeOK
  <2>2. Head(serialQueue[w]) = h /\ 1 \in DOMAIN serialQueue[w]
    BY <1>2, <2>1, Shrink
  <2>3. cur' = [cur EXCEPT ![w] = h]
    BY <1>2, <2>2 DEF NextSerial
  <2>4. h \in OpIds /\ Serial(h) # 0 /\ Owner(h) = w
    BY <2>2 DEF OwnerInv, QueueInv
  <2>5. h \in Nat
    BY <2>4, OpFacts
  <2>6. h \notin done
    BY <2>2, <2>4, <2>5 DEF OwnerInv, DoneInv
  <2> HIDE DEF h
  <2>7. \A k \in DOMAIN delayQueue : delayQueue[k] # h
    BY <2>4 DEF OwnerInv, SharedInv
  <2>8. \A v \in Workers \ {w} : cur[v] # h
    BY <2>4, <2>5, OpFacts DEF OwnerInv, CurInv
  <2>9. cur'[w] = h /\ \A v \in Workers \ {w} : cur'[v] = cur[v]
    BY <2>3 DEF TypeOK
  <2> QED
    BY <1>1, <2>6, <2>7, <2>8, <2>9 DEF OnceInv
<1>3. CASE serialQueue[w] = << >>
  BY <1>3 DEF NextSerial, OnceInv
<1> QED
  BY <1>2, <1>3

\* Every step keeps OnceInv.
LEMMA NextOnce ==
    ASSUME TypeOK, OwnerInv, OnceInv, [Next]_vars
    PROVE  OnceInv'
<1>1. CASE Idles
  BY <1>1 DEF Idles, OnceInv
<1>2. ASSUME NEW w \in Workers, ExecuteOp(w) PROVE OnceInv'
  <2>1. /\ cur[w] # 0 /\ done' = done \cup {cur[w]} /\ cur'[w] = 0
        /\ \A v \in Workers \ {w} : cur'[v] = cur[v]
        /\ delayQueue' = delayQueue
    BY <1>2, ExecuteFacts
  <2>2. \A k \in DOMAIN delayQueue : delayQueue[k] # 0
    BY OpFacts DEF OwnerInv, SharedInv
  <2> QED
    BY <2>1, <2>2 DEF OnceInv
<1> QED
  BY <1>1, <1>2, AddOnce, SharedOnce, SerialOnce, StepKinds DEF Takes

\* A step of Database is a step of SerialStore, or changes nothing of it: what
\* a delay thread executes was not executed before, and what was queued before
\* it with its serial id was.
LEMMA StepRefines ==
    ASSUME TypeOK, OwnerInv, OnceInv, [Next]_vars
    PROVE  [Store!Next]_(Store!vars)
<1>1. CASE Adds
  <2>1. PICK s \in Serials, kind \in Kinds : AddToSerialDelayQueue(s, kind) /\ UNCHANGED workerVars
    BY <1>1 DEF Adds
  <2>2. ops' = Append(ops, [serial |-> s, kind |-> kind]) /\ UNCHANGED <<done, row>>
    BY <2>1, AddFacts DEF workerVars
  <2>3. Len(ops') = Len(ops) + 1
    <3>1. ops \in Seq(OpRecord) /\ [serial |-> s, kind |-> kind] \in OpRecord
      BY DEF TypeOK, OpRecord
    <3> QED
      BY <2>2, <3>1, Appended
  <2>4. Store!Queue
    BY <2>2, <2>3 DEF Store!Queue, Kinds
  <2> QED
    BY <2>4 DEF Store!Next
<1>2. CASE UNCHANGED <<ops, done, row>>
  BY <1>2 DEF Store!vars
<1>3. ASSUME NEW w \in Workers, ExecuteOp(w) PROVE Store!Next
  <2>1. cur[w] \in DOMAIN ops /\ cur[w] # 0 /\ done' = done \cup {cur[w]} /\ UNCHANGED ops
    BY <1>3, ExecuteFacts DEF OpIds
  <2>2. cur[w] \notin done
    BY <2>1 DEF OnceInv
  <2>3. SerialOrder
    BY OwnedIsOrdered
  <2>4. ops[cur[w]].serial # 0 => Store!Before(cur[w]) \subseteq done
    BY <2>1, <2>3 DEF SerialOrder, SameSerial, Store!Before, OpIds
  <2>5. row' \in {row} \cup
          (IF ops[cur[w]].kind = "write" THEN {[row EXCEPT ![ops[cur[w]].serial] = cur[w]]} ELSE {})
    BY <1>3 DEF ExecuteOp
  <2>6. Store!Execute(cur[w])
    BY <2>1, <2>2, <2>4, <2>5 DEF Store!Execute
  <2> QED
    BY <2>1, <2>6 DEF Store!Next
<1>4. ASSUME NEW w \in Workers, NextShared(w) \/ NextSerial(w) PROVE UNCHANGED <<ops, done, row>>
  BY <1>4 DEF NextShared, NextSerial
<1> QED
  BY <1>1, <1>2, <1>3, <1>4, StepKinds DEF Takes, Idles

\* For every number of delay threads, game threads and serial ids, the queues
\* of Database and its delay threads implement the ordered store: no operation
\* is executed twice, or before one queued earlier with its serial id.
THEOREM Refinement == Spec => ImplementsSerialStore
<1>1. Init => Store!Init
  BY DEF Init, Store!Init
<1>2. Init => OnceInv
  BY InitOnce
<1>3. TypeOK /\ OwnerInv /\ OnceInv /\ [Next]_vars => OnceInv'
  BY NextOnce
<1>4. TypeOK /\ OwnerInv /\ OnceInv /\ [Next]_vars => [Store!Next]_(Store!vars)
  BY StepRefines
<1> QED
  BY <1>1, <1>2, <1>3, <1>4, Ownership, PTL DEF Spec, ImplementsSerialStore, Store!Spec

-----------------------------------------------------------------------------
(* No operation is lost.                                                   *)

\* Init is a state of KeptInv.
LEMMA InitKept == Init => KeptInv
<1> SUFFICES ASSUME Init PROVE KeptInv
  OBVIOUS
<1>1. OpIds = {}
  BY Empty DEF Init, OpIds
<1>2. \A w \in Workers : Len(serialQueue[w]) <= Len(ops)
  BY DEF Init
<1>3. HaltInv
  BY DEF Init, HaltInv
<1> QED
  BY <1>1, <1>2, <1>3 DEF KeptInv, SharedFoundInv, LengthInv

\* Only a game thread queues operations, before the shutdown.
LEMMA AddOnlyUp ==
    ASSUME NEW t \in Threads, ThreadStep(t)
    PROVE  phase = "up" /\ UNCHANGED workerVars
  BY DEF ThreadStep, Active, BeginTransaction, DelayQueryHolder, Execute, CommitTransaction,
         CommitTransactionDirect, RollbackTransaction, AsyncQuery, ThreadEnds

\* What the shutdown relies on: see HaltInv.
LEMMA NextHalt ==
    ASSUME TypeOK, OwnerInv, HaltInv, [Next]_vars
    PROVE  HaltInv'
<1>1. ASSUME NEW t \in Threads, ThreadStep(t) PROVE HaltInv'
  BY <1>1, AddOnlyUp DEF HaltInv, workerVars
<1>2. ASSUME NEW w \in Workers, LoopTest(w) PROVE HaltInv'
  BY <1>2 DEF LoopTest, queueVars, HaltInv, TypeOK
<1>3. ASSUME NEW w \in Workers, NextShared(w) PROVE HaltInv'
  <2>1. /\ pc[w] = "shared" /\ UNCHANGED <<serialQueue, phase>>
        /\ \A v \in Workers \ {w} : pc'[v] = pc[v] /\ cur'[v] = cur[v]
    BY <1>3 DEF NextShared, TypeOK
  <2>2. CASE delayQueue # << >>
    BY <1>3, <2>1, <2>2 DEF NextShared, HaltInv, TypeOK
  <2>3. CASE delayQueue = << >>
    <3>1. delayQueue' = << >> /\ pc'[w] = "serial" /\ cur'[w] = 0
      BY <1>3, <2>3 DEF NextShared, TypeOK
    <3> QED
      BY <2>1, <2>3, <3>1 DEF HaltInv
  <2> QED
    BY <2>2, <2>3
<1>4. ASSUME NEW w \in Workers, NextSerial(w) PROVE HaltInv'
  <2>1. /\ pc[w] = "serial" /\ UNCHANGED <<delayQueue, phase>> /\ serialQueue \in [Workers -> Seq(Nat)]
        /\ \A v \in Workers \ {w} : pc'[v] = pc[v] /\ cur'[v] = cur[v]
    BY <1>4 DEF NextSerial, TypeOK
  <2>2. CASE serialQueue[w] # << >>
    <3>1. pc' = pc /\ \A v \in Workers \ {w} : serialQueue'[v] = serialQueue[v]
      BY <1>4, <2>1, <2>2 DEF NextSerial
    <3> QED
      BY <2>1, <3>1 DEF HaltInv
  <2>3. CASE serialQueue[w] = << >>
    <3>1. serialQueue' = serialQueue /\ cur'[w] = 0 /\ cur' = cur
      BY <1>4, <2>3 DEF NextSerial
    <3>2. pc'[w] = IF phase = "destroying" THEN "gone" ELSE "loop"
      BY <1>4, <2>3 DEF NextSerial, TypeOK
    <3> QED
      BY <2>1, <2>3, <3>1, <3>2 DEF HaltInv
  <2> QED
    BY <2>2, <2>3
<1>5. ASSUME NEW w \in Workers, ExecuteOp(w) PROVE HaltInv'
  BY <1>5 DEF ExecuteOp, queueVars, HaltInv, TypeOK
<1>6. CASE StopStep
  <2>1. CASE Join
    BY <2>1 DEF Join, queueVars, HaltInv
  <2>2. CASE Halted
    BY <2>2 DEF Halted, queueVars, HaltInv
  <2>3. ASSUME NEW w \in Workers, Stop(w) PROVE HaltInv'
    BY <2>3 DEF Stop, queueVars, HaltInv
  <2>4. ASSUME NEW w \in Workers, DestroyBody(w) PROVE HaltInv'
    BY <2>4 DEF DestroyBody, queueVars, HaltInv, TypeOK
  <2> QED
    BY <1>6, <2>1, <2>2, <2>3, <2>4 DEF StopStep
<1>7. CASE AllowAsyncTransactions \/ StopServer \/ Exited \/ UNCHANGED vars
  BY <1>7 DEF AllowAsyncTransactions, StopServer, Exited, vars, queueVars, workerVars, HaltInv
<1> QED
  BY <1>1, <1>2, <1>3, <1>4, <1>5, <1>6, <1>7 DEF Next, WorkerStep

\* A queue grows only with the operations.
LEMMA NextLength ==
    ASSUME TypeOK, LengthInv, [Next]_vars
    PROVE  LengthInv'
<1>0. Len(ops) \in Nat /\ serialQueue \in [Workers -> Seq(Nat)] /\ \A w \in Workers : Len(serialQueue[w]) \in Nat
  BY Positions DEF TypeOK
<1>1. CASE Adds
  <2>1. PICK s \in Serials, kind \in Kinds : AddToSerialDelayQueue(s, kind)
    BY <1>1 DEF Adds
  <2>2. Len(ops') = Len(ops) + 1
    <3>1. ops \in Seq(OpRecord) /\ [serial |-> s, kind |-> kind] \in OpRecord
      BY DEF TypeOK, OpRecord
    <3> QED
      BY <2>1, <3>1, AddFacts, Appended
  <2>3. ASSUME NEW w \in Workers PROVE Len(serialQueue'[w]) <= Len(serialQueue[w]) + 1
    <3>1. serialQueue'[w] = serialQueue[w] \/ serialQueue'[w] = Append(serialQueue[w], NextOp)
      BY <1>0, <2>1, AddFacts
    <3>2. Len(Append(serialQueue[w], NextOp)) = Len(serialQueue[w]) + 1
      BY <1>0, <2>1, AddFacts, Appended
    <3> QED
      BY <1>0, <3>1, <3>2
  <2> QED
    BY <1>0, <2>2, <2>3 DEF LengthInv
<1>2. CASE UNCHANGED <<ops, serialQueue>>
  BY <1>2 DEF LengthInv
<1>3. ASSUME NEW w \in Workers, NextSerial(w) PROVE LengthInv'
  <2>1. ops' = ops
    BY <1>3 DEF NextSerial
  <2>2. CASE serialQueue[w] # << >>
    <3>1. serialQueue' = [serialQueue EXCEPT ![w] = Tail(@)]
      BY <1>3, <2>2 DEF NextSerial
    <3>2. Len(Tail(serialQueue[w])) = Len(serialQueue[w]) - 1
      BY <1>0, <2>2, Beheaded
    <3> QED
      BY <1>0, <2>1, <3>1, <3>2 DEF LengthInv
  <2>3. CASE serialQueue[w] = << >>
    BY <1>3, <2>3 DEF NextSerial, LengthInv
  <2> QED
    BY <2>2, <2>3
<1>4. \/ Adds \/ UNCHANGED <<ops, serialQueue>> \/ \E w \in Workers : NextSerial(w)
  BY StepKinds DEF Idles, Takes, NextShared, ExecuteOp, queueVars
<1> QED
  BY <1>1, <1>2, <1>3, <1>4

\* An operation without a serial id goes from the shared queue to a delay thread
\* and is executed there.
LEMMA NextSharedFound ==
    ASSUME TypeOK, OwnerInv, SharedFoundInv, [Next]_vars
    PROVE  SharedFoundInv'
<1>0. delayQueue \in Seq(Nat) /\ cur \in [Workers -> Nat]
  BY DEF TypeOK
<1>1. CASE Adds
  <2>1. PICK s \in Serials, kind \in Kinds : AddToSerialDelayQueue(s, kind) /\ UNCHANGED workerVars
    BY <1>1 DEF Adds
  <2>2. UNCHANGED <<cur, done>>
    BY <2>1 DEF workerVars
  <2>3. PICK n : n = NextOp
    OBVIOUS
  <2>4. OpIds' = OpIds \cup {n} /\ Serial(n)' = s /\ \A i \in OpIds : Serial(i)' = Serial(i)
    <3>1. ops \in Seq(OpRecord) /\ [serial |-> s, kind |-> kind] \in OpRecord
      BY DEF TypeOK, OpRecord
    <3>2. ops' = Append(ops, [serial |-> s, kind |-> kind])
      BY <2>1, AddFacts
    <3> QED
      BY <2>3, <3>1, <3>2, Grow DEF OpIds, NextOp, Serial
  <2>5. \A i : (\E k \in DOMAIN delayQueue : delayQueue[k] = i) =>
               \E k \in DOMAIN delayQueue' : delayQueue'[k] = i
    <3>1. CASE s = 0
      <4>1. delayQueue' = Append(delayQueue, n) /\ n \in Nat
        BY <2>1, <2>3, <3>1, AddFacts
      <4> QED
        BY <1>0, <4>1, Grow
    <3>2. CASE s # 0
      BY <2>1, <3>2, AddFacts
    <3> QED
      BY <3>1, <3>2
  <2>6. s = 0 => \E k \in DOMAIN delayQueue' : delayQueue'[k] = n
    <3> SUFFICES ASSUME s = 0 PROVE \E k \in DOMAIN delayQueue' : delayQueue'[k] = n
      OBVIOUS
    <3>1. delayQueue' = Append(delayQueue, n) /\ n \in Nat
      BY <2>1, <2>3, AddFacts
    <3> QED
      BY <1>0, <3>1, Grow
  <2> QED
    BY <2>2, <2>4, <2>5, <2>6 DEF SharedFoundInv
<1>2. CASE Idles
  BY <1>2 DEF Idles, SharedFoundInv, OpIds, Serial
<1>3. ASSUME NEW w \in Workers, NextShared(w) PROVE SharedFoundInv'
  <2>1. cur[w] = 0 /\ UNCHANGED <<ops, done>> /\ OpIds' = OpIds /\ \A i : Serial(i)' = Serial(i)
    BY <1>3 DEF NextShared, OpIds, Serial
  <2>2. CASE delayQueue # << >>
    <3>1. cur'[w] = Head(delayQueue) /\ (\A v \in Workers \ {w} : cur'[v] = cur[v]) /\ delayQueue' = Tail(delayQueue)
      BY <1>0, <1>3, <2>2 DEF NextShared
    <3>2. \A i : (\E k \in DOMAIN delayQueue : delayQueue[k] = i) =>
                 i = Head(delayQueue) \/ \E k \in DOMAIN delayQueue' : delayQueue'[k] = i
      <4>1. \A k \in DOMAIN delayQueue : k = 1 \/ (k - 1 \in DOMAIN Tail(delayQueue) /\ Tail(delayQueue)[k - 1] = delayQueue[k])
        BY <1>0, <2>2, Shrink
      <4>2. Head(delayQueue) = delayQueue[1]
        BY <1>0, <2>2, Shrink
      <4>3. ASSUME NEW k \in DOMAIN delayQueue, delayQueue[k] # Head(delayQueue)
            PROVE  \E j \in DOMAIN delayQueue' : delayQueue'[j] = delayQueue[k]
        BY <3>1, <4>1, <4>2, <4>3
      <4> QED
        BY <4>3
    <3>3. \A i \in OpIds : i # 0
      BY OpFacts
    <3> QED
      BY <2>1, <3>1, <3>2, <3>3 DEF SharedFoundInv
  <2>3. CASE delayQueue = << >>
    BY <1>3, <2>1, <2>3 DEF NextShared, SharedFoundInv
  <2> QED
    BY <2>2, <2>3
<1>4. ASSUME NEW w \in Workers, NextSerial(w) PROVE SharedFoundInv'
  <2>1. cur[w] = 0 /\ UNCHANGED <<ops, done, delayQueue>> /\ OpIds' = OpIds /\ \A i : Serial(i)' = Serial(i)
    BY <1>4 DEF NextSerial, OpIds, Serial
  <2>2. \A v \in Workers \ {w} : cur'[v] = cur[v]
    BY <1>0, <1>4 DEF NextSerial
  <2>3. \A i \in OpIds : i # 0
    BY OpFacts
  <2> QED
    BY <2>1, <2>2, <2>3 DEF SharedFoundInv
<1>5. ASSUME NEW w \in Workers, ExecuteOp(w) PROVE SharedFoundInv'
  <2>1. /\ done' = done \cup {cur[w]} /\ UNCHANGED <<ops, delayQueue>>
        /\ \A v \in Workers \ {w} : cur'[v] = cur[v]
    BY <1>5, ExecuteFacts
  <2>2. OpIds' = OpIds /\ \A i : Serial(i)' = Serial(i)
    BY <2>1 DEF OpIds, Serial
  <2> QED
    BY <2>1, <2>2 DEF SharedFoundInv
<1> QED
  BY <1>1, <1>2, <1>3, <1>4, <1>5, StepKinds DEF Takes

\* In the places of ExecutedOnce each operation is found, once.
LEMMA FoundOnce ==
    ASSUME TypeOK, OwnerInv, OnceInv, KeptInv, NEW i \in OpIds
    PROVE    Cardinality({k \in DOMAIN delayQueue : delayQueue[k] = i})
           + Cardinality({p \in Workers \X OpIds : /\ p[2] \in DOMAIN serialQueue[p[1]]
                                                 /\ serialQueue[p[1]][p[2]] = i})
           + Cardinality({w \in Workers : cur[w] = i})
           + Cardinality({i} \cap done) = 1
<1> DEFINE Sh == \E k \in DOMAIN delayQueue : delayQueue[k] = i
           P == {p \in Workers \X OpIds : p[2] \in DOMAIN serialQueue[p[1]] /\ serialQueue[p[1]][p[2]] = i}
           C == {w \in Workers : cur[w] = i}
<1>0. i \in Nat \ {0} /\ delayQueue \in Seq(Nat) /\ \A w \in Workers : serialQueue[w] \in Seq(Nat)
  BY OpFacts DEF TypeOK
<1>1. Cardinality({k \in DOMAIN delayQueue : delayQueue[k] = i}) = IF Sh THEN 1 ELSE 0
  <2>1. \A j, k \in DOMAIN delayQueue : j < k => delayQueue[j] < delayQueue[k]
    BY DEF OnceInv
  <2> QED
    BY <1>0, <2>1, CountOccurrences
<1>2. ASSUME NEW w \in Workers, NEW k \in DOMAIN serialQueue[w], serialQueue[w][k] = i
      PROVE  Serial(i) # 0 /\ Owner(i) = w /\ k \in OpIds
  <2>1. DOMAIN serialQueue[w] = 1 .. Len(serialQueue[w]) /\ Len(serialQueue[w]) \in Nat
    BY <1>0, Positions
  <2>2. OpIds = 1 .. Len(ops) /\ Len(ops) \in Nat
    BY Positions DEF TypeOK, OpIds
  <2>3. k \in OpIds
    BY <2>1, <2>2 DEF KeptInv, LengthInv
  <2> QED
    BY <1>2, <2>3 DEF OwnerInv, QueueInv
<1>3. Cardinality(P) = IF \E w \in Workers : InSerialQueue(w, i) THEN 1 ELSE 0
  <2>1. ASSUME NEW p \in P, NEW q \in P PROVE p = q
    <3>1. /\ p[1] \in Workers /\ p[2] \in DOMAIN serialQueue[p[1]] /\ serialQueue[p[1]][p[2]] = i
          /\ q[1] \in Workers /\ q[2] \in DOMAIN serialQueue[q[1]] /\ serialQueue[q[1]][q[2]] = i
          /\ p = <<p[1], p[2]>> /\ q = <<q[1], q[2]>> /\ p[2] \in OpIds /\ q[2] \in OpIds
      OBVIOUS
    <3>2. p[1] = q[1]
      BY <1>2, <3>1
    <3>3. ~(p[2] < q[2]) /\ ~(q[2] < p[2])
      BY <1>0, <3>1, <3>2 DEF OwnerInv, QueueInv
    <3>4. p[2] = q[2]
      BY <3>1, <3>3, OpFacts
    <3> QED
      BY <3>1, <3>2, <3>4
  <2>2. Cardinality(P) = IF P = {} THEN 0 ELSE 1
    BY <2>1, CountOne
  <2>3. P # {} <=> \E w \in Workers : InSerialQueue(w, i)
    <3>1. ASSUME NEW p \in P PROVE InSerialQueue(p[1], i) /\ p[1] \in Workers
      BY <3>1 DEF InSerialQueue
    <3>2. ASSUME NEW w \in Workers, InSerialQueue(w, i) PROVE P # {}
      <4>1. PICK k \in DOMAIN serialQueue[w] : serialQueue[w][k] = i
        BY <3>2 DEF InSerialQueue
      <4>2. <<w, k>> \in P
        BY <1>2, <4>1
      <4> QED
        BY <4>2
    <3> QED
      BY <3>1, <3>2
  <2> HIDE DEF P
  <2> QED
    BY <2>2, <2>3
<1>4. Cardinality(C) = IF \E w \in Workers : cur[w] = i THEN 1 ELSE 0
  <2>1. \A v, w \in C : v = w
    BY <1>0 DEF OnceInv
  <2> QED
    BY <2>1, CountOne
<1>5. Cardinality({i} \cap done) = IF i \in done THEN 1 ELSE 0
  <2>1. \A x, y \in {i} \cap done : x = y
    OBVIOUS
  <2> QED
    BY <2>1, CountOne
<1> DEFINE Se == \E w \in Workers : InSerialQueue(w, i)
           Cu == \E w \in Workers : cur[w] = i
<1>6. Sh => Serial(i) = 0 /\ i \notin done /\ ~Cu
  BY DEF OwnerInv, SharedInv, OnceInv
<1>7. Cu => i \notin done
  BY <1>0 DEF OnceInv
<1>8. ASSUME NEW w \in Workers, InSerialQueue(w, i)
      PROVE  Serial(i) # 0 /\ i \notin done /\ ~Cu
  <2>1. PICK k \in DOMAIN serialQueue[w] : serialQueue[w][k] = i
    BY <1>8 DEF InSerialQueue
  <2>2. Serial(i) # 0 /\ Owner(i) = w
    BY <1>2, <2>1
  <2>3. i \notin done
    BY <1>0, <2>1, <2>2 DEF OwnerInv, DoneInv
  <2>4. ASSUME NEW v \in Workers, cur[v] = i PROVE FALSE
    BY <1>0, <2>1, <2>2, <2>4 DEF OwnerInv, CurInv
  <2> QED
    BY <2>2, <2>3, <2>4
<1>9. Sh \/ Se \/ Cu \/ i \in done
  <2>1. CASE Serial(i) = 0
    BY <2>1 DEF KeptInv, SharedFoundInv
  <2>2. CASE Serial(i) # 0
    <3>1. Owner(i) \in Workers
      BY <2>2, OpFacts
    <3> QED
      BY <2>2, <3>1 DEF OwnerInv, FoundInv
  <2> QED
    BY <2>1, <2>2
<1>10. Se => Serial(i) # 0 /\ i \notin done /\ ~Cu
  BY <1>8
<1> HIDE DEF Sh, Se, Cu, P, C
<1>11. Cardinality(P) = (IF Se THEN 1 ELSE 0) /\ Cardinality(C) = (IF Cu THEN 1 ELSE 0)
  BY <1>3, <1>4 DEF Se, Cu
<1>12. Cardinality({k \in DOMAIN delayQueue : delayQueue[k] = i}) + Cardinality(P) + Cardinality(C)
        + Cardinality({i} \cap done) = 1
  BY <1>1, <1>5, <1>6, <1>7, <1>9, <1>10, <1>11
<1> QED
  BY <1>12 DEF P, C

\* No operation is lost or executed twice, and none is left when StopServer()
\* has halted the delay threads.
THEOREM NothingLost == Spec => []ExecutedOnce
<1>1. TypeOK /\ OwnerInv /\ KeptInv /\ [Next]_vars => KeptInv'
  BY NextHalt, NextLength, NextSharedFound DEF KeptInv
<1>2. TypeOK /\ OwnerInv /\ OnceInv /\ [Next]_vars => OnceInv'
  BY NextOnce
<1>3. TypeOK /\ OwnerInv /\ OnceInv /\ KeptInv => ExecutedOnce
  <2> SUFFICES ASSUME TypeOK, OwnerInv, OnceInv, KeptInv PROVE ExecutedOnce
    OBVIOUS
  <2>1. ASSUME phase = "halted" PROVE done = OpIds
    <3>1. 0 \in Workers
      BY DatabaseAssumption DEF Workers
    <3>2. delayQueue = << >> /\ \A w \in Workers : serialQueue[w] = << >> /\ cur[w] = 0
      BY <2>1, <3>1 DEF KeptInv, HaltInv
    <3>3. DOMAIN delayQueue = {} /\ \A w \in Workers : DOMAIN serialQueue[w] = {}
      BY <3>2
    <3>4. ASSUME NEW i \in OpIds PROVE i \in done
      <4>1. i # 0 /\ (Serial(i) # 0 => Owner(i) \in Workers)
        BY OpFacts
      <4> QED
        BY <3>2, <3>3, <4>1 DEF KeptInv, SharedFoundInv, OwnerInv, FoundInv, InSerialQueue
    <3> QED
      BY <3>4 DEF OwnerInv, DoneInv
  <2> QED
    BY <2>1, FoundOnce DEF ExecutedOnce
<1> QED
  BY <1>1, <1>2, <1>3, InitKept, InitOnce, Ownership, PTL DEF Spec
=============================================================================
