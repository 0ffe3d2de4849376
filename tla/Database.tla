------------------------------ MODULE Database ------------------------------
(***************************************************************************)
(* The asynchronous side of src/shared/Database: the transactions the game *)
(* threads collect, the shared delay queue, the serial queues of the delay *)
(* threads (SqlDelayThread) that execute what is in them, and the shutdown *)
(* in HaltDelayThread.                                                     *)
(*                                                                         *)
(* An operation is known by its number: operations are numbered in the     *)
(* order in which they enter a queue.  The SQL is abstracted to what the   *)
(* order of execution can be seen by: a write with serial id s replaces    *)
(* the row of s (the character with guid s), a read looks at it.           *)
(***************************************************************************)
EXTENDS Integers, Sequences, FiniteSets

CONSTANTS
    Threads,     \* the game threads that use this database
    NWorkers,    \* WorkerThreads: the number of delay threads
    Serials,     \* the serial ids in use, 0 for "none"
    MaxOps       \* bound: operations queued in one behaviour

ASSUME DatabaseAssumption ==
    /\ NWorkers \in Nat \ {0}
    /\ Serials \subseteq Nat /\ 0 \in Serials
    /\ MaxOps \in Nat

VARIABLES
    allow,        \* m_bAllowAsyncTransactions
    trans,        \* m_TransStorage of each thread
    left,         \* the game threads that have been joined by the shutdown
    ops,          \* the operations queued so far
    delayQueue,   \* m_delayQueue
    serialQueue,  \* SqlDelayThread::m_serialDelayQueue of each delay thread
    running,      \* SqlDelayThread::m_running
    pc,           \* where each SqlDelayThread is; "gone" after its destructor
    cur,          \* the operation it executes, 0 if none
    phase,        \* where StopServer is
    done,         \* the operations that have been executed
    row           \* the write that each row holds, 0 at first

clientVars == <<allow, trans, left>>
queueVars == <<ops, delayQueue, serialQueue>>
workerVars == <<running, pc, cur, phase, done, row>>
vars == <<clientVars, queueVars, workerVars>>

Workers == 0 .. NWorkers - 1
NoTrans == [serial |-> 0, open |-> FALSE, filled |-> FALSE]
Trans == {NoTrans} \cup [serial : Serials, open : {TRUE}, filled : BOOLEAN]
Kinds == {"write", "read"}
OpIds == DOMAIN ops
NextOp == Len(ops) + 1

Init ==
    /\ allow = FALSE
    /\ trans = [t \in Threads |-> NoTrans]
    /\ left = {}
    /\ ops = << >>
    /\ delayQueue = << >>
    /\ serialQueue = [w \in Workers |-> << >>]
    /\ running = [w \in Workers |-> TRUE]
    /\ pc = [w \in Workers |-> "loop"]
    /\ cur = [w \in Workers |-> 0]
    /\ phase = "up"
    /\ done = {}
    /\ row = [s \in Serials |-> 0]

-----------------------------------------------------------------------------
(* The game threads.                                                       *)

\* Every operation carries its serial id and what it does to the row.
Queued(s, kind) == ops' = Append(ops, [serial |-> s, kind |-> kind])

AddToDelayQueue(s, kind) ==
    /\ Len(ops) < MaxOps
    /\ Queued(s, kind)
    /\ delayQueue' = Append(delayQueue, NextOp)
    /\ UNCHANGED serialQueue

\* Mutant of AddToSerialDelayQueue: the load is balanced instead.
AddToSerialDelayQueueBalanced(s, kind) ==
    IF s = 0 THEN AddToDelayQueue(s, kind)
    ELSE /\ Len(ops) < MaxOps
         /\ Queued(s, kind)
         /\ \E w \in Workers : serialQueue' = [serialQueue EXCEPT ![w] = Append(@, NextOp)]
         /\ UNCHANGED delayQueue

\* m_numAsyncWorkers is NWorkers as long as a game thread is there to add.
AddToSerialDelayQueue(s, kind) ==
    IF s = 0 THEN AddToDelayQueue(s, kind)
    ELSE /\ Len(ops) < MaxOps
         /\ Queued(s, kind)
         /\ serialQueue' = [serialQueue EXCEPT ![s % NWorkers] = Append(@, NextOp)]
         /\ UNCHANGED delayQueue

Active(t) == t \notin left /\ phase = "up"

\* AllowAsyncTransactions(), once at the end of the start-up.
AllowAsyncTransactions ==
    /\ ~allow /\ phase = "up"
    /\ allow' = TRUE
    /\ UNCHANGED <<trans, left, queueVars, workerVars>>

\* BeginTransaction(s): refused when the thread has one open.
BeginTransaction(t, s) ==
    /\ Active(t) /\ ~trans[t].open
    /\ trans' = [trans EXCEPT ![t] = [serial |-> s, open |-> TRUE, filled |-> FALSE]]
    /\ UNCHANGED <<allow, left, queueVars, workerVars>>

\* Execute(), ExecuteStmt(): into the open transaction, else to the shared
\* queue.  Before async transactions are allowed it runs at once on the
\* synchronous connection, which no serial id and no queue is involved in.
Execute(t) ==
    /\ Active(t)
    /\ IF trans[t].open
       THEN /\ trans' = [trans EXCEPT ![t].filled = TRUE]
            /\ UNCHANGED queueVars
       ELSE /\ allow
            /\ AddToDelayQueue(0, "write")
            /\ UNCHANGED trans
    /\ UNCHANGED <<allow, left, workerVars>>

\* CommitTransaction(): the serial id decides on the queue.  A transaction
\* without statements is queued too; like a read it leaves the rows alone.
CommitTransaction(t) ==
    /\ Active(t) /\ trans[t].open /\ allow
    /\ AddToSerialDelayQueue(trans[t].serial, IF trans[t].filled THEN "write" ELSE "read")
    /\ trans' = [trans EXCEPT ![t] = NoTrans]
    /\ UNCHANGED <<allow, left, workerVars>>

\* CommitTransactionDirect(), which CommitTransaction() turns into during the
\* start-up: the calling thread executes the transaction on m_pAsyncConn.  A
\* statement may fail, then nothing of it is kept.  At run time the callers
\* (MailDraft::SendMailTo, PlayerDump) have transactions without serial id,
\* and it is none of the numbered operations: it never waits in a queue.
CommitTransactionDirect(t) ==
    /\ Active(t) /\ trans[t].open
    /\ allow => trans[t].serial = 0
    /\ trans' = [trans EXCEPT ![t] = NoTrans]
    /\ UNCHANGED <<allow, left, queueVars, workerVars>>

\* RollbackTransaction(): TransHelper::reset() drops the statements.
RollbackTransaction(t) ==
    /\ Active(t) /\ trans[t].open
    /\ trans' = [trans EXCEPT ![t] = NoTrans]
    /\ UNCHANGED <<allow, left, queueVars, workerVars>>

\* AsyncQuery() always goes to the shared queue, a SqlQueryHolder to the
\* serial queue of its id (the guid, for the holder of a login).
AsyncQuery(t) ==
    /\ Active(t)
    /\ AddToDelayQueue(0, "read")
    /\ UNCHANGED <<clientVars, workerVars>>

DelayQueryHolder(t, s) ==
    /\ Active(t)
    /\ AddToSerialDelayQueue(s, "read")
    /\ UNCHANGED <<clientVars, workerVars>>

\* Master::Run joins the thread; ~TransHelper drops an open transaction.
ThreadEnds(t) ==
    /\ Active(t)
    /\ left' = left \cup {t}
    /\ trans' = [trans EXCEPT ![t] = NoTrans]
    /\ UNCHANGED <<allow, queueVars, workerVars>>

-----------------------------------------------------------------------------
(* A delay thread, and the destructor that does its work once more.        *)

\* run(): while (m_running) { sleep; ProcessRequests(); ping }
LoopTest(w) ==
    /\ pc[w] = "loop"
    /\ pc' = [pc EXCEPT ![w] = IF running[w] THEN "shared" ELSE "exited"]
    /\ UNCHANGED <<clientVars, queueVars, running, cur, phase, done, row>>

\* ProcessRequests(), first loop: the next operation of the shared queue.
NextShared(w) ==
    /\ pc[w] = "shared" /\ cur[w] = 0
    /\ IF delayQueue # << >>
       THEN /\ cur' = [cur EXCEPT ![w] = Head(delayQueue)]
            /\ delayQueue' = Tail(delayQueue)
            /\ UNCHANGED pc
       ELSE /\ pc' = [pc EXCEPT ![w] = "serial"]
            /\ UNCHANGED <<cur, delayQueue>>
    /\ UNCHANGED <<clientVars, ops, serialQueue, running, phase, done, row>>

\* Second loop: the next operation of the own serial queue; when there is none
\* ProcessRequests() returns to run() or to the destructor.
NextSerial(w) ==
    /\ pc[w] = "serial" /\ cur[w] = 0
    /\ IF serialQueue[w] # << >>
       THEN /\ cur' = [cur EXCEPT ![w] = Head(serialQueue[w])]
            /\ serialQueue' = [serialQueue EXCEPT ![w] = Tail(@)]
            /\ UNCHANGED pc
       ELSE /\ pc' = [pc EXCEPT ![w] = IF phase = "destroying" THEN "gone" ELSE "loop"]
            /\ UNCHANGED <<cur, serialQueue>>
    /\ UNCHANGED <<clientVars, ops, delayQueue, running, phase, done, row>>

\* SqlOperation::Execute on the connection of w, then delete.  It fails or has
\* its effect; a transaction that fails is rolled back.
ExecuteOp(w) ==
    /\ cur[w] # 0
    /\ row' \in {row} \cup
         (IF ops[cur[w]].kind = "write" THEN {[row EXCEPT ![ops[cur[w]].serial] = cur[w]]} ELSE {})
    /\ done' = done \cup {cur[w]}
    /\ cur' = [cur EXCEPT ![w] = 0]
    /\ UNCHANGED <<clientVars, queueVars, running, pc, phase>>

-----------------------------------------------------------------------------
(* StopServer() on the main thread, when the game threads are gone.        *)

StopServer ==
    /\ phase = "up" /\ left = Threads
    /\ phase' = "stopping"
    /\ UNCHANGED <<clientVars, queueVars, running, pc, cur, done, row>>

\* Mutant of Stop: the loop over the threads ends one too early.
StopAllButLast(w) ==
    /\ phase = "stopping" /\ running[w] /\ w < NWorkers - 1
    /\ running' = [running EXCEPT ![w] = FALSE]
    /\ UNCHANGED <<clientVars, queueVars, pc, cur, phase, done, row>>

\* SqlDelayThread::Stop(), for one thread after the other.
Stop(w) ==
    /\ phase = "stopping" /\ running[w]
    /\ running' = [running EXCEPT ![w] = FALSE]
    /\ UNCHANGED <<clientVars, queueVars, pc, cur, phase, done, row>>

\* The joins of HaltDelayThread(), all of them.
Join ==
    /\ phase = "stopping"
    /\ \A w \in Workers : ~running[w] /\ pc[w] = "exited"
    /\ phase' = "destroying"
    /\ UNCHANGED <<clientVars, queueVars, running, pc, cur, done, row>>

\* Mutant of DestroyBody: the destructor does not process what is left.
DestroyBodyAtOnce(w) ==
    /\ phase = "destroying" /\ pc[w] = "exited"
    /\ \A v \in Workers : v < w => pc[v] = "gone"
    /\ pc' = [pc EXCEPT ![w] = "gone"]
    /\ UNCHANGED <<clientVars, queueVars, running, cur, phase, done, row>>

\* m_threadsBodies.clear(): ~SqlDelayThread() calls ProcessRequests() first.
DestroyBody(w) ==
    /\ phase = "destroying" /\ pc[w] = "exited"
    /\ \A v \in Workers : v < w => pc[v] = "gone"
    /\ pc' = [pc EXCEPT ![w] = "shared"]
    /\ UNCHANGED <<clientVars, queueVars, running, cur, phase, done, row>>

Halted ==
    /\ phase = "destroying" /\ \A w \in Workers : pc[w] = "gone"
    /\ phase' = "halted"
    /\ UNCHANGED <<clientVars, queueVars, running, pc, cur, done, row>>

-----------------------------------------------------------------------------
ThreadStep(t) ==
    \/ \E s \in Serials : BeginTransaction(t, s) \/ DelayQueryHolder(t, s)
    \/ Execute(t) \/ CommitTransaction(t) \/ CommitTransactionDirect(t)
    \/ RollbackTransaction(t) \/ AsyncQuery(t) \/ ThreadEnds(t)

WorkerStep(w) == LoopTest(w) \/ NextShared(w) \/ NextSerial(w) \/ ExecuteOp(w)

StopStep ==
    \/ Join \/ Halted
    \/ \E w \in Workers : Stop(w) \/ DestroyBody(w)

\* The process exits after the shutdown.
Exited == phase = "halted" /\ UNCHANGED vars

Next ==
    \/ AllowAsyncTransactions
    \/ \E t \in Threads : ThreadStep(t)
    \/ \E w \in Workers : WorkerStep(w)
    \/ StopServer \/ StopStep
    \/ Exited

Spec == Init /\ [][Next]_vars

\* The delay threads run, and StopServer() goes on once it was called.
Fairness ==
    /\ \A w \in Workers : WF_vars(WorkerStep(w))
    /\ WF_vars(StopStep)

LiveSpec == Spec /\ Fairness

-----------------------------------------------------------------------------
TypeOK ==
    /\ allow \in BOOLEAN
    /\ trans \in [Threads -> Trans]
    /\ left \subseteq Threads
    /\ ops \in Seq([serial : Serials, kind : Kinds])
    /\ delayQueue \in Seq(Nat)
    /\ serialQueue \in [Workers -> Seq(Nat)]
    /\ running \in [Workers -> BOOLEAN]
    /\ pc \in [Workers -> {"loop", "shared", "serial", "exited", "gone"}]
    /\ cur \in [Workers -> Nat]
    /\ phase \in {"up", "stopping", "destroying", "halted"}
    /\ done \subseteq Nat
    /\ row \in [Serials -> Nat]

SameSerial(i, j) == ops[i].serial = ops[j].serial /\ ops[j].serial # 0

\* "Must be serialized in a transaction with the player GUID" (Player.cpp:
\* 18565): while an operation with a serial id is executed, every operation
\* that was queued before it with that id has been executed, and no other one
\* with that id is being executed.
SerialOrder ==
    \A w \in Workers : cur[w] # 0 =>
        \A i \in OpIds : (i < cur[w] /\ SameSerial(i, cur[w])) => i \in done

\* The row of a serial id never goes back to an earlier write.
RowNeverGoesBack == [][\A s \in Serials \ {0} : row'[s] >= row[s]]_vars

\* No operation is lost or executed twice: it is in one queue, or with one
\* delay thread, or executed; when StopServer() has halted the delay threads
\* all of them have been executed, also those still queued when the delay
\* threads left their loops.
ExecutedOnce ==
    /\ \A i \in OpIds :
          Cardinality({k \in DOMAIN delayQueue : delayQueue[k] = i})
        + Cardinality({p \in Workers \X OpIds : /\ p[2] \in DOMAIN serialQueue[p[1]]
                                              /\ serialQueue[p[1]][p[2]] = i})
        + Cardinality({w \in Workers : cur[w] = i})
        + Cardinality({i} \cap done) = 1
    /\ phase = "halted" => done = OpIds

(* What the game expects, as a specification of its own.                   *)
Store == INSTANCE SerialStore

\* The queues and the delay threads are an ordered store: whichever threads
\* queue and execute them, each operation is executed at most once, and after
\* all that were queued before it with its serial id.
ImplementsSerialStore == Store!Spec

\* The delay threads catch up and a shutdown comes to its end: at any time
\* there is a later one at which all that was queued has been executed and
\* StopServer() is not under way.  So every operation is executed in the end
\* (done only grows) and a StopServer() that was called returns (phase never
\* goes back to "up").
CatchesUp == []<>(done = OpIds /\ phase \in {"up", "halted"})
=============================================================================
