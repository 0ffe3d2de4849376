----------------------------- MODULE ThreadPool -----------------------------
(***************************************************************************)
(* The fork/join thread pool of src/shared/ThreadPool.{h,cpp}: one client  *)
(* thread fills a workload, hands it to the workers with processWorkload   *)
(* and waits for the future it gets back.  The world tick, the map update, *)
(* the cell, motion, object and visibility updates and the database        *)
(* callbacks all run on such a pool.                                       *)
(*                                                                         *)
(* m_mutex is not a variable: each of its critical sections is one step.   *)
(* A task is a number that is never used twice, so that running a task of  *)
(* an earlier workload again is visible; what a task does is not modelled, *)
(* only that it returns or throws.                                         *)
(***************************************************************************)
EXTENDS Integers, Sequences, FiniteSets

CONSTANTS
    Size,        \* m_size, the number of threads
    Queue,       \* "sq" (worker_sq) or "mq" (worker_mq)
    Clear,       \* m_clearMode
    ErrorMode,   \* m_errorHandling
    MaxLoad,     \* bound: tasks in one workload
    MaxTask      \* bound: tasks created in one behaviour

ASSUME PoolAssumption ==
    /\ Size \in Nat
    /\ Queue \in {"sq", "mq"}
    /\ Clear \in {"UPPON_COMPLETION", "AT_NEXT_WORKLOAD"}
    /\ ErrorMode \in {"NONE", "IGNORE", "LOG", "TERMINATE"}
    /\ MaxLoad \in Nat /\ MaxTask \in Nat

VARIABLES
    status,      \* m_status
    workload,    \* m_workload
    dirty,       \* m_dirty
    active,      \* m_active
    index,       \* m_index
    errors,      \* m_errors, as the set of tasks whose exception it holds
    result,      \* the shared state of m_result: "none", "pending", "ready"
    busy,        \* worker::busy
    it,          \* worker_mq::it
    cur,         \* the local i (worker_sq) or w (worker_mq) of doWork
    pc,          \* where each worker thread is in loop()
    client,      \* where the owner of the pool is
    nextTask,    \* the next unused task
    ran,         \* history: how often each task was started
    lastLoad     \* history: the tasks of the last accepted workload

poolVars == <<status, workload, dirty, active, index, errors, result>>
workerVars == <<busy, it, cur, pc>>
history == <<nextTask, ran, lastLoad>>
vars == <<poolVars, workerVars, client, history>>

Workers == 0 .. Size - 1
Tasks == 1 .. MaxTask
Statuses == {"STOPPED", "READY", "PROCESSING", "TERMINATING"}
WorkerPCs == {"none", "wait", "blocked", "woken", "fetch", "test", "run",
              "push", "post", "dec", "complete", "set", "exited"}
ClientPCs == {"idle", "prepare", "waiting", "joining", "gone"}
InDoWork == {"fetch", "test", "run"}
TasksOf(load) == {load[i] : i \in DOMAIN load}
Fresh(n) == [k \in 1 .. n |-> nextTask + k - 1]

Init ==
    /\ status = "STOPPED" /\ workload = << >> /\ dirty = FALSE
    /\ active = 0 /\ index = 0 /\ errors = {} /\ result = "none"
    /\ busy = [w \in Workers |-> FALSE]
    /\ it = [w \in Workers |-> 0]
    /\ cur = [w \in Workers |-> 0]
    /\ pc = [w \in Workers |-> "none"]
    /\ client = "idle"
    /\ nextTask = 1
    /\ ran = [t \in Tasks |-> 0]
    /\ lastLoad = {}

-----------------------------------------------------------------------------
(* The owner of the pool.  Every caller in the repository waits for the    *)
(* future before it touches the pool again, so the client does too.        *)

\* notify_all(): every thread blocked on m_waitForWork re-evaluates its loop.
Notified == [w \in Workers |-> IF pc[w] = "blocked" THEN "wait" ELSE pc[w]]

\* start(): returns at once when already started or when m_size is 0.
Start ==
    /\ client = "idle" /\ status = "STOPPED" /\ Size > 0
    /\ status' = "READY"
    /\ pc' = [w \in Workers |-> "wait"]
    /\ UNCHANGED <<workload, dirty, active, index, errors, result, busy, it,
                   cur, client, history>>

\* operator<<: throws while a load is processed, else appends one task.
AppendTask ==
    LET load == IF Clear = "AT_NEXT_WORKLOAD" /\ dirty THEN << >> ELSE workload
    IN /\ client = "idle" /\ status # "PROCESSING"
       /\ Len(load) < MaxLoad /\ nextTask <= MaxTask
       /\ workload' = Append(load, nextTask)
       /\ dirty' = (dirty /\ Clear # "AT_NEXT_WORKLOAD")
       /\ nextTask' = nextTask + 1
       /\ UNCHANGED <<status, active, index, errors, result, workerVars,
                      client, ran, lastLoad>>

\* The part of processWorkload() that accepts `load': everything up to the
\* point where it takes m_mutex.
Accept(load) ==
    /\ result' = "pending"
    /\ workload' = load
    /\ dirty' = TRUE
    /\ active' = IF Size < Len(load) THEN Size ELSE Len(load)
    /\ index' = 0
    /\ status' = "PROCESSING"
    /\ lastLoad' = TasksOf(load)
    /\ client' = "prepare"

\* processWorkload() that returns an invalid future: m_workload and m_dirty
\* are left as `load' and `d', nothing is started.
Refuse(load, d) ==
    /\ workload' = load
    /\ dirty' = d
    /\ UNCHANGED <<status, active, index, result, lastLoad, client>>

\* Mutant of Process: the processed workload is not cleared.
ProcessStale ==
    /\ client = "idle"
    /\ IF status # "READY" \/ workload = << >>
       THEN Refuse(workload, dirty)
       ELSE Accept(workload)
    /\ UNCHANGED <<errors, workerVars, nextTask, ran>>

\* processWorkload(pre, post) on what operator<< collected.
Process ==
    LET clear == Clear = "AT_NEXT_WORKLOAD" /\ status = "READY" /\ dirty
        load == IF clear THEN << >> ELSE workload
    IN /\ client = "idle"
       /\ IF status # "READY" \/ load = << >>
          THEN Refuse(load, dirty /\ ~clear)
          ELSE Accept(load)
       /\ UNCHANGED <<errors, workerVars, nextTask, ran>>

\* processWorkload(workload, pre, post): copies or moves in n tasks of the
\* caller, and clears m_dirty so that they survive AT_NEXT_WORKLOAD.
ProcessWith(n) ==
    /\ client = "idle" /\ nextTask + n - 1 <= MaxTask
    /\ IF status # "READY" THEN Refuse(workload, dirty)
       ELSE IF n = 0 THEN Refuse(<< >>, FALSE) ELSE Accept(Fresh(n))
    /\ nextTask' = nextTask + n
    /\ UNCHANGED <<errors, workerVars, ran>>

\* Mutant of Prepare: no notify_all().
PrepareSilently ==
    /\ client = "prepare"
    /\ busy' = [w \in Workers |-> busy[w] \/ w < active]
    /\ it' = [w \in Workers |-> IF w < active THEN w ELSE it[w]]
    /\ client' = "waiting"
    /\ UNCHANGED <<poolVars, pc, cur, history>>

\* Mutant of Prepare: worker::prepare instead of worker_mq::prepare.
PrepareKeepsCursor ==
    /\ client = "prepare"
    /\ busy' = [w \in Workers |-> busy[w] \/ w < active]
    /\ pc' = Notified
    /\ client' = "waiting"
    /\ UNCHANGED <<poolVars, it, cur, history>>

\* The critical section of processWorkload(): prepare() the first m_active
\* workers and notify_all().  The future is taken before the lock is released.
Prepare ==
    /\ client = "prepare"
    /\ busy' = [w \in Workers |-> busy[w] \/ w < active]
    /\ it' = [w \in Workers |-> IF w < active THEN w ELSE it[w]]
    /\ pc' = Notified
    /\ client' = "waiting"
    /\ UNCHANGED <<poolVars, cur, history>>

\* future::wait() returns.
Await ==
    /\ client = "waiting" /\ result = "ready"
    /\ client' = "idle"
    /\ UNCHANGED <<poolVars, workerVars, history>>

\* Mutant of Destroy: no notify_all().
DestroySilently ==
    /\ client = "idle"
    /\ status' = "TERMINATING"
    /\ client' = "joining"
    /\ UNCHANGED <<workload, dirty, active, index, errors, result, workerVars,
                   history>>

\* ~ThreadPool(): under m_mutex, stop and notify_all() ...
Destroy ==
    /\ client = "idle"
    /\ status' = "TERMINATING"
    /\ pc' = Notified
    /\ client' = "joining"
    /\ UNCHANGED <<workload, dirty, active, index, errors, result, busy, it,
                   cur, history>>

\* ... then the members are destroyed, m_workers first: ~worker() joins.
Join ==
    /\ client = "joining"
    /\ \A w \in Workers : pc[w] \in {"none", "exited"}
    /\ client' = "gone"
    /\ UNCHANGED <<poolVars, workerVars, history>>

-----------------------------------------------------------------------------
(* A worker thread.                                                        *)

Goto(w, l) == pc' = [pc EXCEPT ![w] = l]

\* waitForWork(): evaluates the loop condition under the shared lock and
\* either leaves or blocks, which releases the lock atomically.
WaitForWork(w) ==
    /\ pc[w] = "wait"
    /\ Goto(w, IF busy[w] \/ status = "TERMINATING" THEN "woken" ELSE "blocked")
    /\ UNCHANGED <<poolVars, busy, it, cur, client, history>>

\* A condition variable may wake up without a notification.
SpuriousWakeup(w) ==
    /\ pc[w] = "blocked"
    /\ Goto(w, "wait")
    /\ UNCHANGED <<poolVars, busy, it, cur, client, history>>

\* loop(), after waitForWork(): leave when TERMINATING, else pre() and doWork().
Woken(w) ==
    /\ pc[w] = "woken"
    /\ Goto(w, IF status = "TERMINATING" THEN "exited" ELSE "fetch")
    /\ UNCHANGED <<poolVars, busy, it, cur, client, history>>

\* worker_sq::doWork(): i = pool->m_index++, one atomic operation.
FetchSq(w) ==
    /\ pc[w] = "fetch" /\ Queue = "sq"
    /\ cur' = [cur EXCEPT ![w] = index]
    /\ index' = index + 1
    /\ Goto(w, "test")
    /\ UNCHANGED <<status, workload, dirty, active, errors, result, busy, it,
                   client, history>>

\* worker_sq::doWork(): the loop condition.
TestSq(w) ==
    /\ pc[w] = "test"
    /\ Goto(w, IF cur[w] < Len(workload) /\ status = "PROCESSING"
               THEN "run" ELSE "post")
    /\ UNCHANGED <<poolVars, busy, it, cur, client, history>>

\* worker_mq::doWork(): the cursor `it' is private to the worker.
FetchMq(w) ==
    /\ pc[w] = "fetch" /\ Queue = "mq"
    /\ IF it[w] < Len(workload) /\ status = "PROCESSING"
       THEN /\ cur' = [cur EXCEPT ![w] = it[w]]
            /\ it' = [it EXCEPT ![w] = it[w] + Size]
            /\ Goto(w, "run")
       ELSE /\ Goto(w, "post")
            /\ UNCHANGED <<cur, it>>
    /\ UNCHANGED <<poolVars, busy, client, history>>

CurTask(w) == workload[cur[w] + 1]

Started(w) == ran' = [ran EXCEPT ![CurTask(w)] = @ + 1]

\* The task returns.
RunTask(w) ==
    /\ pc[w] = "run"
    /\ Started(w)
    /\ Goto(w, "fetch")
    /\ UNCHANGED <<poolVars, busy, it, cur, client, nextTask, lastLoad>>

\* The task throws and loop_wrapper() catches it.  With NONE nothing catches
\* it and the process ends, so there is no step.
TaskThrows(w) ==
    /\ pc[w] = "run" /\ ErrorMode # "NONE"
    /\ Started(w)
    /\ Goto(w, IF ErrorMode # "IGNORE" THEN "push"
               ELSE IF status = "TERMINATING" THEN "exited" ELSE "wait")
    /\ UNCHANGED <<poolVars, busy, it, cur, client, nextTask, lastLoad>>

\* Mutant of PushError: the failing worker leaves doWork() instead of loop().
PushErrorThenPost(w) ==
    /\ pc[w] = "push"
    /\ errors' = errors \cup {CurTask(w)}
    /\ status' = IF ErrorMode = "TERMINATE" THEN "TERMINATING" ELSE status
    /\ Goto(w, "post")
    /\ UNCHANGED <<workload, dirty, active, index, result, busy, it, cur,
                   client, history>>

\* loop_wrapper(): m_errors.push_back takes no lock; when two workers are in
\* it at once one of the exceptions may be lost.
PushError(w) ==
    /\ pc[w] = "push"
    /\ \/ errors' = errors \cup {CurTask(w)}
       \/ (\E v \in Workers \ {w} : pc[v] = "push") /\ errors' = errors
    /\ status' = IF ErrorMode = "TERMINATE" THEN "TERMINATING" ELSE status
    /\ Goto(w, IF status' = "TERMINATING" THEN "exited" ELSE "wait")
    /\ UNCHANGED <<workload, dirty, active, index, result, busy, it, cur,
                   client, history>>

\* loop(), after doWork(): post(), busy = false.
Finish(w) ==
    /\ pc[w] = "post"
    /\ busy' = [busy EXCEPT ![w] = FALSE]
    /\ Goto(w, "dec")
    /\ UNCHANGED <<poolVars, it, cur, client, history>>

\* Mutant of Decrement: off by one, the last but one worker completes.
DecrementEarly(w) ==
    /\ pc[w] = "dec"
    /\ active' = active - 1
    /\ Goto(w, IF active \in {1, 2} THEN "complete" ELSE "wait")
    /\ UNCHANGED <<status, workload, dirty, index, errors, result, busy, it,
                   cur, client, history>>

\* Mutant of Decrement: the promise is fulfilled before m_status is READY.
DecrementFulfils(w) ==
    /\ pc[w] = "dec"
    /\ active' = active - 1
    /\ Goto(w, IF active = 1 THEN "complete" ELSE "wait")
    /\ result' = IF active = 1 THEN "ready" ELSE result
    /\ UNCHANGED <<status, workload, dirty, index, errors, busy, it,
                   cur, client, history>>

\* remaning = --(pool->m_active); the worker that gets 0 completes the load.
Decrement(w) ==
    /\ pc[w] = "dec"
    /\ active' = active - 1
    /\ Goto(w, IF active = 1 THEN "complete" ELSE "wait")
    /\ UNCHANGED <<status, workload, dirty, index, errors, result, busy, it,
                   cur, client, history>>

\* The last worker: clearWorkload() with UPPON_COMPLETION, m_status = READY.
\* No code ever sets m_status to ERROR, so that branch is dead.
Complete(w) ==
    /\ pc[w] = "complete"
    /\ IF Clear = "UPPON_COMPLETION"
       THEN workload' = << >> /\ dirty' = FALSE
       ELSE UNCHANGED <<workload, dirty>>
    /\ status' = "READY"
    /\ Goto(w, "set")
    /\ UNCHANGED <<active, index, errors, result, busy, it, cur, client, history>>

\* m_result.set_value()
SetValue(w) ==
    /\ pc[w] = "set"
    /\ result' = "ready"
    /\ Goto(w, "wait")
    /\ UNCHANGED <<status, workload, dirty, active, index, errors, busy, it,
                   cur, client, history>>

-----------------------------------------------------------------------------
ClientStep ==
    \/ Start \/ AppendTask \/ Process \/ Destroy
    \/ \E n \in 0 .. MaxLoad : ProcessWith(n)
    \/ Prepare \/ Await \/ Join

WorkerStep(w) ==
    \/ WaitForWork(w) \/ Woken(w)
    \/ FetchSq(w) \/ TestSq(w) \/ FetchMq(w)
    \/ RunTask(w) \/ TaskThrows(w) \/ PushError(w)
    \/ Finish(w) \/ Decrement(w) \/ Complete(w) \/ SetValue(w)

\* The owner has destroyed the pool: the only intended way to stop.
Gone == client = "gone" /\ UNCHANGED vars

Next ==
    \/ ClientStep
    \/ \E w \in Workers : WorkerStep(w) \/ SpuriousWakeup(w)
    \/ Gone

Spec == Init /\ [][Next]_vars

\* The scheduler runs every runnable thread eventually.  The owner is only
\* bound to go on inside an operation it has begun.
Fairness ==
    /\ \A w \in Workers : WF_vars(WorkerStep(w))
    /\ WF_vars(Prepare \/ Await \/ Join)

LiveSpec == Spec /\ Fairness

-----------------------------------------------------------------------------
TypeOK ==
    /\ status \in Statuses
    /\ workload \in Seq(Tasks) /\ Len(workload) <= MaxLoad
    /\ dirty \in BOOLEAN
    /\ active \in 0 .. Size
    /\ index \in Nat
    /\ errors \subseteq Tasks
    /\ result \in {"none", "pending", "ready"}
    /\ busy \in [Workers -> BOOLEAN]
    /\ it \in [Workers -> Nat]
    /\ cur \in [Workers -> Nat]
    /\ pc \in [Workers -> WorkerPCs]
    /\ client \in ClientPCs
    /\ nextTask \in 1 .. MaxTask + 1
    /\ ran \in [Tasks -> Nat]
    /\ lastLoad \subseteq Tasks

\* What the callers of processWorkload rely on: no task is ever started twice
\* (neither by two workers nor as a left-over of an earlier workload), and once
\* the future is ready every task of the workload has been started and no
\* worker is still inside one.
FutureMeansDone ==
    /\ \A t \in Tasks : ran[t] <= 1
    /\ result = "ready" =>
          /\ \A t \in lastLoad : ran[t] = 1
          /\ \A w \in Workers : pc[w] \notin {"run", "push"}

\* Between two workloads the pool accepts the next one: the owner never comes
\* back from wait() to find the pool still PROCESSING (m_status = READY is
\* written before set_value) or a worker still marked busy.
IdlePoolIsReady ==
    client = "idle" =>
        /\ status \in {"STOPPED", "READY"}
        /\ \A w \in Workers : ~busy[w]

\* m_workload is read by the workers without a lock: it never changes while a
\* worker can still index into it.
LoadStableInDoWork ==
    [][workload' # workload => \A w \in Workers : pc[w] \notin InDoWork \cup {"push"}]_vars

\* The destructor's TERMINATING (or that of ErrorHandling::TERMINATE) is never
\* overwritten by the READY of the last worker.
TerminatingIsFinal ==
    [][status = "TERMINATING" => status' = "TERMINATING"]_vars

\* A future that was handed out becomes ready.
FutureFulfilled == client = "waiting" ~> client = "idle"

\* The destructor returns: every worker notices TERMINATING and exits.
DestructorReturns == client = "joining" ~> client = "gone"

\* ErrorHandling::TERMINATE: the worker that caught the exception leaves
\* without decrementing m_active, so the future of that workload never gets
\* ready and its owner, who waits for it, is stranded.
TerminateStrandsOwner ==
    (ErrorMode = "TERMINATE" /\ errors # {}) =>
        client = "waiting" /\ result = "pending"

(* What the pool promises, as a specification of its own.                  *)
FJ == INSTANCE ForkJoin
      WITH todo <- {t \in lastLoad : ran[t] = 0},
           inside <- client \in {"prepare", "waiting"}

\* The pool is a fork/join: a call runs each of its tasks exactly once, in any
\* order and on any thread, and returns when all have run.
ImplementsForkJoin == FJ!Spec

\* The comment of taskErrors() (ThreadPool.h:131-132): "a vector containing all
\* task exceptions generated during last processed workload".
ErrorsAreOfLastWorkload == client = "idle" => errors \subseteq lastLoad
=============================================================================
