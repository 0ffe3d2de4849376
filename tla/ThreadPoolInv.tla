---------------------------- MODULE ThreadPoolInv ----------------------------
(***************************************************************************)
(* The inductive invariants of ThreadPool, used by ThreadPoolProofs and    *)
(* checked by TLC as invariants first.                                     *)
(***************************************************************************)
EXTENDS ThreadPool

\* The workers that still have to decrement m_active in this round.
Engaged == {w \in Workers : busy[w] \/ pc[w] = "dec"}
Finishing(w) == pc[w] \in {"complete", "set"}
Quiet == Engaged = {} /\ \A w \in Workers : ~Finishing(w)
Inside == client \in {"prepare", "waiting"}
Holds(w) == pc[w] \in {"test", "run"}

\* Who may be where, for each position of the owner (both kinds of queue).
\* The owner hands a workload out only to a quiet pool and gets it back quiet;
\* in between m_active counts the engaged workers, one worker completes, and
\* a pool that is TERMINATING with a load in flight has lost a worker for good.
ProtocolInv ==
    /\ client = "idle" => Quiet /\ status \in {"STOPPED", "READY"}
    /\ client \in {"joining", "gone"} => Quiet /\ status = "TERMINATING"
    /\ client = "prepare" =>
          /\ Quiet /\ status = "PROCESSING" /\ result = "pending"
          /\ active \in 1 .. Size
    /\ client = "waiting" =>
          /\ active = Cardinality(Engaged)
          /\ result = "ready" => Quiet /\ status = "READY"
          /\ status = "READY" => Engaged = {}
          /\ status = "TERMINATING" =>
                \E w \in Workers : busy[w] /\ pc[w] = "exited"
          /\ status # "STOPPED" /\ result # "none"
    /\ status \in {"READY", "PROCESSING"} => Size > 0
    /\ \A w \in Workers :
          /\ pc[w] \in InDoWork \cup {"push", "post"} => busy[w]
          /\ pc[w] \in {"run", "push"} => cur[w] < Len(workload)
          /\ pc[w] = "dec" => ~busy[w]
          /\ pc[w] = "woken" => busy[w] \/ status = "TERMINATING"
          /\ pc[w] = "exited" => status = "TERMINATING"
          /\ status = "STOPPED" => pc[w] = "none"
          /\ Finishing(w) =>
                /\ client = "waiting" /\ result = "pending" /\ Engaged = {}
                /\ \A v \in Workers : Finishing(v) => v = w
                /\ status = IF pc[w] = "set" THEN "READY" ELSE "PROCESSING"

\* What m_workload holds: tasks that were created, none twice; outside a round
\* either tasks that have not run or a left-over marked m_dirty, inside one the
\* workload that was handed out.
LoadInv ==
    /\ \A i \in DOMAIN workload : workload[i] < nextTask
    /\ \A i, j \in DOMAIN workload : workload[i] = workload[j] => i = j
    /\ \A t \in Tasks : t >= nextTask => ran[t] = 0
    /\ \A t \in Tasks : ran[t] <= 1
    /\ (client = "idle" /\ ~dirty) =>
          \A i \in DOMAIN workload : ran[workload[i]] = 0
    /\ (client = "idle" /\ dirty) => Clear = "AT_NEXT_WORKLOAD" /\ status = "READY"
    /\ client = "prepare" =>
          /\ index = 0
          /\ active = IF Size < Len(workload) THEN Size ELSE Len(workload)
          /\ \A i \in DOMAIN workload : ran[workload[i]] = 0
    /\ (client = "waiting" /\ status = "READY") =>
          IF Clear = "UPPON_COMPLETION" THEN workload = << >> /\ ~dirty ELSE dirty
    /\ (Inside /\ status # "READY") => lastLoad = TasksOf(workload) /\ dirty

\* Nobody has run the task at position i yet.  worker_sq: m_index is not past
\* it, or a worker that took it from m_index has not started.  worker_mq: the
\* cursor of the one worker whose share it is is not past it, or that worker
\* has not started.
Pending(i) ==
    IF Queue = "sq"
    THEN i > index \/ \E w \in Workers : Holds(w) /\ cur[w] = i - 1
    ELSE i - 1 >= it[(i - 1) % Size] \/ (Holds((i - 1) % Size) /\ cur[(i - 1) % Size] = i - 1)

\* How the workers share the positions.  worker_sq: what two of them took from
\* m_index differs, and one that leaves doWork() has seen its end.  worker_mq: a
\* worker keeps to its residue modulo m_size, and one that is not busy any more,
\* or never was, has nothing left there.
ShareInv ==
    IF Queue = "sq"
    THEN /\ \A w \in Workers : Holds(w) => cur[w] < index
         /\ \A v, w \in Workers : Holds(v) /\ Holds(w) /\ cur[v] = cur[w] => v = w
         /\ status = "PROCESSING" =>
               \A w \in Workers : pc[w] \in {"post", "dec"} => Len(workload) <= index
    ELSE /\ \A w \in Workers : pc[w] # "test"
         /\ \A w \in Workers : busy[w] => it[w] % Size = w
         /\ \A w \in Workers : pc[w] = "run" => cur[w] % Size = w /\ cur[w] < it[w]
         /\ (client = "waiting" /\ status = "PROCESSING") =>
               \A w \in Workers : ~busy[w] \/ pc[w] = "post" =>
                  \A i \in DOMAIN workload : (i - 1) % Size = w => i - 1 < it[w]

\* The tasks that have run are those whose position is not pending (a pool that
\* is TERMINATING may drop some), and who completes the round has found all run.
RanInv ==
    /\ (client = "waiting" /\ status # "READY") =>
          \A i \in DOMAIN workload : Pending(i) => ran[workload[i]] = 0
    /\ (client = "waiting" /\ status = "PROCESSING") =>
          \A i \in DOMAIN workload : ~Pending(i) => ran[workload[i]] = 1
    /\ (result = "ready" \/ \E w \in Workers : Finishing(w)) =>
          \A t \in lastLoad : ran[t] = 1

\* The invariant of both kinds of queue: no step of the owner or of a worker
\* leaves it.
PoolInv ==
    /\ TypeOK
    /\ ProtocolInv
    /\ LoadInv
    /\ ShareInv
    /\ RanInv

\* ErrorHandling::TERMINATE, once an exception was stored: the workload is still
\* in flight and the pool is TERMINATING, so nobody completes it any more.
StrandedInv ==
    (ErrorMode = "TERMINATE" /\ errors # {}) => client = "waiting" /\ status = "TERMINATING"
=============================================================================
