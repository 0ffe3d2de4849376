--------------------------- MODULE SqlResultQueue ---------------------------
(***************************************************************************)
(* The way back from the database: the delay threads hand the callbacks of *)
(* finished queries to SqlResultQueue, and the world thread runs them in   *)
(* Update() at the end of its tick, the thread-safe ones on a ThreadPool   *)
(* at the same time (composed here in its abstract form, ForkJoin).        *)
(*                                                                         *)
(* A callback is known by its number: they are numbered in the order in    *)
(* which they are added.                                                   *)
(***************************************************************************)
EXTENDS Integers, Sequences, FiniteSets

CONSTANTS
    Timeout,       \* AsyncQueriesTickTimeout is not 0
    MaxCallbacks   \* bound: callbacks added in one behaviour

ASSUME ResultQueueAssumption == Timeout \in BOOLEAN /\ MaxCallbacks \in Nat

VARIABLES
    safe,       \* for each callback added so far: IsThreadSafe()
    queue,      \* the LockedQueue that SqlResultQueue is
    waiting,    \* _threadUnsafeWaitingQueries
    numUnsafe,  \* numUnsafeQueries
    staged,     \* what operator<< has put into m_callbackThreads
    inside,     \* ForkJoin: the pool has a workload that was not waited for
    todo,       \* ForkJoin: callbacks the pool has not run yet
    ran,        \* how often each callback was executed
    cancelled,  \* callbacks executed by CancelAll(), without a result
    delay,      \* the delay threads are there
    pc          \* where the thread that owns the queue is

poolVars == <<inside, todo, ran>>
vars == <<safe, queue, waiting, numUnsafe, staged, poolVars, cancelled, delay, pc>>

Callbacks == 1 .. MaxCallbacks
Added == DOMAIN safe

\* m_callbackThreads, as ThreadPool promises it (ThreadPool!ImplementsForkJoin).
Pool == INSTANCE ForkJoin WITH Tasks <- Callbacks

Init ==
    /\ safe = << >> /\ queue = << >> /\ waiting = << >>
    /\ numUnsafe = 0 /\ staged = {}
    /\ inside = FALSE /\ todo = {} /\ ran = [c \in Callbacks |-> 0]
    /\ cancelled = {} /\ delay = TRUE /\ pc = "tick"

\* SqlQuery::Execute(), SqlQueryHolderEx::Execute() on a delay thread: the
\* query is done, its callback is added.
Add(s) ==
    /\ delay /\ Len(safe) < MaxCallbacks
    /\ safe' = Append(safe, s)
    /\ queue' = Append(queue, Len(safe) + 1)
    /\ UNCHANGED <<waiting, numUnsafe, staged, poolVars, cancelled, delay, pc>>

-----------------------------------------------------------------------------
(* Update(timeout).                                                        *)

BeginUpdate ==
    /\ pc = "tick"
    /\ pc' = "collect"
    /\ UNCHANGED <<safe, queue, waiting, numUnsafe, staged, poolVars, cancelled, delay>>

\* Mutant of Collect: the counter is not incremented.
CollectUncounted ==
    /\ pc = "collect"
    /\ IF queue = << >>
       THEN pc' = "submit" /\ UNCHANGED <<queue, waiting, numUnsafe, staged>>
       ELSE /\ queue' = Tail(queue)
            /\ IF safe[Head(queue)]
               THEN staged' = staged \cup {Head(queue)} /\ UNCHANGED waiting
               ELSE waiting' = Append(waiting, Head(queue)) /\ UNCHANGED staged
            /\ UNCHANGED <<pc, numUnsafe>>
    /\ UNCHANGED <<safe, poolVars, cancelled, delay>>

\* One turn of the first loop: next(callback), to the pool or to the other
\* queue.  Delay threads may add while it runs.
Collect ==
    /\ pc = "collect"
    /\ IF queue = << >>
       THEN pc' = "submit" /\ UNCHANGED <<queue, waiting, numUnsafe, staged>>
       ELSE /\ queue' = Tail(queue)
            /\ IF safe[Head(queue)]
               THEN staged' = staged \cup {Head(queue)} /\ UNCHANGED <<waiting, numUnsafe>>
               ELSE /\ waiting' = Append(waiting, Head(queue))
                    /\ numUnsafe' = numUnsafe + 1
                    /\ UNCHANGED staged
            /\ UNCHANGED pc
    /\ UNCHANGED <<safe, poolVars, cancelled, delay>>

\* processWorkload(): nothing is started when no safe callback was collected.
Submit ==
    /\ pc = "submit"
    /\ IF staged = {} THEN UNCHANGED poolVars ELSE Pool!Call(staged)
    /\ staged' = {}
    /\ pc' = "unsafe"
    /\ UNCHANGED <<safe, queue, waiting, numUnsafe, cancelled, delay>>

\* A thread of the pool executes a callback.
PoolExecutes(c) ==
    /\ Pool!Execute(c)
    /\ UNCHANGED <<safe, queue, waiting, numUnsafe, staged, cancelled, delay, pc>>

\* Mutant of RunUnsafe: the time is looked at before the callback is executed.
RunUnsafeIfTime ==
    /\ pc = "unsafe"
    /\ \/ (waiting = << >> \/ Timeout) /\ pc' = "join" /\ UNCHANGED <<waiting, numUnsafe, ran>>
       \/ /\ waiting # << >>
          /\ ran' = [ran EXCEPT ![Head(waiting)] = @ + 1]
          /\ waiting' = Tail(waiting)
          /\ numUnsafe' = numUnsafe - 1
          /\ UNCHANGED pc
    /\ UNCHANGED <<safe, queue, staged, inside, todo, cancelled, delay>>

\* Mutant of RunUnsafe: takes the newest first.
RunUnsafeLifo ==
    /\ pc = "unsafe"
    /\ IF waiting = << >>
       THEN pc' = "join" /\ UNCHANGED <<waiting, numUnsafe, ran>>
       ELSE /\ ran' = [ran EXCEPT ![waiting[Len(waiting)]] = @ + 1]
            /\ waiting' = SubSeq(waiting, 1, Len(waiting) - 1)
            /\ numUnsafe' = numUnsafe - 1
            /\ pc' \in {"unsafe"} \cup (IF Timeout THEN {"join"} ELSE {})
    /\ UNCHANGED <<safe, queue, staged, inside, todo, cancelled, delay>>

\* One turn of the second loop: the callback is executed on this thread, then
\* the time is looked at.
RunUnsafe ==
    /\ pc = "unsafe"
    /\ IF waiting = << >>
       THEN pc' = "join" /\ UNCHANGED <<waiting, numUnsafe, ran>>
       ELSE /\ ran' = [ran EXCEPT ![Head(waiting)] = @ + 1]
            /\ waiting' = Tail(waiting)
            /\ numUnsafe' = numUnsafe - 1
            /\ pc' \in {"unsafe"} \cup (IF Timeout THEN {"join"} ELSE {})
    /\ UNCHANGED <<safe, queue, staged, inside, todo, cancelled, delay>>

\* Mutant of JoinPool: the future is dropped.
JoinNothing ==
    /\ pc = "join"
    /\ pc' = "tick"
    /\ UNCHANGED <<safe, queue, waiting, numUnsafe, staged, poolVars, cancelled, delay>>

\* job.wait(), when the future is valid.
JoinPool ==
    /\ pc = "join"
    /\ IF inside THEN Pool!Return ELSE UNCHANGED poolVars
    /\ pc' = "tick"
    /\ UNCHANGED <<safe, queue, waiting, numUnsafe, staged, cancelled, delay>>

-----------------------------------------------------------------------------
(* The shutdown: the world thread has ended, the main thread is in         *)
(* StopServer().                                                           *)

WorldEnds ==
    /\ pc = "tick"
    /\ pc' = "halt"
    /\ UNCHANGED <<safe, queue, waiting, numUnsafe, staged, poolVars, cancelled, delay>>

\* HaltDelayThread() has returned; until then callbacks may still be added.
Halted ==
    /\ pc = "halt"
    /\ delay' = FALSE
    /\ pc' = "cancel"
    /\ UNCHANGED <<safe, queue, waiting, numUnsafe, staged, poolVars, cancelled>>

\* Mutant of CancelAll: the queue is deleted with what is in it.
CancelNothing ==
    /\ pc = "cancel"
    /\ pc' = "deleted"
    /\ UNCHANGED <<safe, queue, waiting, numUnsafe, staged, poolVars, cancelled, delay>>

\* CancelAll(), one turn: SetResult(nullptr), Execute(), delete.  Then the
\* queue and its pool are deleted.
CancelAll ==
    /\ pc = "cancel"
    /\ IF queue = << >>
       THEN pc' = "deleted" /\ UNCHANGED <<queue, ran, cancelled>>
       ELSE /\ queue' = Tail(queue)
            /\ ran' = [ran EXCEPT ![Head(queue)] = @ + 1]
            /\ cancelled' = cancelled \cup {Head(queue)}
            /\ UNCHANGED pc
    /\ UNCHANGED <<safe, waiting, numUnsafe, staged, inside, todo, delay>>

Deleted == pc = "deleted" /\ UNCHANGED vars

-----------------------------------------------------------------------------
OwnerStep ==
    \/ Collect \/ Submit \/ RunUnsafe \/ JoinPool
    \/ Halted \/ CancelAll

Next ==
    \/ \E s \in BOOLEAN : Add(s)
    \/ BeginUpdate \/ OwnerStep
    \/ \E c \in Callbacks : PoolExecutes(c)
    \/ WorldEnds \/ Deleted

Spec == Init /\ [][Next]_vars

\* The world ticks until it ends, goes on inside Update() and StopServer(), and
\* the pool keeps the promise of ForkJoin.
Fairness ==
    /\ WF_vars(BeginUpdate)
    /\ WF_vars(OwnerStep)
    /\ WF_vars(\E c \in Callbacks : PoolExecutes(c))

LiveSpec == Spec /\ Fairness

-----------------------------------------------------------------------------
TypeOK ==
    /\ safe \in Seq(BOOLEAN) /\ Len(safe) <= MaxCallbacks
    /\ queue \in Seq(Added) /\ waiting \in Seq(Added)
    /\ numUnsafe \in Nat
    /\ staged \subseteq Added /\ todo \subseteq Added
    /\ inside \in BOOLEAN /\ delay \in BOOLEAN
    /\ ran \in [Callbacks -> Nat] /\ cancelled \subseteq Added
    /\ pc \in {"tick", "collect", "submit", "unsafe", "join", "halt", "cancel", "deleted"}

\* Every callback that was added is in exactly one place (the queue, the unsafe
\* ones waiting, the pool, or executed once), so none is executed or deleted
\* twice, and numUnsafeQueries counts what is waiting.
OnePlace ==
    /\ \A c \in Added :
          Cardinality({k \in DOMAIN queue : queue[k] = c})
        + Cardinality({k \in DOMAIN waiting : waiting[k] = c})
        + Cardinality({c} \cap staged) + Cardinality({c} \cap todo) + ran[c] = 1
    /\ numUnsafe = Len(waiting)

\* The threads of the pool run callbacks only while the world thread is in
\* Update(): never next to a map, a session or the shutdown.
PoolOnlyInUpdate == inside => pc \in {"unsafe", "join"}

\* A callback that is not thread-safe never runs on the pool, and those are
\* executed in the order in which their results came in, also over ticks that
\* ran out of time; CancelAll() gives no results.
UnsafeInOrder ==
    /\ \A c \in todo : safe[c]
    /\ \A c, d \in Added :
          (c < d /\ ~safe[c] /\ ~safe[d] /\ ran[d] = 1 /\ d \notin cancelled) => ran[c] = 1

\* Every callback is executed, unless the world stops first; with a timeout
\* because each tick executes at least one that waits.
EveryCallbackRuns ==
    \A c \in Callbacks :
        (c \in Added) ~> (ran[c] = 1 \/ pc \in {"halt", "cancel", "deleted"})

\* CancelAll() leaves nothing in the queue it is given, also of what the delay
\* threads add while they are stopped: all but the callbacks that an earlier
\* tick left waiting has been executed when the queue is deleted.
CancelReachesQueued ==
    pc = "deleted" =>
        {c \in Added : ran[c] # 1} = {waiting[k] : k \in DOMAIN waiting}

\* "Frees data, cancels scheduled queries" (Database.h:294): when StopServer()
\* has deleted the queue every callback was executed, with or without result.
CancelReachesAll == pc = "deleted" => \A c \in Added : ran[c] = 1
=============================================================================
