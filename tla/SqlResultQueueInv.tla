-------------------------- MODULE SqlResultQueueInv --------------------------
(***************************************************************************)
(* The inductive invariants of SqlResultQueue: OrderInv, which says where  *)
(* the callbacks that are not thread-safe are, is behind UnsafeInOrder and *)
(* PoolOnlyInUpdate; PlaceInv, which says it of all callbacks, is behind   *)
(* OnePlace and CancelReachesQueued.                                       *)
(***************************************************************************)
EXTENDS SqlResultQueue

Increasing(q) == \A j, k \in DOMAIN q : j < k => q[j] < q[k]
In(c, q) == \E k \in DOMAIN q : q[k] = c

\* What is collected and what the pool has is thread-safe.  It is collected
\* and handed over before the unsafe ones are run, and the pool has finished
\* when Update() returns.
SafeInv ==
    /\ \A c \in staged \cup todo : safe[c]
    /\ staged # {} => pc \in {"collect", "submit"}
    /\ inside => pc \in {"unsafe", "join"}
    /\ ~inside => todo = {}

\* Both queues are in the order in which callbacks were added, and all that
\* wait for their turn came before all that were not looked at.
QueuesInv ==
    /\ Increasing(queue) /\ Increasing(waiting)
    /\ \A c \in Added : In(c, waiting) => ~safe[c]
    /\ \A c, d \in Added : (In(c, waiting) /\ In(d, queue)) => c < d
    /\ numUnsafe = Len(waiting)

\* An unsafe callback is in a queue and was not executed, or was executed once
\* and is in none.  Those executed with their result came before the ones in
\* the queues.
UnsafeInv ==
    \A c \in Added : ~safe[c] =>
        /\ (In(c, queue) \/ In(c, waiting)) => ran[c] = 0
        /\ ~(In(c, queue) \/ In(c, waiting)) => ran[c] = 1
        /\ (ran[c] = 1 /\ c \notin cancelled) =>
              \A d \in Added : (In(d, queue) \/ In(d, waiting)) => c < d

\* What has a number that was not given yet was not executed.
FreshInv == \A c \in Callbacks \ Added : ran[c] = 0

\* An unsafe callback is executed once and in its turn, whatever the pool, the
\* delay threads and the timeout do.
OrderInv == SafeInv /\ QueuesInv /\ UnsafeInv /\ FreshInv

\* The callback is somewhere on its way to being executed.
Held(c) == In(c, queue) \/ In(c, waiting) \/ c \in staged \/ c \in todo

\* A callback that the pool is given has left the queue, and what is held was
\* not executed while all the rest was executed once.  When the queue is deleted
\* no delay thread is left to add to it, and CancelAll() has emptied it.
PlaceInv ==
    /\ \A c \in staged \cup todo : ~In(c, queue)
    /\ \A c \in Added : ran[c] = IF Held(c) THEN 0 ELSE 1
    /\ pc \in {"cancel", "deleted"} => ~delay
    /\ pc = "deleted" => queue = << >>
=============================================================================
