---------------------------- MODULE DatabaseInv ----------------------------
(***************************************************************************)
(* The inductive invariants of Database: who owns the operations of a      *)
(* serial id (OwnerInv, behind SerialOrder and RowNeverGoesBack), that no  *)
(* operation is in two hands (OnceInv, behind ImplementsSerialStore), and  *)
(* that none is lost, also by the shutdown (KeptInv, with the other two    *)
(* behind ExecutedOnce).                                                   *)
(***************************************************************************)
EXTENDS Database

Serial(i) == ops[i].serial
Owner(i) == Serial(i) % NWorkers
InSerialQueue(w, i) == \E k \in DOMAIN serialQueue[w] : serialQueue[w][k] = i

\* The shared queue holds no operation with a serial id.
SharedInv == \A k \in DOMAIN delayQueue :
    delayQueue[k] \in OpIds /\ Serial(delayQueue[k]) = 0

\* A serial queue holds only operations of its delay thread, in the order of
\* their numbers.
QueueInv == \A w \in Workers : \A k \in DOMAIN serialQueue[w] :
    /\ serialQueue[w][k] \in OpIds
    /\ Serial(serialQueue[w][k]) # 0 /\ Owner(serialQueue[w][k]) = w
    /\ \A j \in DOMAIN serialQueue[w] : j < k => serialQueue[w][j] < serialQueue[w][k]

\* What a delay thread executes comes before what is in its queue.
CurInv == \A w \in Workers : cur[w] # 0 =>
    /\ cur[w] \in OpIds
    /\ Serial(cur[w]) # 0 =>
          /\ Owner(cur[w]) = w
          /\ \A k \in DOMAIN serialQueue[w] : cur[w] < serialQueue[w][k]

\* An operation with a serial id that is not executed is with its owner.
FoundInv == \A i \in OpIds : Serial(i) # 0 =>
    i \in done \/ cur[Owner(i)] = i \/ InSerialQueue(Owner(i), i)

\* What was executed comes before what its owner has or will take.
DoneInv == \A i \in done :
    /\ i \in OpIds
    /\ Serial(i) # 0 =>
          /\ (cur[Owner(i)] # 0 /\ Serial(cur[Owner(i)]) # 0) => i < cur[Owner(i)]
          /\ \A k \in DOMAIN serialQueue[Owner(i)] : i < serialQueue[Owner(i)][k]

\* A row holds a write of its serial id that was executed.
RowInv == \A s \in Serials : row[s] # 0 => row[s] \in done /\ Serial(row[s]) = s

\* All operations of a serial id belong to one delay thread, which takes them
\* in the order of their numbers: those executed, then the one in its hands,
\* then those in its queue.
OwnerInv == SharedInv /\ QueueInv /\ CurInv /\ FoundInv /\ DoneInv /\ RowInv

\* An operation that a delay thread has in its hands is in nobody else's, has
\* not been executed, and is in the shared queue no more; nor has anything
\* that is still there been executed, and nothing is there twice.
OnceInv ==
    /\ \A k \in DOMAIN delayQueue :
          /\ delayQueue[k] \notin done
          /\ \A j \in DOMAIN delayQueue : j < k => delayQueue[j] < delayQueue[k]
          /\ \A w \in Workers : cur[w] # delayQueue[k]
    /\ \A w \in Workers : cur[w] # 0 =>
          /\ cur[w] \notin done
          /\ \A v \in Workers \ {w} : cur[v] # cur[w]

\* An operation without a serial id that is not executed is in the shared queue
\* or with a delay thread.
SharedFoundInv == \A i \in OpIds : Serial(i) = 0 =>
    \/ i \in done
    \/ \E w \in Workers : cur[w] = i
    \/ \E k \in DOMAIN delayQueue : delayQueue[k] = i

\* The shutdown leaves nothing behind.  A delay thread has an operation only
\* inside ProcessRequests(); once the threads were joined the shared queue stays
\* as empty as the first destructor found it to be, and a destructor that has
\* returned has emptied the queue of its own.
HaltInv == \A w \in Workers :
    /\ cur[w] # 0 => pc[w] \in {"shared", "serial"}
    /\ pc[w] = "gone" =>
          /\ phase \in {"destroying", "halted"}
          /\ delayQueue = << >> /\ serialQueue[w] = << >>
    /\ (phase = "destroying" /\ pc[w] = "serial") => delayQueue = << >>
    /\ phase = "halted" => pc[w] = "gone"

\* No queue is longer than there are operations.
LengthInv == \A w \in Workers : Len(serialQueue[w]) <= Len(ops)

KeptInv == SharedFoundInv /\ HaltInv /\ LengthInv
=============================================================================
