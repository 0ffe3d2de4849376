------------------------ MODULE SqlResultQueueProofs ------------------------
(***************************************************************************)
(* Proofs about SqlResultQueue, for any number of callbacks, with and      *)
(* without a timeout.                                                      *)
(***************************************************************************)
EXTENDS SqlResultQueueInv, FiniteSetTheorems, TLAPS

(***************************************************************************)
(* Sequences as queues.                                                    *)
(***************************************************************************)
\* The positions of a sequence are 1 to its length.
LEMMA Positions ==
    ASSUME NEW S, NEW q \in Seq(S)
    PROVE  Len(q) \in Nat /\ DOMAIN q = 1 .. Len(q) /\ q \in [1 .. Len(q) -> S]
  OBVIOUS

\* A sequence over S has its values in S.
LEMMA Value == ASSUME NEW S, NEW q \in Seq(S), NEW i \in 1 .. Len(q) PROVE q[i] \in S
  OBVIOUS

\* The empty sequence, and no other, has length 0.
LEMMA Empty ==
    ASSUME NEW S
    PROVE  /\ << >> \in Seq(S) /\ Len(<< >>) = 0
           /\ \A q \in Seq(S) : q # << >> => Len(q) \in Nat \ {0}
  OBVIOUS

\* A function on 1..n is a sequence.
LEMMA Listed == ASSUME NEW S, NEW n \in Nat, NEW f \in [1 .. n -> S] PROVE f \in Seq(S) /\ Len(f) = n
  OBVIOUS

\* Head and tail of a sequence.
LEMMA Beheaded ==
    ASSUME NEW S, NEW q \in Seq(S), q # << >>
    PROVE  /\ Head(q) \in S /\ Tail(q) \in Seq(S) /\ Len(Tail(q)) = Len(q) - 1
           /\ \A i \in 1 .. Len(Tail(q)) : Tail(q)[i] = q[i + 1]
  OBVIOUS

\* A sequence with one more value.
LEMMA Appended ==
    ASSUME NEW S, NEW q \in Seq(S), NEW e \in S
    PROVE  /\ Append(q, e) \in Seq(S) /\ Append(q, e) # << >> /\ Len(Append(q, e)) = Len(q) + 1
           /\ \A i \in 1 .. Len(q) : Append(q, e)[i] = q[i]
           /\ Append(q, e)[Len(q) + 1] = e
           /\ Append(q, e) = q \o <<e>>
  OBVIOUS

(***************************************************************************)

\* The empty sequence is a sequence over any set.
LEMMA NoElements == ASSUME NEW S, NEW s, s = << >> PROVE s \in Seq(S)
  BY Empty

\* Positions and values of an appended sequence.
LEMMA Grow ==
    ASSUME NEW S, NEW q \in Seq(S), NEW x \in S
    PROVE  /\ DOMAIN Append(q, x) = DOMAIN q \cup {Len(q) + 1}
           /\ Append(q, x)[Len(q) + 1] = x
           /\ \A k \in DOMAIN q : Append(q, x)[k] = q[k] /\ k \in Nat \ {0} /\ k < Len(q) + 1
           /\ Len(q) + 1 \in Nat \ {0}
<1>1. DOMAIN q = 1 .. Len(q) /\ Len(q) \in Nat
  BY Positions
<1>2. DOMAIN Append(q, x) = 1 .. Len(q) + 1
  BY Appended, Positions
<1> QED
  BY <1>1, <1>2, Appended

\* Positions and values of what remains when the head is taken.
LEMMA Shrink ==
    ASSUME NEW S, NEW q \in Seq(S), q # << >>
    PROVE  /\ Head(q) = q[1] /\ 1 \in DOMAIN q
           /\ \A k \in DOMAIN Tail(q) : k \in Nat \ {0} /\ k + 1 \in DOMAIN q /\ Tail(q)[k] = q[k + 1]
           /\ \A k \in DOMAIN q : k = 1 \/ (k \in Nat /\ 1 < k /\ k - 1 \in DOMAIN Tail(q) /\ Tail(q)[k - 1] = q[k])
<1>1. DOMAIN q = 1 .. Len(q) /\ Len(q) \in Nat \ {0}
  BY Positions, Empty
<1>2. Tail(q) \in Seq(S) /\ Len(Tail(q)) = Len(q) - 1 /\ \A i \in 1 .. Len(Tail(q)) : Tail(q)[i] = q[i + 1]
  BY Beheaded
<1>3. DOMAIN Tail(q) = 1 .. Len(q) - 1
  BY <1>2, Positions
<1>4. Head(q) = q[1]
  OBVIOUS
<1> QED
  BY <1>1, <1>2, <1>3, <1>4

\* A set without two different elements counts as 1 or is empty.
LEMMA CountOne ==
    ASSUME NEW S, \A x, y \in S : x = y
    PROVE  Cardinality(S) = IF S = {} THEN 0 ELSE 1
<1>1. CASE S = {}
  BY <1>1, FS_EmptySet
<1>2. CASE S # {}
  <2>1. PICK x : S = {x}
    BY <1>2
  <2> QED
    BY <1>2, <2>1, FS_Singleton
<1> QED
  BY <1>1, <1>2

\* How often c is in a queue that is in strictly increasing order.
LEMMA CountOccurrences ==
    ASSUME NEW q \in Seq(Nat), \A j, k \in DOMAIN q : j < k => q[j] < q[k], NEW c
    PROVE  Cardinality({k \in DOMAIN q : q[k] = c}) = IF \E k \in DOMAIN q : q[k] = c THEN 1 ELSE 0
<1>1. DOMAIN q \subseteq Nat /\ \A k \in DOMAIN q : q[k] \in Nat
  BY Value, Positions
<1>2. ASSUME NEW j \in DOMAIN q, NEW k \in DOMAIN q, q[j] = q[k] PROVE j = k
  <2>1. ~(j < k) /\ ~(k < j)
    BY <1>1, <1>2
  <2> QED
    BY <1>1, <2>1
<1>3. \A j, k \in {i \in DOMAIN q : q[i] = c} : j = k
  BY <1>2
<1> QED
  BY <1>3, CountOne

-----------------------------------------------------------------------------
(* Queues in increasing order.                                             *)

\* What is in an empty queue.
LEMMA EmptyQueue ==
    ASSUME NEW q, q = << >>
    PROVE  Increasing(q) /\ \A c : ~In(c, q)
<1>1. DOMAIN q = {}
  OBVIOUS
<1> QED
  BY <1>1 DEF Increasing, In

\* What is in a queue after x was appended.
LEMMA PushQueue ==
    ASSUME NEW q \in Seq(Nat), NEW x \in Nat
    PROVE  /\ Append(q, x) \in Seq(Nat) /\ Len(Append(q, x)) = Len(q) + 1
           /\ \A c : In(c, Append(q, x)) <=> In(c, q) \/ c = x
           /\ (Increasing(q) /\ \A c : In(c, q) => c < x) => Increasing(Append(q, x))
<1> DEFINE a == Append(q, x)
           L == Len(q) + 1
<1>1. a \in Seq(Nat) /\ Len(a) = L
  BY Appended
<1>2. /\ DOMAIN a = DOMAIN q \cup {L} /\ a[L] = x /\ L \in Nat
      /\ \A k \in DOMAIN q : a[k] = q[k] /\ k \in Nat /\ k < L
  BY Grow
<1> HIDE DEF a, L
<1>3. \A c : In(c, a) <=> In(c, q) \/ c = x
  BY <1>2 DEF In
<1>4. ASSUME Increasing(q), \A c : In(c, q) => c < x PROVE Increasing(a)
  <2>1. \A k \in DOMAIN q : q[k] < x
    BY <1>4 DEF In
  <2> QED
    BY <1>2, <1>4, <2>1 DEF Increasing
<1> QED
  BY <1>1, <1>3, <1>4 DEF a, L

\* What is in a queue after its head was taken.
LEMMA PopQueue ==
    ASSUME NEW q \in Seq(Nat), q # << >>
    PROVE  /\ Tail(q) \in Seq(Nat) /\ Len(Tail(q)) = Len(q) - 1 /\ Len(q) \in Nat \ {0}
           /\ Head(q) \in Nat /\ In(Head(q), q)
           /\ Increasing(q) =>
                /\ Increasing(Tail(q))
                /\ \A c : In(c, Tail(q)) <=> In(c, q) /\ c # Head(q)
                /\ \A c : In(c, Tail(q)) => Head(q) < c
<1> DEFINE t == Tail(q)
           h == Head(q)
<1>1. t \in Seq(Nat) /\ Len(t) = Len(q) - 1 /\ h \in Nat /\ Len(q) \in Nat \ {0}
  BY Beheaded, Positions, Empty
<1>2. /\ h = q[1] /\ 1 \in DOMAIN q
      /\ \A k \in DOMAIN t : k \in Nat \ {0} /\ k + 1 \in DOMAIN q /\ t[k] = q[k + 1]
      /\ \A k \in DOMAIN q : k = 1 \/ (k \in Nat /\ 1 < k /\ k - 1 \in DOMAIN t /\ t[k - 1] = q[k])
  BY Shrink
<1>3. \A k \in DOMAIN q : q[k] \in Nat
  BY Value, Positions
<1> HIDE DEF t, h
<1>4. In(h, q)
  BY <1>2 DEF In
<1>5. ASSUME Increasing(q)
      PROVE  /\ Increasing(t)
             /\ \A k \in DOMAIN t : h < t[k] /\ t[k] \in Nat
  BY <1>2, <1>3, <1>5 DEF Increasing
<1>6. ASSUME Increasing(q)
      PROVE  \A c : In(c, t) <=> In(c, q) /\ c # h
  <2>1. ASSUME NEW c, In(c, t) PROVE In(c, q) /\ c # h
    BY <1>1, <1>2, <1>5, <1>6, <2>1 DEF In
  <2>2. ASSUME NEW c, In(c, q), c # h PROVE In(c, t)
    BY <1>2, <2>2 DEF In
  <2> QED
    BY <2>1, <2>2
<1>7. ASSUME Increasing(q), NEW c, In(c, t) PROVE h < c
  BY <1>5, <1>7 DEF In
<1> QED
  BY <1>1, <1>4, <1>5, <1>6, <1>7 DEF t, h

\* A queue of numbers is over the set that holds what is in it.
LEMMA QueueOver ==
    ASSUME NEW S, NEW q \in Seq(Nat), \A c : In(c, q) => c \in S
    PROVE  q \in Seq(S)
<1>1. DOMAIN q = 1 .. Len(q) /\ Len(q) \in Nat
  BY Positions
<1>2. \A k \in 1 .. Len(q) : q[k] \in S
  BY <1>1 DEF In
<1>3. q = [k \in 1 .. Len(q) |-> q[k]]
  BY <1>1
<1> QED
  BY <1>1, <1>2, <1>3, Listed

\* What TypeOK says of the numbers of callbacks and of the queues.
LEMMA Facts ==
    ASSUME TypeOK
    PROVE  /\ Added = 1 .. Len(safe) /\ Len(safe) \in Nat
           /\ Added \subseteq Callbacks /\ Callbacks \subseteq Nat
           /\ queue \in Seq(Nat) /\ waiting \in Seq(Nat)
           /\ \A c : In(c, queue) => c \in Added
           /\ \A c : In(c, waiting) => c \in Added
<1>1. Added = 1 .. Len(safe) /\ Len(safe) \in Nat
  BY Positions DEF TypeOK, Added
<1>2. Added \subseteq Callbacks /\ Callbacks \subseteq Nat
  BY <1>1, ResultQueueAssumption DEF TypeOK, Callbacks
<1>3. ASSUME NEW q \in Seq(Added)
      PROVE  q \in Seq(Nat) /\ \A c : In(c, q) => c \in Added
  <2>1. DOMAIN q = 1 .. Len(q) /\ Len(q) \in Nat /\ \A k \in 1 .. Len(q) : q[k] \in Added
    BY Value, Positions
  <2>2. q = [k \in 1 .. Len(q) |-> q[k]] /\ \A k \in 1 .. Len(q) : q[k] \in Nat
    BY <1>2, <2>1
  <2>3. q \in Seq(Nat)
    BY <2>1, <2>2, Listed
  <2> QED
    BY <2>1, <2>3 DEF In
<1> QED
  BY <1>1, <1>2, <1>3 DEF TypeOK

-----------------------------------------------------------------------------
(* Every step keeps the types and OrderInv.                                *)

\* A new callback is the last of the queue and was not executed.
LEMMA AddStep ==
    ASSUME TypeOK, OrderInv, NEW s \in BOOLEAN, Add(s)
    PROVE  TypeOK' /\ OrderInv'
<1> DEFINE n == Len(safe) + 1
<1>1. /\ safe' = Append(safe, s) /\ queue' = Append(queue, n)
      /\ UNCHANGED <<waiting, numUnsafe, staged, inside, todo, ran, cancelled, delay, pc>>
      /\ Len(safe) < MaxCallbacks
  BY DEF Add, poolVars
<1>2. /\ Added = 1 .. Len(safe) /\ Len(safe) \in Nat
      /\ queue \in Seq(Nat) /\ waiting \in Seq(Nat)
      /\ \A c : In(c, queue) => c \in Added
      /\ \A c : In(c, waiting) => c \in Added
  BY Facts
<1>3. /\ Added' = Added \cup {n}
      /\ safe'[n] = s /\ \A c \in Added : safe'[c] = safe[c]
  BY <1>1, Grow DEF TypeOK, Added
<1>4. n \in Nat /\ n \notin Added /\ n \in Callbacks /\ \A c \in Added : c < n /\ c \in Nat
  BY <1>1, <1>2, ResultQueueAssumption DEF Callbacks
<1>5. safe' \in Seq(BOOLEAN) /\ Len(safe') <= MaxCallbacks
  BY <1>1, <1>2, Appended, ResultQueueAssumption DEF TypeOK
<1> HIDE DEF n
<1>6. /\ queue' \in Seq(Nat) /\ \A c : In(c, queue') <=> In(c, queue) \/ c = n
  BY <1>1, <1>2, <1>4, PushQueue
<1>7. Increasing(queue')
  BY <1>1, <1>2, <1>4, PushQueue DEF OrderInv, QueuesInv
<1>8. queue' \in Seq(Added') /\ waiting' \in Seq(Added')
  <2>1. waiting' \in Seq(Nat) /\ \A c : In(c, waiting') => c \in Added'
    BY <1>1, <1>2, <1>3
  <2>2. \A c : In(c, queue') => c \in Added'
    BY <1>2, <1>3, <1>6
  <2> QED
    BY <1>6, <2>1, <2>2, QueueOver
<1>9. TypeOK'
  <2>1. staged' \subseteq Added' /\ todo' \subseteq Added' /\ cancelled' \subseteq Added'
    BY <1>1, <1>3 DEF TypeOK
  <2>2. numUnsafe' \in Nat /\ ran' \in [Callbacks -> Nat]
    BY <1>1 DEF TypeOK
  <2>3. inside' \in BOOLEAN /\ delay' \in BOOLEAN
    BY <1>1 DEF TypeOK
  <2>4. pc' \in {"tick", "collect", "submit", "unsafe", "join", "halt", "cancel", "deleted"}
    BY <1>1 DEF TypeOK
  <2> QED
    BY <1>5, <1>8, <2>1, <2>2, <2>3, <2>4 DEF TypeOK
<1>10. SafeInv'
  <2>1. staged \cup todo \subseteq Added
    BY DEF TypeOK
  <2> QED
    BY <1>1, <1>3, <2>1 DEF OrderInv, SafeInv
<1>11. QueuesInv'
  BY <1>1, <1>2, <1>3, <1>4, <1>6, <1>7 DEF OrderInv, QueuesInv
<1>12. UnsafeInv'
  <2>1. ran[n] = 0
    BY <1>4 DEF OrderInv, FreshInv
  <2> QED
    BY <1>1, <1>2, <1>3, <1>4, <1>6, <2>1 DEF OrderInv, UnsafeInv
<1>13. FreshInv'
  BY <1>1, <1>3 DEF OrderInv, FreshInv, Callbacks
<1> QED
  BY <1>9, <1>10, <1>11, <1>12, <1>13 DEF OrderInv

\* The head of the queue goes to the pool or behind all that wait.
LEMMA CollectStep ==
    ASSUME TypeOK, OrderInv, Collect
    PROVE  TypeOK' /\ OrderInv'
<1>0. /\ UNCHANGED <<safe, inside, todo, ran, cancelled, delay>> /\ pc = "collect"
      /\ Added' = Added
  BY DEF Collect, poolVars, Added
<1>1. /\ queue \in Seq(Nat) /\ waiting \in Seq(Nat) /\ Added \subseteq Nat
      /\ \A c : In(c, queue) => c \in Added
      /\ \A c : In(c, waiting) => c \in Added
  BY Facts
<1>2. CASE queue = << >>
  <2>1. UNCHANGED <<queue, waiting, numUnsafe, staged>> /\ pc' = "submit"
    BY <1>2 DEF Collect
  <2>2. TypeOK'
    BY <1>0, <2>1 DEF TypeOK
  <2>3. SafeInv'
    BY <1>0, <2>1 DEF OrderInv, SafeInv
  <2>4. QueuesInv' /\ UnsafeInv' /\ FreshInv'
    BY <1>0, <2>1 DEF OrderInv, QueuesInv, UnsafeInv, FreshInv, Callbacks
  <2> QED
    BY <2>2, <2>3, <2>4 DEF OrderInv
<1>3. CASE queue # << >>
  <2> DEFINE h == Head(queue)
  <2>1. queue' = Tail(queue) /\ pc' = pc
    BY <1>3 DEF Collect
  <2>2. /\ queue' \in Seq(Nat) /\ h \in Nat /\ In(h, queue) /\ Increasing(queue')
        /\ \A c : In(c, queue') <=> In(c, queue) /\ c # h
        /\ \A c : In(c, queue') => h < c
    BY <1>1, <1>3, <2>1, PopQueue DEF OrderInv, QueuesInv
  <2>3. h \in Added
    BY <1>1, <2>2
  <2>4. safe[h] => staged' = staged \cup {h} /\ UNCHANGED <<waiting, numUnsafe>>
    BY <1>3 DEF Collect
  <2>5. ~safe[h] => waiting' = Append(waiting, h) /\ numUnsafe' = numUnsafe + 1 /\ staged' = staged
    BY <1>3 DEF Collect
  <2> HIDE DEF h
  <2>6. queue' \in Seq(Added)
    BY <1>1, <2>2, QueueOver
  <2>7. FreshInv'
    BY <1>0 DEF OrderInv, FreshInv, Callbacks
  <2>8. CASE safe[h]
    <3>1. TypeOK'
      BY <1>0, <2>1, <2>3, <2>4, <2>6, <2>8 DEF TypeOK
    <3>2. SafeInv'
      BY <1>0, <2>1, <2>4, <2>8 DEF OrderInv, SafeInv
    <3>3. QueuesInv'
      BY <1>0, <2>2, <2>4, <2>8 DEF OrderInv, QueuesInv
    <3>4. UnsafeInv'
      BY <1>0, <2>2, <2>4, <2>8 DEF OrderInv, UnsafeInv
    <3> QED
      BY <2>7, <3>1, <3>2, <3>3, <3>4 DEF OrderInv
  <2>9. CASE ~safe[h]
    <3>0. waiting' = Append(waiting, h)
      BY <2>5, <2>9
    <3>1. /\ waiting' \in Seq(Nat) /\ Len(waiting') = Len(waiting) + 1
          /\ \A c : In(c, waiting') <=> In(c, waiting) \/ c = h
      BY <1>1, <2>2, <3>0, PushQueue
    <3>2. \A c : In(c, waiting) => c < h
      BY <1>1, <2>2, <2>3 DEF OrderInv, QueuesInv
    <3>3. Increasing(waiting')
      BY <1>1, <2>2, <3>0, <3>2, PushQueue DEF OrderInv, QueuesInv
    <3>4. waiting' \in Seq(Added)
      BY <1>1, <2>3, <3>1, QueueOver
    <3>5. TypeOK'
      BY <1>0, <2>1, <2>5, <2>6, <2>9, <3>4 DEF TypeOK
    <3>6. SafeInv'
      BY <1>0, <2>1, <2>5, <2>9 DEF OrderInv, SafeInv
    <3>7. QueuesInv'
      <4>1. \A c \in Added : In(c, waiting') => ~safe[c]
        BY <2>9, <3>1 DEF OrderInv, QueuesInv
      <4>2. \A c, d \in Added : (In(c, waiting') /\ In(d, queue')) => c < d
        BY <2>2, <3>1 DEF OrderInv, QueuesInv
      <4>3. numUnsafe' = Len(waiting')
        BY <2>5, <2>9, <3>1 DEF OrderInv, QueuesInv
      <4> QED
        BY <1>0, <2>2, <3>3, <4>1, <4>2, <4>3 DEF QueuesInv
    <3>8. UnsafeInv'
      BY <1>0, <2>2, <3>1 DEF OrderInv, UnsafeInv
    <3> QED
      BY <2>7, <3>5, <3>6, <3>7, <3>8 DEF OrderInv
  <2> QED
    BY <2>8, <2>9
<1> QED
  BY <1>2, <1>3

\* The head of those that wait is executed; it is the first of all that are
\* not executed.
LEMMA RunStep ==
    ASSUME TypeOK, OrderInv, RunUnsafe
    PROVE  TypeOK' /\ OrderInv'
<1>0. /\ UNCHANGED <<safe, queue, staged, inside, todo, cancelled, delay>> /\ pc = "unsafe"
      /\ pc' \in {"unsafe", "join"} /\ Added' = Added
  BY DEF RunUnsafe, Added
<1>1. SafeInv'
  BY <1>0 DEF OrderInv, SafeInv
<1>2. CASE waiting = << >>
  <2>1. UNCHANGED <<waiting, numUnsafe, ran>>
    BY <1>2 DEF RunUnsafe
  <2>2. TypeOK'
    BY <1>0, <2>1 DEF TypeOK
  <2>3. QueuesInv' /\ UnsafeInv' /\ FreshInv'
    BY <1>0, <2>1 DEF OrderInv, QueuesInv, UnsafeInv, FreshInv, Callbacks
  <2> QED
    BY <1>1, <2>2, <2>3 DEF OrderInv
<1>3. CASE waiting # << >>
  <2> DEFINE h == Head(waiting)
  <2>1. /\ waiting' = Tail(waiting) /\ numUnsafe' = numUnsafe - 1
        /\ ran' = [ran EXCEPT ![h] = @ + 1]
    BY <1>3 DEF RunUnsafe
  <2>2. /\ waiting \in Seq(Nat) /\ Added \subseteq Callbacks
        /\ \A c : In(c, queue) => c \in Added
        /\ \A c : In(c, waiting) => c \in Added
    BY Facts
  <2>3. /\ waiting' \in Seq(Nat) /\ h \in Nat /\ In(h, waiting) /\ Increasing(waiting')
        /\ Len(waiting') = Len(waiting) - 1 /\ Len(waiting) \in Nat \ {0}
        /\ \A c : In(c, waiting') <=> In(c, waiting) /\ c # h
        /\ \A c : In(c, waiting') => h < c
    BY <1>3, <2>1, <2>2, PopQueue DEF OrderInv, QueuesInv
  <2>4. h \in Added /\ h \in Callbacks
    BY <2>2, <2>3
  <2> HIDE DEF h
  <2>5. ~safe[h] /\ ran[h] = 0
    BY <2>3, <2>4 DEF OrderInv, QueuesInv, UnsafeInv
  <2>6. ran'[h] = 1 /\ \A c \in Callbacks \ {h} : ran'[c] = ran[c]
    BY <2>1, <2>4, <2>5 DEF TypeOK
  <2>7. waiting' \in Seq(Added)
    BY <2>2, <2>3, QueueOver
  <2>8. numUnsafe' = Len(waiting') /\ numUnsafe' \in Nat
    BY <2>1, <2>3 DEF OrderInv, QueuesInv
  <2>9. TypeOK'
    <3>1. ran' \in [Callbacks -> Nat]
      BY <2>1, <2>4 DEF TypeOK
    <3> QED
      BY <1>0, <2>7, <2>8, <3>1 DEF TypeOK
  <2>10. QueuesInv'
    BY <1>0, <2>3, <2>8 DEF OrderInv, QueuesInv
  <2>11. UnsafeInv'
    <3>1. \A d \in Added : In(d, queue) => h < d
      BY <2>3, <2>4 DEF OrderInv, QueuesInv
    <3>2. ~In(h, queue) /\ ~In(h, waiting')
      BY <2>3, <2>4, <3>1
    <3> QED
      BY <1>0, <2>2, <2>3, <2>6, <3>1, <3>2 DEF OrderInv, UnsafeInv
  <2>12. FreshInv'
    <3>1. \A c \in Callbacks \ Added : ran'[c] = 0
      BY <2>4, <2>6 DEF OrderInv, FreshInv
    <3> QED
      BY <1>0, <3>1 DEF FreshInv, Callbacks
  <2> QED
    BY <1>1, <2>9, <2>10, <2>11, <2>12 DEF OrderInv
<1> QED
  BY <1>2, <1>3

\* CancelAll() executes the head of the queue, which is in neither queue then,
\* and marks it as one without a result.
LEMMA CancelStep ==
    ASSUME TypeOK, OrderInv, CancelAll
    PROVE  TypeOK' /\ OrderInv'
<1>0. /\ UNCHANGED <<safe, waiting, numUnsafe, staged, inside, todo, delay>> /\ pc = "cancel"
      /\ Added' = Added /\ pc' \in {"cancel", "deleted"}
  BY DEF CancelAll, Added
<1>1. SafeInv'
  BY <1>0 DEF OrderInv, SafeInv
<1>2. CASE queue = << >>
  <2>1. UNCHANGED <<queue, ran, cancelled>>
    BY <1>2 DEF CancelAll
  <2>2. TypeOK'
    BY <1>0, <2>1 DEF TypeOK
  <2>3. QueuesInv' /\ UnsafeInv' /\ FreshInv'
    BY <1>0, <2>1 DEF OrderInv, QueuesInv, UnsafeInv, FreshInv, Callbacks
  <2> QED
    BY <1>1, <2>2, <2>3 DEF OrderInv
<1>3. CASE queue # << >>
  <2> DEFINE h == Head(queue)
  <2>1. /\ queue' = Tail(queue) /\ cancelled' = cancelled \cup {h}
        /\ ran' = [ran EXCEPT ![h] = @ + 1]
    BY <1>3 DEF CancelAll
  <2>2. /\ queue \in Seq(Nat) /\ Added \subseteq Callbacks
        /\ \A c : In(c, queue) => c \in Added
        /\ \A c : In(c, waiting) => c \in Added
    BY Facts
  <2>3. /\ queue' \in Seq(Nat) /\ h \in Nat /\ In(h, queue) /\ Increasing(queue')
        /\ \A c : In(c, queue') <=> In(c, queue) /\ c # h
    BY <1>3, <2>1, <2>2, PopQueue DEF OrderInv, QueuesInv
  <2>4. h \in Added /\ h \in Callbacks
    BY <2>2, <2>3
  <2> HIDE DEF h
  <2>5. ran'[h] = ran[h] + 1 /\ \A c \in Callbacks \ {h} : ran'[c] = ran[c]
    BY <2>1, <2>4 DEF TypeOK
  <2>6. queue' \in Seq(Added)
    BY <2>2, <2>3, QueueOver
  <2>7. TypeOK'
    <3>1. ran' \in [Callbacks -> Nat]
      BY <2>1, <2>4 DEF TypeOK
    <3>2. cancelled' \subseteq Added
      BY <2>1, <2>4 DEF TypeOK
    <3> QED
      BY <1>0, <2>6, <3>1, <3>2 DEF TypeOK
  <2>8. QueuesInv'
    BY <1>0, <2>3 DEF OrderInv, QueuesInv
  <2>9. UnsafeInv'
    <3>1. ~In(h, waiting)
      BY <2>3, <2>4 DEF OrderInv, QueuesInv
    <3>2. ~safe[h] => ran'[h] = 1
      BY <2>3, <2>4, <2>5 DEF OrderInv, UnsafeInv
    <3> QED
      BY <1>0, <2>1, <2>2, <2>3, <2>5, <3>1, <3>2 DEF OrderInv, UnsafeInv
  <2>10. FreshInv'
    <3>1. \A c \in Callbacks \ Added : ran'[c] = 0
      BY <2>4, <2>5 DEF OrderInv, FreshInv
    <3> QED
      BY <1>0, <3>1 DEF FreshInv, Callbacks
  <2> QED
    BY <1>1, <2>7, <2>8, <2>9, <2>10 DEF OrderInv
<1> QED
  BY <1>2, <1>3

\* The pool executes only callbacks that are thread-safe.
LEMMA PoolStep ==
    ASSUME TypeOK, OrderInv, NEW c \in Callbacks, PoolExecutes(c)
    PROVE  TypeOK' /\ OrderInv'
<1>1. /\ UNCHANGED <<safe, queue, waiting, numUnsafe, staged, inside, cancelled, delay, pc>>
      /\ inside /\ c \in todo /\ todo' = todo \ {c}
      /\ ran' = [ran EXCEPT ![c] = @ + 1] /\ Added' = Added
  BY DEF PoolExecutes, Pool!Execute, Added
<1>2. /\ ran' \in [Callbacks -> Nat] /\ \A d \in Callbacks \ {c} : ran'[d] = ran[d]
      /\ c \in Added /\ Added \subseteq Callbacks
  BY <1>1, Facts DEF TypeOK
<1>3. safe[c]
  BY <1>1 DEF OrderInv, SafeInv
<1>4. TypeOK'
  BY <1>1, <1>2 DEF TypeOK
<1>5. SafeInv'
  BY <1>1 DEF OrderInv, SafeInv
<1>6. QueuesInv'
  BY <1>1 DEF OrderInv, QueuesInv
<1>7. UnsafeInv'
  BY <1>1, <1>2, <1>3 DEF OrderInv, UnsafeInv
<1>8. FreshInv'
  <2>1. \A d \in Callbacks \ Added : ran'[d] = 0
    BY <1>2 DEF OrderInv, FreshInv
  <2> QED
    BY <1>1, <2>1 DEF FreshInv, Callbacks
<1> QED
  BY <1>4, <1>5, <1>6, <1>7, <1>8 DEF OrderInv

\* The other steps touch neither queue and execute nothing.
LEMMA OtherStep ==
    ASSUME TypeOK, OrderInv,
           BeginUpdate \/ Submit \/ JoinPool \/ WorldEnds \/ Halted \/ Deleted \/ UNCHANGED vars
    PROVE  TypeOK' /\ OrderInv'
<1>1. /\ UNCHANGED <<safe, queue, waiting, numUnsafe, ran, cancelled>> /\ Added' = Added
  BY DEF BeginUpdate, Submit, JoinPool, WorldEnds, Halted, Deleted, Pool!Call, Pool!Return, poolVars,
         vars, Added
<1>2. QueuesInv' /\ UnsafeInv' /\ FreshInv'
  BY <1>1 DEF OrderInv, QueuesInv, UnsafeInv, FreshInv, Callbacks
<1>3. /\ staged' \subseteq Added /\ todo' \subseteq Added
      /\ pc' \in {"tick", "collect", "submit", "unsafe", "join", "halt", "cancel", "deleted"}
  BY DEF BeginUpdate, Submit, JoinPool, WorldEnds, Halted, Deleted, Pool!Call, Pool!Return, poolVars,
         vars, TypeOK
<1>4. inside' \in BOOLEAN /\ delay' \in BOOLEAN
  BY DEF BeginUpdate, Submit, JoinPool, WorldEnds, Halted, Deleted, Pool!Call, Pool!Return, poolVars,
         vars, TypeOK
<1>5. TypeOK'
  BY <1>1, <1>3, <1>4 DEF TypeOK
<1>6. SafeInv'
  <2>1. CASE Submit
    <3>1. /\ staged' = {} /\ pc' = "unsafe" /\ safe' = safe /\ pc = "submit"
          /\ (staged = {} /\ UNCHANGED <<inside, todo>>) \/ (inside' /\ todo' = staged)
      BY <2>1 DEF Submit, Pool!Call, poolVars
    <3> QED
      BY <3>1 DEF OrderInv, SafeInv
  <2>2. CASE JoinPool
    <3>1. ~inside' /\ todo' = {} /\ staged' = staged /\ safe' = safe /\ pc = "join"
      BY <2>2 DEF JoinPool, Pool!Return, poolVars, OrderInv, SafeInv
    <3> QED
      BY <3>1 DEF OrderInv, SafeInv
  <2>3. CASE BeginUpdate \/ WorldEnds \/ Halted
    BY <2>3 DEF BeginUpdate, WorldEnds, Halted, poolVars, OrderInv, SafeInv
  <2>4. CASE Deleted \/ UNCHANGED vars
    BY <2>4 DEF Deleted, vars, poolVars, OrderInv, SafeInv
  <2> QED
    BY <2>1, <2>2, <2>3, <2>4
<1> QED
  BY <1>2, <1>5, <1>6 DEF OrderInv

-----------------------------------------------------------------------------
(* Every step keeps PlaceInv.                                              *)

\* A step that keeps what is held, and executes nothing, keeps the count of all.
LEMMA SameHeld ==
    ASSUME PlaceInv, Added' = Added, ran' = ran, \A c \in Added : Held(c)' <=> Held(c)
    PROVE  \A c \in Added' : ran'[c] = IF Held(c)' THEN 0 ELSE 1
  BY DEF PlaceInv

\* A step that executes h, which was held and is no longer.
LEMMA OneExecuted ==
    ASSUME TypeOK, PlaceInv, Added' = Added, NEW h \in Added, Held(h), ~Held(h)',
           ran' = [ran EXCEPT ![h] = @ + 1],
           \A c \in Added \ {h} : Held(c)' <=> Held(c)
    PROVE  \A c \in Added' : ran'[c] = IF Held(c)' THEN 0 ELSE 1
<1>1. Added \subseteq Callbacks
  BY Facts
<1>2. ran'[h] = ran[h] + 1 /\ \A c \in Added \ {h} : ran'[c] = ran[c]
  BY <1>1 DEF TypeOK
<1> QED
  BY <1>2 DEF PlaceInv

\* A new callback is held by the queue; its number was not executed.
LEMMA AddPlace ==
    ASSUME TypeOK, OrderInv, PlaceInv, NEW s \in BOOLEAN, Add(s)
    PROVE  PlaceInv'
<1>0. PICK n : n = Len(safe) + 1
  OBVIOUS
<1>1. /\ safe' = Append(safe, s) /\ queue' = Append(queue, n) /\ delay
      /\ UNCHANGED <<waiting, staged, todo, ran, delay, pc>> /\ Len(safe) < MaxCallbacks
  BY <1>0 DEF Add, poolVars
<1>2. /\ Added = 1 .. Len(safe) /\ Len(safe) \in Nat /\ queue \in Seq(Nat)
      /\ \A c : In(c, waiting) => c \in Added
  BY Facts
<1>3. Added' = Added \cup {n}
  BY <1>0, <1>1, Grow DEF TypeOK, Added
<1>4. n \in Nat /\ n \notin Added /\ n \in Callbacks
  BY <1>0, <1>1, <1>2, ResultQueueAssumption DEF Callbacks
<1>5. \A c : In(c, queue') <=> In(c, queue) \/ c = n
  BY <1>1, <1>2, <1>4, PushQueue
<1>6. staged \subseteq Added /\ todo \subseteq Added
  BY DEF TypeOK
<1>7. ran[n] = 0
  BY <1>4 DEF OrderInv, FreshInv
<1>8. \A c \in Added : Held(c)' <=> Held(c)
  BY <1>1, <1>4, <1>5 DEF Held
<1>9. Held(n)'
  BY <1>5 DEF Held
<1>10. \A c \in Added' : ran'[c] = IF Held(c)' THEN 0 ELSE 1
  BY <1>1, <1>3, <1>7, <1>8, <1>9 DEF PlaceInv
<1>11. \A c \in staged' \cup todo' : ~In(c, queue')
  BY <1>1, <1>4, <1>5, <1>6 DEF PlaceInv
<1>12. pc' \notin {"cancel", "deleted"}
  BY <1>1 DEF PlaceInv
<1> QED
  BY <1>10, <1>11, <1>12 DEF PlaceInv

\* The head of the queue is held by the pool's workload, or waits.
LEMMA CollectPlace ==
    ASSUME TypeOK, OrderInv, PlaceInv, Collect
    PROVE  PlaceInv'
<1>0. UNCHANGED <<safe, todo, ran, delay>> /\ pc = "collect" /\ Added' = Added /\ pc' \in {"collect", "submit"}
  BY DEF Collect, poolVars, Added
<1>1. CASE queue = << >>
  <2>1. UNCHANGED <<queue, waiting, staged>>
    BY <1>1 DEF Collect
  <2> QED
    BY <1>0, <2>1, SameHeld DEF PlaceInv, Held
<1>2. CASE queue # << >>
  <2> DEFINE h == Head(queue)
  <2>1. /\ queue' = Tail(queue)
        /\ safe[h] => staged' = staged \cup {h} /\ UNCHANGED waiting
        /\ ~safe[h] => waiting' = Append(waiting, h) /\ UNCHANGED staged
    BY <1>2 DEF Collect
  <2>2. queue \in Seq(Nat) /\ waiting \in Seq(Nat)
    BY Facts
  <2>3. h \in Nat /\ In(h, queue) /\ \A c : In(c, queue') <=> In(c, queue) /\ c # h
    BY <1>2, <2>1, <2>2, PopQueue DEF OrderInv, QueuesInv
  <2> HIDE DEF h
  <2>4. \A c : (In(c, waiting') \/ c \in staged') <=> (In(c, waiting) \/ c \in staged \/ c = h)
    <3>1. CASE safe[h]
      BY <2>1, <3>1
    <3>2. CASE ~safe[h]
      <4>1. waiting' = Append(waiting, h) /\ staged' = staged
        BY <2>1, <3>2
      <4>2. \A c : In(c, waiting') <=> In(c, waiting) \/ c = h
        BY <2>2, <2>3, <4>1, PushQueue
      <4> QED
        BY <4>1, <4>2
    <3> QED
      BY <3>1, <3>2
  <2>5. \A c \in Added : Held(c)' <=> Held(c)
    BY <1>0, <2>3, <2>4 DEF Held
  <2>6. \A c \in staged' \cup todo' : ~In(c, queue')
    BY <1>0, <2>1, <2>3 DEF PlaceInv
  <2>7. \A c \in Added' : ran'[c] = IF Held(c)' THEN 0 ELSE 1
    BY <1>0, <2>5, SameHeld
  <2> QED
    BY <1>0, <2>6, <2>7 DEF PlaceInv
<1> QED
  BY <1>1, <1>2

\* A callback that waited is executed.
LEMMA RunPlace ==
    ASSUME TypeOK, OrderInv, PlaceInv, RunUnsafe
    PROVE  PlaceInv'
<1>0. /\ UNCHANGED <<safe, queue, staged, todo, delay>> /\ pc = "unsafe" /\ pc' \in {"unsafe", "join"}
      /\ Added' = Added
  BY DEF RunUnsafe, Added
<1>1. CASE waiting = << >>
  <2>1. UNCHANGED <<waiting, ran>>
    BY <1>1 DEF RunUnsafe
  <2> QED
    BY <1>0, <2>1, SameHeld DEF PlaceInv, Held
<1>2. CASE waiting # << >>
  <2>0. PICK h : h = Head(waiting)
    OBVIOUS
  <2>1. waiting' = Tail(waiting) /\ ran' = [ran EXCEPT ![h] = @ + 1]
    BY <1>2, <2>0 DEF RunUnsafe
  <2>2. waiting \in Seq(Nat) /\ \A c : In(c, waiting) => c \in Added
    BY Facts
  <2>3. h \in Nat /\ In(h, waiting) /\ \A c : In(c, waiting') <=> In(c, waiting) /\ c # h
    BY <1>2, <2>0, <2>1, <2>2, PopQueue DEF OrderInv, QueuesInv
  <2>4. h \in Added
    BY <2>2, <2>3
  <2>5. h \notin staged /\ h \notin todo /\ ~In(h, queue)
    BY <2>3, <2>4 DEF OrderInv, QueuesInv, SafeInv
  <2>6. Held(h) /\ ~Held(h)' /\ \A c \in Added \ {h} : Held(c)' <=> Held(c)
    BY <1>0, <2>3, <2>5 DEF Held
  <2>7. \A c \in Added' : ran'[c] = IF Held(c)' THEN 0 ELSE 1
    BY <1>0, <2>1, <2>4, <2>6, OneExecuted
  <2> QED
    BY <1>0, <2>7 DEF PlaceInv
<1> QED
  BY <1>1, <1>2

\* CancelAll() executes what is in the queue; at its end the queue is empty.
LEMMA CancelPlace ==
    ASSUME TypeOK, OrderInv, PlaceInv, CancelAll
    PROVE  PlaceInv'
<1>0. UNCHANGED <<safe, waiting, staged, todo, delay>> /\ pc = "cancel" /\ Added' = Added
  BY DEF CancelAll, Added
<1>1. CASE queue = << >>
  <2>1. UNCHANGED <<queue, ran>>
    BY <1>1 DEF CancelAll
  <2> QED
    BY <1>0, <1>1, <2>1, SameHeld DEF PlaceInv, Held
<1>2. CASE queue # << >>
  <2>0. PICK h : h = Head(queue)
    OBVIOUS
  <2>1. queue' = Tail(queue) /\ ran' = [ran EXCEPT ![h] = @ + 1] /\ pc' = pc
    BY <1>2, <2>0 DEF CancelAll
  <2>2. queue \in Seq(Nat) /\ \A c : In(c, queue) => c \in Added
    BY Facts
  <2>3. h \in Nat /\ In(h, queue) /\ \A c : In(c, queue') <=> In(c, queue) /\ c # h
    BY <1>2, <2>0, <2>1, <2>2, PopQueue DEF OrderInv, QueuesInv
  <2>4. h \in Added
    BY <2>2, <2>3
  <2>5. h \notin staged /\ h \notin todo
    BY <2>3 DEF PlaceInv
  <2>6. ~In(h, waiting)
    BY <2>3, <2>4 DEF OrderInv, QueuesInv
  <2>7. Held(h) /\ ~Held(h)' /\ \A c \in Added \ {h} : Held(c)' <=> Held(c)
    BY <1>0, <2>3, <2>5, <2>6 DEF Held
  <2>8. \A c \in Added' : ran'[c] = IF Held(c)' THEN 0 ELSE 1
    BY <1>0, <2>1, <2>4, <2>7, OneExecuted
  <2>9. \A c \in staged' \cup todo' : ~In(c, queue')
    BY <1>0, <2>3 DEF PlaceInv
  <2> QED
    BY <1>0, <2>1, <2>8, <2>9 DEF PlaceInv
<1> QED
  BY <1>1, <1>2

\* The pool executes what it was given: it waits in neither queue.
LEMMA PoolPlace ==
    ASSUME TypeOK, OrderInv, PlaceInv, NEW h \in Callbacks, PoolExecutes(h)
    PROVE  PlaceInv'
<1>1. /\ UNCHANGED <<safe, queue, waiting, staged, inside, delay, pc>> /\ inside
      /\ h \in todo /\ todo' = todo \ {h} /\ ran' = [ran EXCEPT ![h] = @ + 1] /\ Added' = Added
  BY DEF PoolExecutes, Pool!Execute, Added
<1>2. h \in Added /\ safe[h]
  BY <1>1 DEF TypeOK, OrderInv, SafeInv
<1>3. h \notin staged
  BY <1>1 DEF OrderInv, SafeInv
<1>4. ~In(h, waiting)
  BY <1>2 DEF OrderInv, QueuesInv
<1>5. ~In(h, queue)
  BY <1>1 DEF PlaceInv
<1>6. Held(h) /\ ~Held(h)' /\ \A c \in Added \ {h} : Held(c)' <=> Held(c)
  BY <1>1, <1>3, <1>4, <1>5 DEF Held
<1>7. \A c \in Added' : ran'[c] = IF Held(c)' THEN 0 ELSE 1
  BY <1>1, <1>2, <1>6, OneExecuted
<1> QED
  BY <1>1, <1>7 DEF PlaceInv

\* The other steps hand callbacks over or move the owner.
LEMMA OtherPlace ==
    ASSUME TypeOK, OrderInv, PlaceInv,
           BeginUpdate \/ Submit \/ JoinPool \/ WorldEnds \/ Halted \/ Deleted \/ UNCHANGED vars
    PROVE  PlaceInv'
<1>1. /\ UNCHANGED <<safe, queue, waiting, ran>> /\ Added' = Added
  BY DEF BeginUpdate, Submit, JoinPool, WorldEnds, Halted, Deleted, Pool!Call, Pool!Return, poolVars,
         vars, Added
<1>2. staged' \cup todo' = staged \cup todo
  <2>1. CASE Submit
    <3>1. staged' = {} /\ ((staged = {} /\ todo' = todo) \/ (~inside /\ todo' = staged))
      BY <2>1 DEF Submit, Pool!Call, poolVars
    <3> QED
      BY <3>1 DEF OrderInv, SafeInv
  <2>2. CASE ~Submit
    BY <2>2 DEF BeginUpdate, JoinPool, WorldEnds, Halted, Deleted, Pool!Return, poolVars, vars
  <2> QED
    BY <2>1, <2>2
<1>3. \A c \in Added : Held(c)' <=> Held(c)
  BY <1>1, <1>2 DEF Held
<1>4. \A c \in Added' : ran'[c] = IF Held(c)' THEN 0 ELSE 1
  BY <1>1, <1>3, SameHeld
<1>5. (pc' \in {"cancel", "deleted"} => ~delay') /\ (pc' = "deleted" => queue = << >>)
  BY DEF BeginUpdate, Submit, JoinPool, WorldEnds, Halted, Deleted, vars, PlaceInv
<1> QED
  BY <1>1, <1>2, <1>4, <1>5 DEF PlaceInv

-----------------------------------------------------------------------------
(* The theorems.                                                           *)

\* In every reachable state the callbacks that are not thread-safe are in
\* their queues, in order and not executed, or were executed once.
THEOREM Order == Spec => [](TypeOK /\ OrderInv)
<1>1. Init => TypeOK /\ OrderInv
  <2> SUFFICES ASSUME Init PROVE TypeOK /\ OrderInv
    OBVIOUS
  <2>1. safe = << >> /\ queue = << >> /\ waiting = << >>
    BY DEF Init
  <2>2. /\ Added = {} /\ safe \in Seq(BOOLEAN) /\ Len(safe) = 0 /\ Len(waiting) = 0
        /\ queue \in Seq(Added) /\ waiting \in Seq(Added)
    BY <2>1, NoElements DEF Added
  <2>3. Increasing(queue) /\ Increasing(waiting)
    BY <2>1, EmptyQueue
  <2>4. /\ numUnsafe = 0 /\ staged = {} /\ inside = FALSE /\ todo = {} /\ cancelled = {}
        /\ delay = TRUE /\ pc = "tick" /\ ran = [c \in Callbacks |-> 0]
    BY DEF Init
  <2>5. inside \in BOOLEAN /\ delay \in BOOLEAN
    BY <2>4
  <2>6. TypeOK
    BY <2>2, <2>4, <2>5, ResultQueueAssumption DEF TypeOK
  <2>7. SafeInv
    BY <2>4 DEF SafeInv
  <2>8. QueuesInv /\ UnsafeInv
    BY <2>2, <2>3, <2>4 DEF QueuesInv, UnsafeInv
  <2>9. FreshInv
    BY <2>4 DEF FreshInv
  <2> QED
    BY <2>6, <2>7, <2>8, <2>9 DEF OrderInv
<1>2. TypeOK /\ OrderInv /\ [Next]_vars => (TypeOK /\ OrderInv)'
  BY AddStep, CollectStep, RunStep, CancelStep, PoolStep, OtherStep DEF Next, OwnerStep
<1> QED
  BY <1>1, <1>2, PTL DEF Spec

\* Callbacks that are not thread-safe never run on the pool, and are executed
\* in the order of their results, over any number of ticks that ran out of
\* time.
THEOREM InOrder == Spec => []UnsafeInOrder
<1>1. TypeOK /\ OrderInv => UnsafeInOrder
  <2> SUFFICES ASSUME TypeOK, OrderInv PROVE UnsafeInOrder
    OBVIOUS
  <2>1. \A c \in todo : safe[c]
    BY DEF OrderInv, SafeInv
  <2>2. ASSUME NEW c \in Added, NEW d \in Added, c < d, ~safe[c], ~safe[d], ran[d] = 1, d \notin cancelled
        PROVE  ran[c] = 1
    <3>1. c \in Nat /\ d \in Nat
      BY Facts
    <3>2. ~In(c, queue) /\ ~In(c, waiting)
      BY <2>2, <3>1 DEF OrderInv, UnsafeInv
    <3> QED
      BY <2>2, <3>2 DEF OrderInv, UnsafeInv
  <2> QED
    BY <2>1, <2>2 DEF UnsafeInOrder
<1> QED
  BY <1>1, Order, PTL

\* No thread of the pool runs a callback outside Update().
THEOREM PoolInUpdate == Spec => []PoolOnlyInUpdate
<1>1. OrderInv => PoolOnlyInUpdate
  BY DEF OrderInv, SafeInv, PoolOnlyInUpdate
<1> QED
  BY <1>1, Order, PTL

\* In every reachable state a callback is held and was not executed, or is not
\* and was.
THEOREM Place == Spec => []PlaceInv
<1>1. Init => PlaceInv
  <2> SUFFICES ASSUME Init PROVE PlaceInv
    OBVIOUS
  <2>1. Added = {} /\ staged = {} /\ todo = {} /\ pc = "tick"
    BY Empty DEF Init, Added
  <2> QED
    BY <2>1 DEF PlaceInv
<1>2. TypeOK /\ OrderInv /\ PlaceInv /\ [Next]_vars => PlaceInv'
  BY AddPlace, CollectPlace, RunPlace, CancelPlace, PoolPlace, OtherPlace DEF Next, OwnerStep
<1> QED
  BY <1>1, <1>2, Order, PTL DEF Spec

\* Every callback is in one place and executed once at most, and the counter of
\* the unsafe ones is right.
THEOREM OneHolder == Spec => []OnePlace
<1>1. TypeOK /\ OrderInv /\ PlaceInv => OnePlace
  <2> SUFFICES ASSUME TypeOK, OrderInv, PlaceInv PROVE OnePlace
    OBVIOUS
  <2>1. numUnsafe = Len(waiting)
    BY DEF OrderInv, QueuesInv
  <2> SUFFICES ASSUME NEW c \in Added
               PROVE    Cardinality({k \in DOMAIN queue : queue[k] = c})
                      + Cardinality({k \in DOMAIN waiting : waiting[k] = c})
                      + Cardinality({c} \cap staged) + Cardinality({c} \cap todo) + ran[c] = 1
    BY <2>1 DEF OnePlace
  <2>2. queue \in Seq(Nat) /\ waiting \in Seq(Nat) /\ Added \subseteq Nat
    BY Facts
  <2>3. /\ Cardinality({k \in DOMAIN queue : queue[k] = c}) = IF In(c, queue) THEN 1 ELSE 0
        /\ Cardinality({k \in DOMAIN waiting : waiting[k] = c}) = IF In(c, waiting) THEN 1 ELSE 0
    BY <2>2, CountOccurrences DEF OrderInv, QueuesInv, Increasing, In
  <2>4. ASSUME NEW S PROVE Cardinality({c} \cap S) = IF c \in S THEN 1 ELSE 0
    <3>1. {c} \cap S = IF c \in S THEN {c} ELSE {}
      OBVIOUS
    <3> QED
      BY <3>1, FS_EmptySet, FS_Singleton
  <2>5. In(c, queue) => ~In(c, waiting) /\ c \notin staged /\ c \notin todo
    <3>1. ~(In(c, queue) /\ In(c, waiting))
      BY <2>2 DEF OrderInv, QueuesInv
    <3> QED
      BY <3>1 DEF PlaceInv
  <2>6. In(c, waiting) => c \notin staged /\ c \notin todo
    BY DEF OrderInv, QueuesInv, SafeInv
  <2>7. c \in staged => c \notin todo
    BY DEF OrderInv, SafeInv
  <2>8. ran[c] = IF In(c, queue) \/ In(c, waiting) \/ c \in staged \/ c \in todo THEN 0 ELSE 1
    BY DEF PlaceInv, Held
  <2>9. Cardinality({c} \cap staged) = (IF c \in staged THEN 1 ELSE 0) /\
        Cardinality({c} \cap todo) = (IF c \in todo THEN 1 ELSE 0)
    BY <2>4
  <2> QED
    BY <2>3, <2>5, <2>6, <2>7, <2>8, <2>9
<1> QED
  BY <1>1, Order, Place, PTL

\* When the queue is deleted only the callbacks that waited for a later tick
\* were not executed.
THEOREM CancelReaches == Spec => []CancelReachesQueued
<1>1. OrderInv /\ TypeOK /\ PlaceInv => CancelReachesQueued
  <2> SUFFICES ASSUME TypeOK, OrderInv, PlaceInv, pc = "deleted"
               PROVE  {c \in Added : ran[c] # 1} = {waiting[k] : k \in DOMAIN waiting}
    BY DEF CancelReachesQueued
  <2>1. staged = {} /\ todo = {} /\ \A c : ~In(c, queue)
    BY EmptyQueue DEF OrderInv, SafeInv, PlaceInv
  <2>2. \A c \in Added : ran[c] # 1 <=> In(c, waiting)
    BY <2>1 DEF PlaceInv, Held
  <2>3. \A c : In(c, waiting) => c \in Added
    BY Facts
  <2> QED
    BY <2>2, <2>3 DEF In
<1> QED
  BY <1>1, Order, Place, PTL
=============================================================================
