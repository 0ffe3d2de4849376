------------------------- MODULE SessionQueueSteps -------------------------
(***************************************************************************)
(* Every step of module SessionQueue preserves IndInv, given the facts     *)
(* about finite sets and about the two kinds of queue that Facts collects. *)
(* Module SessionQueueProofs proves Facts and draws the conclusions.       *)
(***************************************************************************)
EXTENDS SessionQueueInv, TLAPS

(***************************************************************************)
(* What the steps need to know of finite sets.                             *)
(***************************************************************************)
\* An interval is finite.
IntervalFact == \A a, b \in Int : IsFiniteSet(a .. b)

\* A part of a finite set is finite and not larger.
SubsetFact == \A S : IsFiniteSet(S) => \A T \in SUBSET S : IsFiniteSet(T) /\ Cardinality(T) <= Cardinality(S)

\* The size of a finite set is a natural number.
SizeFact == \A S : IsFiniteSet(S) => Cardinality(S) \in Nat

\* An element more.
AddFact == \A S, x : IsFiniteSet(S) =>
    /\ IsFiniteSet(S \cup {x})
    /\ Cardinality(S \cup {x}) = IF x \in S THEN Cardinality(S) ELSE Cardinality(S) + 1

\* An element less.
RemoveFact == \A S, x : IsFiniteSet(S) =>
    /\ IsFiniteSet(S \ {x})
    /\ Cardinality(S \ {x}) = IF x \in S THEN Cardinality(S) - 1 ELSE Cardinality(S)

\* Only the empty set has size 0.
EmptyFact == \A S : IsFiniteSet(S) => (Cardinality(S) = 0 <=> S = {})

\* Two sets together.
UnionFact == \A S, T : IsFiniteSet(S) /\ IsFiniteSet(T) =>
    /\ IsFiniteSet(S \cup T)
    /\ Cardinality(S \cup T) = Cardinality(S) + Cardinality(T) - Cardinality(S \cap T)

\* What two sets share.
IntersectionFact == \A S, T : IsFiniteSet(S) =>
    /\ IsFiniteSet(S \cap T) /\ IsFiniteSet(T \cap S)
    /\ Cardinality(S \cap T) <= Cardinality(S) /\ Cardinality(T \cap S) <= Cardinality(S)

\* Two sets that share nothing.
BothFact == \A S, T : IsFiniteSet(S) /\ IsFiniteSet(T) /\ S \cap T = {} =>
    /\ IsFiniteSet(S \cup T)
    /\ Cardinality(S \cup T) = Cardinality(S) + Cardinality(T)
    /\ Cardinality(S) \in Nat /\ Cardinality(T) \in Nat

\* A set without a part of it.
RestFact == \A S, T : IsFiniteSet(S) /\ T \subseteq S =>
    /\ IsFiniteSet(S \ T) /\ IsFiniteSet(T)
    /\ Cardinality(S \ T) = Cardinality(S) - Cardinality(T)
    /\ Cardinality(S) \in Nat /\ Cardinality(T) \in Nat /\ Cardinality(T) <= Cardinality(S)

\* The lesser of two numbers.
MinFact == \A a, b \in Nat : Min({a, b}) = IF a <= b THEN a ELSE b

\* The queues of the regions when s is taken out of that of region r.
Cut(p, r, s) == [p EXCEPT ![r] = Without(@, s)]

\* The regions' queues with entry e put into that of region r.
Put(p, r, e) == [p EXCEPT ![r] = Inserted(@, e)]

\* p1 is p with that entry, and a fit queue.
Fits(mode, q, p, p1, r, e) ==
    /\ QueuesOK(mode, q, p1)
    /\ Held(q, p1) = Held(q, p) \cup {e.s}
    /\ Of(p1[r]) = Of(p[r]) \cup {e.s}
    /\ \A t \in Regions : t # r => p1[t] = p[t]

\* A region's queue without the first n.
Later(q, n) == SubSeq(q, n + 1, Len(q))
(***************************************************************************)
(* What they need to know of the queues.                                   *)
(***************************************************************************)
\* A list of sessions without its first element.
TailFact == \A q \in Seq(Sessions) : Distinct(q) /\ q # << >> =>
    /\ Head(q) \in Range(q) /\ Head(q) \in Sessions
    /\ Tail(q) \in Seq(Sessions) /\ Distinct(Tail(q)) /\ Range(Tail(q)) = Range(q) \ {Head(q)}

\* A list of sessions with one more at the end.
AppendFact == \A q \in Seq(Sessions), s \in Sessions : Distinct(q) /\ s \notin Range(q) =>
    Append(q, s) \in Seq(Sessions) /\ Distinct(Append(q, s)) /\ Range(Append(q, s)) = Range(q) \cup {s}

\* As many sessions wait as the queues are long.
HeldFact == \A mode \in BOOLEAN : \A q, p : QueuesOK(mode, q, p) =>
    /\ Held(q, p) \subseteq Sessions /\ IsFiniteSet(Held(q, p))
    /\ Cardinality(Held(q, p)) = IF mode THEN Len(p[0]) + Len(p[1]) ELSE Len(q)

\* The queues without s, which waits in no region but r.
CutFact == \A mode \in BOOLEAN, r \in Regions : \A q, p, s :
    QueuesOK(mode, q, p) /\ (\A t \in Regions : s \in Of(p[t]) => t = r) =>
        /\ QueuesOK(mode, Unqueued(q, s), Cut(p, r, s))
        /\ Held(Unqueued(q, s), Cut(p, r, s)) = Held(q, p) \ {s}
        /\ \A t \in Regions : Of(Cut(p, r, s)[t]) \subseteq Of(p[t])

\* The plain queue without its first element.
AcceptFact == \A q, p : QueuesOK(FALSE, q, p) /\ q # << >> =>
    /\ QueuesOK(FALSE, Tail(q), p)
    /\ Held(Tail(q), p) = Held(q, p) \ {Head(q)} /\ Head(q) \in Held(q, p)

\* The plain queue with one more at the end.
LastFact == \A mode \in BOOLEAN, s \in Sessions : \A q, p : ~mode /\ QueuesOK(mode, q, p) /\ s \notin Held(q, p) =>
    QueuesOK(mode, Append(q, s), p) /\ Held(Append(q, s), p) = Held(q, p) \cup {s}

\* The queues by priority with one entry more.
PutFact == \A mode \in BOOLEAN, r \in Regions, e \in Entries : \A q, p, p1 :
    mode = TRUE /\ QueuesOK(mode, q, p) /\ e.s \notin Held(q, p) /\ p1 = Put(p, r, e) => Fits(mode, q, p, p1, r, e)

\* A region's queue after its priorities went up.
AgedFact == \A c \in Seq(Entries) : OneEach(c) /\ Sorted(c) =>
    /\ Older(c) \in Seq(Entries) /\ OneEach(Older(c)) /\ Sorted(Older(c))
    /\ Of(Older(c)) = Of(c) /\ (c = << >> => Older(c) = << >>)

\* A region's queue without its first n.
LaterFact == \A q \in Seq(Entries), n \in Nat : \A c : OneEach(q) /\ Sorted(q) /\ n <= Len(q) /\ c = Later(q, n) =>
    /\ c \in Seq(Entries) /\ OneEach(c) /\ Sorted(c)
    /\ Of(c) = Of(q) \ First(q, n) /\ First(q, n) \subseteq Of(q)
    /\ IsFiniteSet(First(q, n)) /\ Cardinality(First(q, n)) = n
    /\ q = << >> => c = << >>

\* All of them.
Facts ==
    /\ IntervalFact /\ SubsetFact /\ SizeFact /\ AddFact /\ RemoveFact /\ EmptyFact /\ UnionFact
    /\ IntersectionFact /\ BothFact /\ RestFact /\ MinFact
    /\ TailFact /\ AppendFact /\ HeldFact /\ CutFact /\ AcceptFact /\ LastFact /\ PutFact /\ AgedFact /\ LaterFact

(***************************************************************************)
(* What the invariant says of the tables, and how they change.             *)
(***************************************************************************)
\* The tables are finite; a session of m_sessions is there under its account.
LEMMA Tables ==
    ASSUME Facts, IndInv
    PROVE  /\ IsFiniteSet(Sessions) /\ Sessions \subseteq Nat /\ 0 \notin Sessions
           /\ alive \subseteq Sessions /\ IsFiniteSet(alive)
           /\ InTable \subseteq alive /\ IsFiniteSet(InTable)
           /\ \A s \in Sessions : sess[s] \in SessionRec /\ sess[s].acct \in Accounts /\ RegionOf(s) \in Regions
           /\ \A s \in InTable : m_sessions[sess[s].acct] = s
           /\ \A a \in Accounts : m_sessions[a] # Null => m_sessions[a] \in InTable
           /\ New \subseteq alive
<1>0. MaxSessions \in Nat
  BY SessionQueueAssumption
<1>1. IsFiniteSet(Sessions) /\ Sessions \subseteq Nat /\ 0 \notin Sessions
  BY <1>0 DEF Facts, IntervalFact, Sessions
<1>2. alive \subseteq Sessions
  BY <1>0 DEF IndInv, TypeOK, Sessions
<1>3. \A a \in Accounts : m_sessions[a] # Null => m_sessions[a] \in alive /\ sess[m_sessions[a]].acct = a
  BY DEF IndInv, QueueInv, PlacesInv
<1>4. InTable \subseteq alive /\ \A s \in InTable : m_sessions[sess[s].acct] = s
  BY <1>3 DEF InTable
<1>5. \A a \in Accounts : m_sessions[a] # Null => m_sessions[a] \in InTable
  BY DEF InTable
<1>6. ASSUME NEW s \in Sessions PROVE sess[s] \in SessionRec /\ sess[s].acct \in Accounts /\ RegionOf(s) \in Regions
  <2>1. sess[s] \in SessionRec
    BY DEF IndInv, TypeOK
  <2>2. sess[s].acct \in Accounts
    BY <2>1 DEF SessionRec
  <2> QED
    BY <2>1, <2>2, SessionQueueAssumption DEF RegionOf
<1>7. IsFiniteSet(alive) /\ IsFiniteSet(InTable)
  BY <1>1, <1>2, <1>4, Zenon DEF Facts, SubsetFact
<1>8. New \subseteq alive
  BY DEF IndInv, QueueInv, PlacesInv
<1> QED
  BY <1>1, <1>2, <1>4, <1>5, <1>6, <1>7, <1>8

\* GetQueuedSessionCount and GetActiveSessionCount are what their names say.
LEMMA Counts ==
    ASSUME Facts, IndInv
    PROVE  /\ W \subseteq InTable /\ IsFiniteSet(W) /\ IsFiniteSet(InTable \ W)
           /\ QueuedSessionCount = Cardinality(W)
           /\ ActiveSessionCount = Cardinality(InTable \ W) /\ ActiveSessionCount \in Nat
           /\ priorityQueue \in BOOLEAN
<1>1. priorityQueue \in BOOLEAN
  BY SessionQueueAssumption DEF IndInv, TypeOK
<1>2. QueuesOK(priorityQueue, m_QueuedSessions, m_priorityQueue)
  BY DEF IndInv, QueueInv
<1>3. /\ IsFiniteSet(W)
      /\ Cardinality(W) = IF priorityQueue THEN Len(m_priorityQueue[0]) + Len(m_priorityQueue[1])
                          ELSE Len(m_QueuedSessions)
  BY <1>1, <1>2, Zenon DEF Facts, HeldFact, W
<1>4. W \subseteq InTable
  BY DEF IndInv, QueueInv, WaitingInv
<1>5. QueuedSessionCount = Cardinality(W)
  BY <1>3 DEF QueuedSessionCount
<1>6. IsFiniteSet(InTable)
  BY Tables
<1>7. /\ IsFiniteSet(InTable \ W) /\ Cardinality(InTable \ W) = Cardinality(InTable) - Cardinality(W)
  BY <1>4, <1>6 DEF Facts, RestFact
<1>8. Cardinality(InTable \ W) \in Nat
  BY <1>7 DEF Facts, SizeFact
<1> QED
  BY <1>1, <1>3, <1>4, <1>5, <1>7, <1>8, Zenon DEF ActiveSessionCount

\* A session that RemoveQueuedSession looks for is found if it waits.
LEMMA Found ==
    ASSUME Facts, IndInv, NEW s \in Sessions
    PROVE  InQueue(s) <=> s \in W
<1>1. /\ QueuesOK(priorityQueue, m_QueuedSessions, m_priorityQueue)
      /\ \A r \in Regions : \A x \in Of(m_priorityQueue[r]) : RegionOf(x) = r
  BY DEF IndInv, QueueInv, WaitingInv
<1>2. RegionOf(s) \in Regions
  BY Tables
<1>3. CASE priorityQueue
  <2>1. InQueue(s) <=> s \in Of(m_priorityQueue[RegionOf(s)])
    BY <1>3 DEF InQueue, Of, Range
  <2>2. m_QueuedSessions = << >>
    BY <1>1, <1>3 DEF QueuesOK
  <2>3. Range(m_QueuedSessions) = {}
    BY <2>2 DEF Range
  <2>4. s \in W <=> s \in Of(m_priorityQueue[0]) \/ s \in Of(m_priorityQueue[1])
    BY <2>3 DEF W, Held
  <2> QED
    BY <1>1, <1>2, <2>1, <2>4 DEF Regions
<1>4. CASE ~priorityQueue
  <2>1. m_priorityQueue[0] = << >> /\ m_priorityQueue[1] = << >>
    BY <1>1, <1>4 DEF QueuesOK, Regions
  <2>2. Of(m_priorityQueue[0]) = {} /\ Of(m_priorityQueue[1]) = {}
    BY <2>1 DEF Of
  <2>3. W = Range(m_QueuedSessions)
    BY <2>2 DEF W, Held
  <2> QED
    BY <1>4, <2>3 DEF InQueue
<1> QED
  BY <1>3, <1>4

\* A session leaves m_sessions.
LEMMA TableWithout ==
    ASSUME Facts, IndInv, NEW s \in InTable, m_sessions' = [m_sessions EXCEPT ![sess[s].acct] = Null]
    PROVE  /\ InTable' = InTable \ {s}
           /\ m_sessions' \in [Accounts -> 0 .. MaxSessions]
           /\ \A a \in Accounts : m_sessions'[a] # Null => m_sessions'[a] = m_sessions[a] /\ m_sessions[a] # s
<1>1. m_sessions \in [Accounts -> 0 .. MaxSessions] /\ Null \in 0 .. MaxSessions
  <2>1. MaxSessions \in Nat
    BY SessionQueueAssumption
  <2> QED
    BY <2>1 DEF IndInv, TypeOK, Null
<1>2. s \in Sessions /\ sess[s].acct \in Accounts /\ m_sessions[sess[s].acct] = s
  BY Tables
<1>3. \A a \in Accounts : m_sessions[a] # Null => sess[m_sessions[a]].acct = a
  BY DEF IndInv, QueueInv, PlacesInv
<1>4. \A a \in Accounts : m_sessions'[a] = IF a = sess[s].acct THEN Null ELSE m_sessions[a]
  BY <1>1
<1>5. s # Null
  BY <1>2, Tables DEF Null
<1>6. InTable' = {m_sessions'[a] : a \in Accounts} \ {Null}
  BY DEF InTable
<1>7. InTable' = InTable \ {s}
  BY <1>2, <1>3, <1>4, <1>5, <1>6 DEF InTable
<1>8. m_sessions' \in [Accounts -> 0 .. MaxSessions]
  BY <1>1, Zenon
<1>9. ASSUME NEW a \in Accounts, m_sessions'[a] # Null
      PROVE  m_sessions'[a] = m_sessions[a] /\ m_sessions[a] # s
  <2>1. a # sess[s].acct /\ m_sessions'[a] = m_sessions[a]
    BY <1>4, <1>9
  <2> QED
    BY <1>3, <1>9, <2>1
<1> QED
  BY <1>7, <1>8, <1>9

\* A session comes into m_sessions, in place of another or of none.
LEMMA TableWith ==
    ASSUME Facts, IndInv, NEW s \in Sessions, s \notin InTable, NEW a \in Accounts,
           m_sessions' = [m_sessions EXCEPT ![a] = s]
    PROVE  /\ InTable' = (InTable \ {m_sessions[a]}) \cup {s}
           /\ m_sessions' \in [Accounts -> 0 .. MaxSessions]
           /\ \A b \in Accounts : m_sessions'[b] = IF b = a THEN s ELSE m_sessions[b]
<1>1. m_sessions \in [Accounts -> 0 .. MaxSessions] /\ MaxSessions \in Nat
  BY SessionQueueAssumption DEF IndInv, TypeOK
<1>2. \A b \in Accounts : m_sessions[b] # Null => sess[m_sessions[b]].acct = b
  BY DEF IndInv, QueueInv, PlacesInv
<1>3. \A b \in Accounts : m_sessions'[b] = IF b = a THEN s ELSE m_sessions[b]
  BY <1>1
<1>4. s # Null
  BY Tables DEF Null
<1>5. InTable' = {m_sessions'[b] : b \in Accounts} \ {Null}
  BY DEF InTable
<1>6. InTable' = (InTable \ {m_sessions[a]}) \cup {s}
  BY <1>2, <1>3, <1>4, <1>5 DEF InTable
<1>7. m_sessions' \in [Accounts -> 0 .. MaxSessions]
  BY <1>1 DEF Sessions
<1> QED
  BY <1>3, <1>6, <1>7

\* The queues and the accepted session of RemoveQueuedSession(s), for a
\* session s of m_sessions: s waits no longer, who is accepted waited, and
\* then the sessions without s that do not wait are within the hard limit.
LEMMA Removed ==
    ASSUME Facts, IndInv, NEW s \in InTable, NEW rem, rem = RemoveQueuedSession(s)
    PROVE  /\ QueuesOK(priorityQueue, rem.queue, rem.priority)
           /\ rem.accepted \subseteq W \ {s}
           /\ Held(rem.queue, rem.priority) = W \ ({s} \cup rem.accepted)
           /\ \A r \in Regions : Of(rem.priority[r]) \subseteq Of(m_priorityQueue[r])
           /\ rem.accepted # {} =>
                Cardinality((InTable \ {s}) \ (W \ rem.accepted)) <= PlayerHardLimit
<1>1. s \in Sessions /\ RegionOf(s) \in Regions /\ priorityQueue \in BOOLEAN
  BY Tables, Counts
<1>2. /\ QueuesOK(priorityQueue, m_QueuedSessions, m_priorityQueue)
      /\ \A r \in Regions : \A x \in Of(m_priorityQueue[r]) : RegionOf(x) = r
  BY DEF IndInv, QueueInv, WaitingInv
<1>3. PICK rest : rest = Unqueued(m_QueuedSessions, s)
  OBVIOUS
<1>4. PICK p : p = Cut(m_priorityQueue, RegionOf(s), s)
  OBVIOUS
<1>5. PICK h : h = Head(rest)
  OBVIOUS
<1>6. PICK accept \in BOOLEAN :
        /\ rem = [queue |-> IF accept THEN Tail(rest) ELSE rest, priority |-> p,
                  accepted |-> IF accept THEN {h} ELSE {}]
        /\ accept => ~priorityQueue /\ rest # << >>
                     /\ Cardinality(InTable) - Len(rest) < PlayerHardLimit
  <2> DEFINE sessions == IF InQueue(s) \/ ActiveSessionCount = 0 THEN ActiveSessionCount
                         ELSE ActiveSessionCount - 1
             acc == /\ ~priorityQueue
                    /\ Cardinality(InTable) - Len(rest) < PlayerHardLimit
                    /\ m_playerLimit = 0 \/ sessions < m_playerLimit
                    /\ rest # << >>
  <2>1. rem = [queue |-> IF acc THEN Tail(rest) ELSE rest, priority |-> p,
               accepted |-> IF acc THEN {h} ELSE {}]
    BY <1>3, <1>4, <1>5, Zenon DEF RemoveQueuedSession, Cut
  <2>2. acc \in BOOLEAN /\ (acc => ~priorityQueue /\ rest # << >>
                     /\ Cardinality(InTable) - Len(rest) < PlayerHardLimit)
    OBVIOUS
  <2> HIDE DEF acc
  <2> QED
    BY <2>1, <2>2, Zenon
<1>7. /\ QueuesOK(priorityQueue, rest, p)
      /\ Held(rest, p) = W \ {s}
      /\ \A t \in Regions : Of(p[t]) \subseteq Of(m_priorityQueue[t])
  <2>1. \A t \in Regions : s \in Of(m_priorityQueue[t]) => t = RegionOf(s)
    BY <1>2
  <2> QED
    <3>1. QueuesOK(priorityQueue, m_QueuedSessions, m_priorityQueue)
      BY <1>2
    <3>2. /\ QueuesOK(priorityQueue, rest, p)
          /\ Held(rest, p) = Held(m_QueuedSessions, m_priorityQueue) \ {s}
          /\ \A t \in Regions : Of(p[t]) \subseteq Of(m_priorityQueue[t])
      <4>1. PICK r \in Regions : r = RegionOf(s)
        BY <1>1
      <4>2. PICK q0 : q0 = m_QueuedSessions
        OBVIOUS
      <4>3. PICK p0 : p0 = m_priorityQueue
        OBVIOUS
      <4>4. PICK mode \in BOOLEAN : mode = priorityQueue
        BY <1>1
      <4>5. QueuesOK(mode, q0, p0) /\ \A t \in Regions : s \in Of(p0[t]) => t = r
        BY <2>1, <3>1, <4>1, <4>2, <4>3, <4>4, Zenon
      <4>6. /\ QueuesOK(mode, Unqueued(q0, s), Cut(p0, r, s))
            /\ Held(Unqueued(q0, s), Cut(p0, r, s)) = Held(q0, p0) \ {s}
            /\ \A t \in Regions : Of(Cut(p0, r, s)[t]) \subseteq Of(p0[t])
        BY <4>5, Zenon DEF Facts, CutFact
      <4> QED
        BY <1>3, <1>4, <4>1, <4>2, <4>3, <4>4, <4>6, Zenon
    <3> QED
      BY <3>2 DEF W
<1>8. CASE ~accept
  <2>1. rem.queue = rest /\ rem.priority = p /\ rem.accepted = {}
    BY <1>6, <1>8
  <2> QED
    BY <1>7, <2>1
<1>9. CASE accept
  <2>1. /\ rem.queue = Tail(rest) /\ rem.priority = p /\ rem.accepted = {h}
        /\ ~priorityQueue /\ rest # << >>
        /\ Cardinality(InTable) - Len(rest) < PlayerHardLimit
    BY <1>6, <1>9
  <2>2. priorityQueue = FALSE
    BY <1>1, <2>1
  <2>3. /\ QueuesOK(FALSE, Tail(rest), p)
        /\ Held(Tail(rest), p) = Held(rest, p) \ {h} /\ h \in Held(rest, p)
    BY <1>5, <1>7, <2>1, <2>2, Zenon DEF Facts, AcceptFact
  <2>4. Cardinality((InTable \ {s}) \ (W \ {h})) <= PlayerHardLimit
    <3>1. Cardinality(W \ {s}) = Len(rest) /\ IsFiniteSet(W \ {s})
      BY <1>7, <2>2, Zenon DEF Facts, HeldFact
    <3>2. IsFiniteSet(InTable) /\ W \ {s} \subseteq InTable
      BY Tables, Counts
    <3>3. PICK A : A = InTable \ (W \ {s})
      BY Zenon
    <3>4. IsFiniteSet(A) /\ Cardinality(A) = Cardinality(InTable) - Cardinality(W \ {s})
      BY <3>2, <3>3 DEF Facts, RestFact
    <3>5. Cardinality(A) \in Nat /\ Cardinality(A) < PlayerHardLimit
      BY <2>1, <3>1, <3>4 DEF Facts, SizeFact
    <3>6. IsFiniteSet(A \cup {h}) /\ Cardinality(A \cup {h}) <= Cardinality(A) + 1
      <4>1. /\ IsFiniteSet(A \cup {h})
            /\ Cardinality(A \cup {h}) = IF h \in A THEN Cardinality(A) ELSE Cardinality(A) + 1
        BY <3>4 DEF Facts, AddFact
      <4> QED
        BY <3>5, <4>1
    <3>7. (InTable \ {s}) \ (W \ {h}) \subseteq A \cup {h}
      BY <3>3
    <3>8. /\ Cardinality((InTable \ {s}) \ (W \ {h})) <= Cardinality(A \cup {h})
          /\ IsFiniteSet((InTable \ {s}) \ (W \ {h}))
      BY <3>6, <3>7 DEF Facts, SubsetFact
    <3>9. /\ Cardinality((InTable \ {s}) \ (W \ {h})) \in Nat
          /\ Cardinality(A \cup {h}) \in Nat /\ PlayerHardLimit \in Nat
      BY <3>6, <3>8, SessionQueueAssumption DEF Facts, SizeFact
    <3> QED
      BY <3>5, <3>6, <3>8, <3>9
  <2>5. QueuesOK(priorityQueue, rem.queue, rem.priority)
    BY <2>1, <2>2, <2>3, Zenon
  <2>6. /\ rem.accepted \subseteq W \ {s}
        /\ Held(rem.queue, rem.priority) = W \ ({s} \cup rem.accepted)
    BY <1>7, <2>1, <2>3
  <2> QED
    BY <1>7, <2>1, <2>4, <2>5, <2>6
<1> QED
  BY <1>8, <1>9

\* The two counters after the sessions In have passed the queue and the
\* sessions Out are deleted.
LEMMA CountedPassed ==
    ASSUME Facts, IndInv, NEW In, In \subseteq alive, \A x \in In : sess[x].passed = "no",
           NEW Out, Out \subseteq alive \ In, NEW r \in Regions
    PROVE  /\ Counted(In, Out)[r] =
                Cardinality((Passed(r) \cup {x \in In : RegionOf(x) = r}) \ Out)
           /\ Counted(In, Out) = [t \in Regions |-> Counted(In, Out)[t]]
<1> DEFINE I == {x \in In : RegionOf(x) = r}
           O == {x \in Out : RegionOf(x) = r /\ sess[x].passed # "no"}
<1>1. IsFiniteSet(alive)
  BY Tables
<1>2. logged[r] = Cardinality(Passed(r))
  BY DEF IndInv, CountersMatch, Passed
<1>3. Counted(In, Out)[r] = Cardinality(Passed(r)) + Cardinality(I) - Cardinality(O)
  BY <1>2 DEF Counted
<1>4. IsFiniteSet(Passed(r)) /\ IsFiniteSet(I)
  BY <1>1 DEF Facts, SubsetFact, Passed
<1>5. Passed(r) \cap I = {}
  BY DEF Passed
<1>6. /\ IsFiniteSet(Passed(r) \cup I)
      /\ Cardinality(Passed(r) \cup I) = Cardinality(Passed(r)) + Cardinality(I)
  BY <1>4, <1>5 DEF Facts, BothFact
<1>7. O \subseteq Passed(r) \cup I
  BY DEF Passed
<1>8. Cardinality((Passed(r) \cup I) \ O) = Cardinality(Passed(r) \cup I) - Cardinality(O)
  BY <1>6, <1>7, Zenon DEF Facts, RestFact
<1>9. (Passed(r) \cup I) \ O = (Passed(r) \cup I) \ Out
  BY DEF Passed
<1>10. Counted(In, Out) = [t \in Regions |-> Counted(In, Out)[t]]
  BY DEF Counted
<1>11. Cardinality(Passed(r)) \in Nat /\ Cardinality(I) \in Nat /\ Cardinality(O) \in Nat
  BY <1>4, <1>6, <1>7, Zenon DEF Facts, RestFact, SizeFact
<1> HIDE DEF I, O
<1>12. Cardinality((Passed(r) \cup I) \ O) = Cardinality((Passed(r) \cup I) \ Out)
  BY <1>9, Zenon
<1>13. Counted(In, Out)[r] = Cardinality((Passed(r) \cup I) \ Out)
  BY <1>3, <1>6, <1>8, <1>11, <1>12
<1> QED
  BY <1>10, <1>13, Zenon DEF I

(***************************************************************************)
(* The steps.                                                              *)
(***************************************************************************)
\* A step that leaves tables, queues and counters alone, and of the sessions
\* changes m_playerLoading, the player or the socket only, and not the player
\* of one that waits or is new.
LEMMA Neutral ==
    ASSUME Facts, IndInv,
           UNCHANGED <<priorityQueue, created, alive, tables, queues, m_Ipconnections>>,
           phase' \in {"accept", "add", "update"}, todo' \subseteq InTable,
           phase' # "update" => todo' = {},
           m_accountsLastLogout' \subseteq Accounts,
           sess' \in [Sessions -> SessionRec],
           \A x \in Sessions : /\ sess'[x].acct = sess[x].acct
                               /\ sess'[x].passed = sess[x].passed
                               /\ sess'[x].inQueue = sess[x].inQueue,
           \A x \in W \cup New : sess'[x].state = sess[x].state
    PROVE  IndInv'
<1>1. /\ W' = W /\ New' = New /\ InTable' = InTable
      /\ W \subseteq InTable /\ InTable \subseteq alive /\ alive \subseteq Sessions /\ New \subseteq alive
      /\ \A a \in Accounts : m_sessions[a] # Null => m_sessions[a] \in InTable
  BY Tables, Counts DEF W, New, InTable, tables, queues
<1>2. \A x \in Sessions : RegionOf(x)' = RegionOf(x)
  BY DEF RegionOf
<1>3. TypeOK'
  BY <1>1 DEF IndInv, TypeOK, tables, queues
<1>4. QueuesOK(priorityQueue, m_QueuedSessions, m_priorityQueue)'
  BY DEF IndInv, QueueInv, tables, queues
<1>5. PlacesInv'
  <2>1. PlacesInv
    BY DEF IndInv, QueueInv
  <2>2. \A a \in Accounts : m_sessions[a] # Null => sess'[m_sessions[a]].acct = sess[m_sessions[a]].acct
    BY <1>1
  <2> QED
    BY <1>1, <2>1, <2>2 DEF PlacesInv, tables
<1>6. WaitingInv'
  <2>1. WaitingInv
    BY DEF IndInv, QueueInv
  <2>2. W' \subseteq InTable'
    BY <1>1
  <2>3. ASSUME NEW r \in Regions, NEW s \in Of(m_priorityQueue'[r]) PROVE RegionOf(s)' = r
    <3>1. s \in Of(m_priorityQueue[r]) /\ RegionOf(s) = r
      BY <2>1, <2>3 DEF WaitingInv, queues
    <3>2. s \in W
      BY <3>1 DEF W, Held, Regions
    <3> QED
      BY <1>1, <1>2, <3>1, <3>2
  <2>4. ASSUME NEW s \in InTable
        PROVE  /\ sess'[s].inQueue <=> s \in W
               /\ sess'[s].passed = "no" <=> s \in W
               /\ s \in W => sess'[s].state = "screen"
    <3>1. s \in Sessions
      BY <1>1
    <3> QED
      BY <2>1, <3>1 DEF WaitingInv
  <2>5. ASSUME NEW s \in New
        PROVE  sess'[s].passed = "no" /\ ~sess'[s].inQueue /\ sess'[s].state = "screen"
    <3>1. s \in Sessions
      BY <1>1
    <3> QED
      BY <2>1, <3>1 DEF WaitingInv
  <2> QED
    BY <1>1, <2>2, <2>3, <2>4, <2>5 DEF WaitingInv
<1>7. CountersMatch'
  <2>1. ASSUME NEW r \in Regions PROVE Passed(r)' = Passed(r)
    BY <1>1, <1>2 DEF Passed
  <2> QED
    BY <2>1 DEF IndInv, CountersMatch, Passed, queues
<1>8. AddressesCounted'
  <2>1. ASSUME NEW ip \in Addresses PROVE At(ip)' = At(ip)
    BY <1>1 DEF At
  <2> QED
    BY <2>1 DEF IndInv, AddressesCounted, At
<1>9. HardLimitSlack'
  <2>1. Placed' = Placed
    BY <1>1 DEF Placed
  <2> QED
    BY <2>1, Zenon DEF IndInv, HardLimitSlack, Placed
<1> QED
  BY <1>3, <1>4, <1>5, <1>6, <1>7, <1>8, <1>9 DEF IndInv, QueueInv

\* A client closes its socket.
LEMMA CloseSocketStep == ASSUME Facts, IndInv, NEW s \in Sessions, CloseSocket(s) PROVE IndInv'
<1>1. /\ UNCHANGED <<priorityQueue, created, alive, tables, queues, m_Ipconnections>>
      /\ phase' = phase /\ todo' = todo /\ m_accountsLastLogout' = m_accountsLastLogout
  BY DEF CloseSocket, where, memory
<1>2. /\ phase \in {"accept", "add", "update"} /\ todo \subseteq InTable /\ (phase # "update" => todo = {})
      /\ m_accountsLastLogout \subseteq Accounts /\ sess \in [Sessions -> SessionRec]
  BY DEF IndInv, TypeOK, QueueInv, PlacesInv
<1>3. sess' = [sess EXCEPT ![s].open = FALSE]
  BY DEF CloseSocket
<1>4. /\ sess' \in [Sessions -> SessionRec]
      /\ \A x \in Sessions : /\ sess'[x].acct = sess[x].acct /\ sess'[x].passed = sess[x].passed
                             /\ sess'[x].inQueue = sess[x].inQueue /\ sess'[x].state = sess[x].state
  BY <1>2, <1>3, ZenonT(30) DEF SessionRec
<1>5. W \cup New \subseteq Sessions
  BY Tables, Counts
<1> QED
  BY <1>1, <1>2, <1>4, <1>5, Neutral

\* A login query is answered: the session does not wait.
LEMMA LoginAnsweredStep == ASSUME Facts, IndInv, NEW s \in Sessions, LoginAnswered(s) PROVE IndInv'
<1>1. /\ UNCHANGED <<priorityQueue, created, alive, tables, queues, m_Ipconnections>>
      /\ phase' = phase /\ todo' = todo /\ m_accountsLastLogout' = m_accountsLastLogout
  BY DEF LoginAnswered, where, memory
<1>2. /\ phase \in {"accept", "add", "update"} /\ todo \subseteq InTable /\ (phase # "update" => todo = {})
      /\ m_accountsLastLogout \subseteq Accounts /\ sess \in [Sessions -> SessionRec]
  BY DEF IndInv, TypeOK, QueueInv, PlacesInv
<1>3. s \in InTable /\ sess[s].state = "loading"
  BY DEF LoginAnswered
<1>4. s \notin W \cup New
  BY <1>3 DEF IndInv, QueueInv, WaitingInv
<1>5. /\ sess' \in [Sessions -> SessionRec]
      /\ \A x \in Sessions : /\ sess'[x].acct = sess[x].acct /\ sess'[x].passed = sess[x].passed
                             /\ sess'[x].inQueue = sess[x].inQueue
                             /\ x # s => sess'[x].state = sess[x].state
  <2>1. CASE sess' = [sess EXCEPT ![s].state = "playing"]
    BY <1>2, <2>1 DEF SessionRec
  <2>2. CASE sess' = [sess EXCEPT ![s].state = "screen", ![s].open = FALSE]
    <3>1. PICK f : f = [sess EXCEPT ![s].state = "screen"]
      BY Zenon
    <3>2. /\ f \in [Sessions -> SessionRec]
          /\ \A x \in Sessions : /\ f[x].acct = sess[x].acct /\ f[x].passed = sess[x].passed
                                 /\ f[x].inQueue = sess[x].inQueue
                                 /\ x # s => f[x].state = sess[x].state
      BY <1>2, <3>1 DEF SessionRec
    <3>3. sess' = [f EXCEPT ![s].open = FALSE]
      BY <1>2, <2>2, <3>1
    <3>4. /\ sess' \in [Sessions -> SessionRec]
          /\ \A x \in Sessions : /\ sess'[x].acct = f[x].acct /\ sess'[x].passed = f[x].passed
                                 /\ sess'[x].inQueue = f[x].inQueue /\ sess'[x].state = f[x].state
      BY <3>2, <3>3, ZenonT(30) DEF SessionRec
    <3> QED
      BY <3>2, <3>4
  <2> QED
    BY <2>1, <2>2 DEF LoginAnswered
<1>6. W \cup New \subseteq Sessions
  BY Tables, Counts
<1> QED
  BY <1>1, <1>2, <1>4, <1>5, <1>6, Neutral

\* Update() returns true: a waiting session does not log in.
LEMMA UpdateSessionStep == ASSUME Facts, IndInv, NEW s \in Sessions, UpdateSession(s) PROVE IndInv'
<1>1. /\ UNCHANGED <<priorityQueue, created, alive, tables, queues, m_Ipconnections>>
      /\ phase' = "update" /\ todo' = todo \ {s} /\ m_accountsLastLogout' = m_accountsLastLogout
  BY DEF UpdateSession, Visiting, memory
<1>2. /\ s \in todo /\ todo \subseteq InTable
      /\ m_accountsLastLogout \subseteq Accounts /\ sess \in [Sessions -> SessionRec]
  BY DEF IndInv, TypeOK, QueueInv, PlacesInv, UpdateSession, Visiting
<1>3. s \in InTable /\ s \notin New
  BY <1>2 DEF IndInv, QueueInv, PlacesInv
<1>4. PICK next : /\ next \in {sess[s].state}
                       \cup (IF sess[s].inQueue \/ sess[s].state = "loading" THEN {}
                             ELSE IF sess[s].state = "screen" THEN {"loading"} ELSE {"screen"})
                  /\ sess' = [sess EXCEPT ![s].state = next]
  BY Zenon DEF UpdateSession
<1>5. next = sess[s].state \/ (~sess[s].inQueue /\ next \in {"loading", "screen"})
  BY <1>4
<1>6. s \in W => next = sess[s].state
  BY <1>3, <1>5 DEF IndInv, QueueInv, WaitingInv
<1>7. /\ sess' \in [Sessions -> SessionRec]
      /\ \A x \in Sessions : /\ sess'[x].acct = sess[x].acct /\ sess'[x].passed = sess[x].passed
                             /\ sess'[x].inQueue = sess[x].inQueue
                             /\ x # s => sess'[x].state = sess[x].state
      /\ sess'[s].state = next
  <2>1. next \in {"screen", "loading", "playing"}
    BY <1>2, <1>5 DEF SessionRec
  <2> QED
    BY <1>2, <1>4, <2>1 DEF SessionRec
<1>8. W \cup New \subseteq Sessions
  BY Tables, Counts
<1> QED
  BY <1>1, <1>2, <1>3, <1>6, <1>7, <1>8, Neutral

\* A grace period ends.
LEMMA GraceEndsStep == ASSUME Facts, IndInv, NEW a \in Accounts, GraceEnds(a) PROVE IndInv'
<1>1. /\ UNCHANGED <<priorityQueue, created, alive, tables, queues, m_Ipconnections>>
      /\ phase' = phase /\ todo' = todo /\ sess' = sess /\ m_accountsLastLogout' \subseteq m_accountsLastLogout
  BY DEF GraceEnds, where, objects
<1>2. /\ phase \in {"accept", "add", "update"} /\ todo \subseteq InTable /\ (phase # "update" => todo = {})
      /\ m_accountsLastLogout \subseteq Accounts /\ sess \in [Sessions -> SessionRec]
  BY DEF IndInv, TypeOK, QueueInv, PlacesInv
<1> QED
  BY <1>1, <1>2, Neutral

\* The loop over m_sessions begins.
LEMMA AddedAllStep == ASSUME Facts, IndInv, AddedAll PROVE IndInv'
<1>1. /\ UNCHANGED <<priorityQueue, created, alive, tables, queues, m_Ipconnections>>
      /\ phase' = "update" /\ todo' = InTable /\ sess' = sess /\ m_accountsLastLogout' = m_accountsLastLogout
  BY DEF AddedAll, objects, memory
<1>2. m_accountsLastLogout \subseteq Accounts /\ sess \in [Sessions -> SessionRec]
  BY DEF IndInv, TypeOK
<1> QED
  BY <1>1, <1>2, Neutral

\* The sessions with a place stay within the limit if none gets one, or if
\* all of them are among few enough.
LEMMA WithinLimit ==
    ASSUME Facts, IndInv,
           \/ Placed' \subseteq Placed
           \/ \E X : /\ Placed' \subseteq X /\ IsFiniteSet(X)
                     /\ Cardinality(X) <= PlayerHardLimit + (IF LoginPerTick > 1 THEN LoginPerTick - 1 ELSE 0)
    PROVE  HardLimitSlack'
<1>1. PICK m \in Int : m = PlayerHardLimit + (IF LoginPerTick > 1 THEN LoginPerTick - 1 ELSE 0)
  BY SessionQueueAssumption
<1>2. Cardinality(Placed) <= m /\ IsFiniteSet(Placed)
  <2>1. IsFiniteSet(InTable)
    BY Tables
  <2>2. IsFiniteSet(Placed)
    BY <2>1 DEF Facts, SubsetFact, Placed
  <2>3. Cardinality(Placed) <= m
    BY <1>1 DEF IndInv, HardLimitSlack, Placed
  <2> QED
    BY <2>2, <2>3
<1>3. PICK X : Placed' \subseteq X /\ IsFiniteSet(X) /\ Cardinality(X) <= m
  BY <1>1, <1>2
<1>4. /\ Cardinality(Placed') <= Cardinality(X)
      /\ Cardinality(Placed') \in Nat /\ Cardinality(X) \in Nat
  BY <1>3 DEF Facts, SubsetFact, SizeFact
<1>5. Cardinality(Placed') <= m
  BY <1>3, <1>4
<1> QED
  BY <1>1, <1>5 DEF HardLimitSlack, Placed

\* The sessions of region r that have passed the queue once the sessions In
\* pass it too and the sessions Out are deleted.
After(r, In, Out) == (Passed(r) \cup {x \in In : RegionOf(x) = r}) \ Out

\* What OnPassedQueue and the destructors make of the counters.
LEMMA CountedAfter ==
    ASSUME Facts, IndInv, NEW In, In \subseteq alive, \A x \in In : sess[x].passed = "no",
           NEW Out, Out \subseteq alive \ In
    PROVE  Counted(In, Out) = [r \in Regions |-> Cardinality(After(r, In, Out))]
<1>1. ASSUME NEW r \in Regions
      PROVE  /\ Counted(In, Out)[r] = Cardinality(After(r, In, Out))
             /\ Counted(In, Out) = [t \in Regions |-> Counted(In, Out)[t]]
  BY CountedPassed, ZenonT(30) DEF After
<1>2. 0 \in Regions
  BY DEF Regions
<1> QED
  BY <1>1, <1>2

\* A step of the world thread: the sessions J come into m_sessions, the
\* sessions In pass the queue, the sessions Out are deleted; who else waits
\* still does, unless it leaves m_sessions.
Changes(J, In, Out) ==
    /\ UNCHANGED <<priorityQueue, created>>
    /\ J \subseteq New
    /\ In \subseteq W \cup J
    /\ Out \subseteq alive \ (In \cup J)
    /\ alive' = alive \ Out
    /\ addSessQueue' \in Seq(Sessions)
    /\ Distinct(addSessQueue')
    /\ New' \subseteq New \ (J \cup Out)
    /\ m_sessions' \in [Accounts -> 0 .. MaxSessions]
    /\ \A a \in Accounts : m_sessions'[a] # Null =>
          m_sessions'[a] = m_sessions[a] \/ (m_sessions'[a] \in J /\ sess[m_sessions'[a]].acct = a)
    /\ InTable' \subseteq alive'
    /\ J \subseteq InTable'
    /\ m_disconnectedSessions' \subseteq alive' \ InTable'
    /\ m_disconnectedSessions' \cap New' = {}
    /\ phase' \in {"accept", "add", "update"}
    /\ todo' \subseteq InTable'
    /\ phase' # "update" => todo' = {}
    /\ QueuesOK(priorityQueue, m_QueuedSessions', m_priorityQueue')
    /\ W' = ((W \ In) \cap InTable') \cup (J \ In)
    /\ \A r \in Regions : \A x \in Of(m_priorityQueue'[r]) :
          x \in Of(m_priorityQueue[r]) \/ (x \in J /\ RegionOf(x) = r)
    /\ sess' \in [Sessions -> SessionRec]
    /\ \A x \in alive' : sess'[x].acct = sess[x].acct
    /\ \A x \in alive' : x \notin In => sess'[x].passed = sess[x].passed
    /\ \A x \in In : sess'[x].passed # "no" /\ ~sess'[x].inQueue
    /\ \A x \in J : sess'[x].state = sess[x].state /\ (x \notin In => sess'[x].inQueue)
    /\ \A x \in (InTable' \cup New') \ (In \cup J) :
          sess'[x].state = sess[x].state /\ sess'[x].inQueue = sess[x].inQueue
    /\ logged' = [r \in Regions |-> Cardinality(After(r, In, Out))]
    /\ m_Ipconnections' \in [Addresses -> Nat]
    /\ m_accountsLastLogout' \subseteq Accounts
    /\ m_playerLimit' \in Nat
    /\ AddressesCounted'
    /\ HardLimitSlack'

\* Every step that Changes describes keeps the inductive invariant.
LEMMA Change == ASSUME Facts, IndInv, NEW J, NEW In, NEW Out, Changes(J, In, Out) PROVE IndInv'
<1>a. /\ J \subseteq New /\ In \subseteq W \cup J /\ Out \subseteq alive \ (In \cup J) /\ alive' = alive \ Out
      /\ New' \subseteq New \ (J \cup Out) /\ InTable' \subseteq alive' /\ J \subseteq InTable'
      /\ W' = ((W \ In) \cap InTable') \cup (J \ In)
  BY DEF Changes
<1>b. \A a \in Accounts : m_sessions'[a] # Null =>
          m_sessions'[a] = m_sessions[a] \/ (m_sessions'[a] \in J /\ sess[m_sessions'[a]].acct = a)
  BY DEF Changes
<1>c. \A r \in Regions : \A x \in Of(m_priorityQueue'[r]) :
          x \in Of(m_priorityQueue[r]) \/ (x \in J /\ RegionOf(x) = r)
  BY DEF Changes
<1>d. \A x \in alive' : sess'[x].acct = sess[x].acct
  BY DEF Changes
<1>e. /\ \A x \in alive' : x \notin In => sess'[x].passed = sess[x].passed
      /\ \A x \in In : sess'[x].passed # "no" /\ ~sess'[x].inQueue
      /\ \A x \in J : sess'[x].state = sess[x].state /\ (x \notin In => sess'[x].inQueue)
      /\ \A x \in (InTable' \cup New') \ (In \cup J) :
            sess'[x].state = sess[x].state /\ sess'[x].inQueue = sess[x].inQueue
  BY DEF Changes
<1>f. /\ QueuesOK(priorityQueue, m_QueuedSessions', m_priorityQueue')
      /\ priorityQueue' = priorityQueue /\ created' = created
  BY DEF Changes
<1>g. /\ Distinct(addSessQueue') /\ m_disconnectedSessions' \cap New' = {}
      /\ m_disconnectedSessions' \subseteq alive' \ InTable'
      /\ todo' \subseteq InTable' /\ (phase' # "update" => todo' = {})
  BY DEF Changes
<1>h. logged' = [r \in Regions |-> Cardinality(After(r, In, Out))]
  BY DEF Changes
<1>1. /\ IsFiniteSet(alive) /\ alive \subseteq Sessions /\ InTable \subseteq alive /\ New \subseteq alive
      /\ W \subseteq InTable /\ 0 \notin Sessions
      /\ \A a \in Accounts : m_sessions[a] # Null => m_sessions[a] \in InTable
  BY Tables, Counts
<1>2. PlacesInv /\ WaitingInv /\ TypeOK
  BY DEF IndInv, QueueInv
<1>3. In \subseteq alive /\ \A x \in In : sess[x].passed = "no"
  BY <1>a, <1>1, <1>2 DEF WaitingInv
<1>4. ASSUME NEW r \in Regions PROVE /\ logged'[r] = Cardinality(Passed(r)') /\ logged'[r] \in Nat
  <2>1. Passed(r)' = After(r, In, Out)
    <3>1. \A x \in alive' : RegionOf(x)' = RegionOf(x)
      BY <1>d DEF RegionOf
    <3>2. In \subseteq alive'
      BY <1>a, <1>3
    <3>3. Passed(r)' = {x \in alive' : sess'[x].passed # "no" /\ RegionOf(x)' = r}
      BY DEF Passed
    <3> QED
      BY <1>a, <1>e, <3>1, <3>2, <3>3 DEF Passed, After
  <2>3. logged'[r] = Cardinality(Passed(r)')
    <3>1. logged'[r] = Cardinality(After(r, In, Out))
      BY <1>h
    <3> QED
      BY <2>1, <3>1, Zenon
  <2>4. IsFiniteSet(Passed(r)')
    <3>1. Passed(r)' \subseteq alive
      BY <1>a DEF Passed
    <3> QED
      BY <1>1, <3>1 DEF Facts, SubsetFact
  <2> QED
    BY <2>3, <2>4 DEF Facts, SizeFact
<1>5. CountersMatch'
  BY <1>4 DEF CountersMatch, Passed
<1>6. InTable' \subseteq InTable \cup J
  BY <1>1, <1>b DEF InTable
<1>7. PlacesInv'
  <2>2. New' \subseteq alive'
    BY <1>a, <1>1
  <2>3. New' \cap (InTable' \cup m_disconnectedSessions') = {}
    BY <1>a, <1>g, <1>2, <1>6 DEF PlacesInv
  <2>4. ASSUME NEW a \in Accounts, m_sessions'[a] # Null
        PROVE  m_sessions'[a] \in alive' /\ sess'[m_sessions'[a]].acct = a
    <3>1. m_sessions'[a] \in InTable'
      BY <2>4 DEF InTable
    <3>2. sess[m_sessions'[a]].acct = a
      BY <1>2, <1>b, <2>4 DEF PlacesInv
    <3> QED
      BY <1>a, <1>d, <3>1, <3>2
  <2> QED
    BY <1>g, <2>2, <2>3, <2>4 DEF PlacesInv, Distinct
<1>8. W' \subseteq InTable'
  BY <1>a
<1>9. WaitingInv'
  <2>1. ASSUME NEW r \in Regions, NEW s \in Of(m_priorityQueue'[r]) PROVE RegionOf(s)' = r
    <3>1. RegionOf(s) = r
      BY <1>2, <1>c, <2>1 DEF WaitingInv
    <3>2. s \in W'
      BY <2>1 DEF W, Held, Regions
    <3>3. s \in alive'
      BY <1>a, <1>8, <3>2
    <3> QED
      BY <1>d, <3>1, <3>3 DEF RegionOf
  <2>2. ASSUME NEW s \in InTable'
        PROVE  /\ sess'[s].inQueue <=> s \in W'
               /\ sess'[s].passed = "no" <=> s \in W'
               /\ s \in W' => sess'[s].state = "screen"
    <3>1. CASE s \in In
      BY <1>a, <1>e, <1>1, <1>2, <3>1 DEF PlacesInv
    <3>2. CASE s \in J \ In
      <4>1. s \in W' /\ s \in New /\ s \in alive'
        BY <1>a, <3>2
      <4>2. sess[s].passed = "no" /\ sess[s].state = "screen"
        BY <1>2, <4>1 DEF WaitingInv
      <4>3. sess'[s].passed = "no" /\ sess'[s].state = "screen" /\ sess'[s].inQueue
        BY <1>e, <3>2, <4>1, <4>2
      <4> QED
        BY <4>1, <4>3
    <3>3. CASE s \notin In \cup J
      <4>1. s \in InTable /\ s \in alive' /\ (s \in W' <=> s \in W)
        BY <1>a, <1>6, <3>3
      <4>2. /\ sess'[s].passed = sess[s].passed /\ sess'[s].state = sess[s].state
            /\ sess'[s].inQueue = sess[s].inQueue
        BY <1>e, <3>3, <4>1
      <4> QED
        BY <1>2, <4>1, <4>2 DEF WaitingInv
    <3> QED
      BY <3>1, <3>2, <3>3
  <2>3. ASSUME NEW s \in New'
        PROVE  sess'[s].passed = "no" /\ ~sess'[s].inQueue /\ sess'[s].state = "screen"
    <3>1. s \in New /\ s \notin J /\ s \in alive'
      BY <1>a, <1>1
    <3>2. s \notin In
      BY <1>a, <1>1, <1>2, <3>1 DEF PlacesInv
    <3>3. sess[s].passed = "no" /\ ~sess[s].inQueue /\ sess[s].state = "screen"
      BY <1>2, <3>1 DEF WaitingInv
    <3> QED
      BY <1>e, <3>1, <3>2, <3>3
  <2> QED
    BY <1>8, <2>1, <2>2, <2>3 DEF WaitingInv
<1>10. TypeOK'
  <2>1. logged' \in [Regions -> Nat]
    BY <1>h, <1>4
  <2>2. m_QueuedSessions' \in Seq(Sessions) /\ m_priorityQueue' \in [Regions -> Seq(Entries)]
    BY <1>f DEF QueuesOK
  <2>3. todo' \subseteq Sessions /\ m_disconnectedSessions' \subseteq Sessions /\ alive' \subseteq 1 .. created'
    BY <1>a, <1>f, <1>g, <1>1, <1>2 DEF TypeOK
  <2>4. priorityQueue' \in PriorityModes /\ created' \in 0 .. MaxSessions
    BY <1>2, <1>f DEF TypeOK
  <2> QED
    BY <2>1, <2>2, <2>3, <2>4 DEF TypeOK, Changes
<1>11. QueuesOK(priorityQueue, m_QueuedSessions, m_priorityQueue)'
  BY <1>f
<1>12. AddressesCounted' /\ HardLimitSlack'
  BY DEF Changes
<1> QED
  BY <1>5, <1>7, <1>9, <1>10, <1>11, <1>12 DEF IndInv, QueueInv

\* The same without newcomers, and with the sessions' fields as Fields() and
\* Admit() leave them.
Leaves(In, Out) ==
    /\ UNCHANGED <<priorityQueue, created>>
    /\ In \subseteq W
    /\ Out \subseteq alive \ In
    /\ alive' = alive \ Out
    /\ addSessQueue' \in Seq(Sessions)
    /\ Distinct(addSessQueue')
    /\ New' \subseteq New \ Out
    /\ m_sessions' \in [Accounts -> 0 .. MaxSessions]
    /\ \A a \in Accounts : m_sessions'[a] # Null => m_sessions'[a] = m_sessions[a]
    /\ InTable' \subseteq alive'
    /\ m_disconnectedSessions' \subseteq alive' \ InTable'
    /\ m_disconnectedSessions' \cap New' = {}
    /\ phase' \in {"accept", "add", "update"}
    /\ todo' \subseteq InTable'
    /\ phase' # "update" => todo' = {}
    /\ QueuesOK(priorityQueue, m_QueuedSessions', m_priorityQueue')
    /\ W' = (W \ In) \cap InTable'
    /\ \A r \in Regions : Of(m_priorityQueue'[r]) \subseteq Of(m_priorityQueue[r])
    /\ sess' = [x \in Sessions |-> IF x \in In THEN Admit(sess[x]) ELSE IF x \in Out THEN Blank ELSE sess[x]]
    /\ logged' = Counted(In, Out)
    /\ m_Ipconnections' \in [Addresses -> Nat]
    /\ m_accountsLastLogout' \subseteq Accounts
    /\ m_playerLimit' \in Nat
    /\ \A ip \in Addresses : m_Ipconnections'[ip] >= Cardinality(At(ip) \ (InTable \ InTable'))
    /\ \/ In = {}
       \/ Cardinality(InTable' \ W') <= PlayerHardLimit + (IF LoginPerTick > 1 THEN LoginPerTick - 1 ELSE 0)

\* SendAuthWaitQue(0) changes two fields.
LEMMA Admitted ==
    ASSUME NEW rec \in SessionRec
    PROVE  /\ Admit(rec) \in SessionRec /\ Admit(rec).passed = "room" /\ ~Admit(rec).inQueue
           /\ Admit(rec).acct = rec.acct /\ Admit(rec).state = rec.state
  BY ZenonT(30) DEF Admit, SessionRec

\* Every step that Leaves describes keeps the inductive invariant.
LEMMA Leave == ASSUME Facts, IndInv, NEW In, NEW Out, Leaves(In, Out) PROVE IndInv'
<1> USE DEF Leaves
<1>1. /\ IsFiniteSet(alive) /\ alive \subseteq Sessions /\ InTable \subseteq alive /\ New \subseteq alive
      /\ W \subseteq InTable /\ IsFiniteSet(InTable)
      /\ \A s \in Sessions : sess[s] \in SessionRec
      /\ \A a \in Accounts : m_sessions[a] # Null => m_sessions[a] \in InTable
  BY Tables, Counts
<1>2. InTable' \subseteq InTable /\ InTable' \cap Out = {}
  <2>1. InTable' \subseteq InTable
    BY <1>1 DEF InTable
  <2> QED
    BY <2>1
<1>3. \A x \in alive' : x \in Sessions /\ x \notin Out
  BY <1>1
<1>4. \A x \in Sessions : x \notin In /\ x \notin Out => sess'[x] = sess[x]
  OBVIOUS
<1>5. \A x \in In : /\ sess'[x].passed = "room" /\ ~sess'[x].inQueue /\ sess'[x].acct = sess[x].acct
                    /\ sess'[x] \in SessionRec
  <2>1. ASSUME NEW x \in In
        PROVE  /\ sess'[x].passed = "room" /\ ~sess'[x].inQueue /\ sess'[x].acct = sess[x].acct
               /\ sess'[x] \in SessionRec
    <3>1. x \in Sessions
      BY <1>1
    <3>2. sess[x] \in SessionRec
      BY <1>1, <3>1
    <3>3. sess'[x] = Admit(sess[x])
      BY <3>1
    <3> QED
      BY <3>2, <3>3, Admitted
  <2> QED
    BY <2>1, ZenonT(30)
<1>6. Blank \in SessionRec
  BY SessionQueueAssumption DEF Blank, NewSession, SessionRec
<1>7. sess' \in [Sessions -> SessionRec]
  <2>1. ASSUME NEW x \in Sessions PROVE sess'[x] \in SessionRec
    BY <1>1, <1>4, <1>5, <1>6, Zenon
  <2> QED
    BY <2>1
<1>8. \A x \in alive' : sess'[x].acct = sess[x].acct
  BY <1>3, <1>4, <1>5, Zenon
<1>9. AddressesCounted'
  <2>1. ASSUME NEW ip \in Addresses PROVE At(ip)' = At(ip) \ (InTable \ InTable')
    BY <1>2, <1>8 DEF At
  <2> QED
    BY <2>1, ZenonT(30) DEF AddressesCounted, At
<1>10. HardLimitSlack'
  <2>1. CASE In = {}
    <3>1. Placed' \subseteq Placed
      BY <1>2, <1>3, <1>4, <2>1 DEF Placed
    <3> QED
      BY <3>1, WithinLimit
  <2>2. CASE Cardinality(InTable' \ W') <= PlayerHardLimit + (IF LoginPerTick > 1 THEN LoginPerTick - 1 ELSE 0)
    <3>1. Placed' \subseteq InTable' \ W'
      <4>1. ASSUME NEW x \in Placed' PROVE x \in InTable' \ W'
        <5>1. x \in InTable' /\ sess'[x].passed = "room"
          BY DEF Placed
        <5>2. x \in W \ In => sess'[x].passed = "no"
          <6>1. x \in Sessions /\ x \notin Out
            BY <1>3, <5>1
          <6> QED
            BY <1>2, <1>4, <5>1, <6>1 DEF IndInv, QueueInv, WaitingInv
        <5> QED
          BY <5>1, <5>2
      <4> QED
        BY <4>1
    <3>2. IsFiniteSet(InTable' \ W')
      BY <1>1, <1>2 DEF Facts, SubsetFact
    <3> QED
      BY <2>2, <3>1, <3>2, WithinLimit
  <2> QED
    BY <2>1, <2>2
<1>11. logged' = [r \in Regions |-> Cardinality(After(r, In, Out))]
  <2>1. In \subseteq alive /\ \A x \in In : sess[x].passed = "no"
    BY <1>1 DEF IndInv, QueueInv, WaitingInv
  <2>2. Out \subseteq alive \ In /\ logged' = Counted(In, Out)
    OBVIOUS
  <2> HIDE DEF Leaves
  <2>3. Counted(In, Out) = [r \in Regions |-> Cardinality(After(r, In, Out))]
    BY <2>1, <2>2, CountedAfter
  <2> QED
    BY <2>2, <2>3
<1>12. PICK J : J = {}
  BY ZenonT(30)
<1>13. /\ J \subseteq New /\ In \subseteq W \cup J /\ Out \subseteq alive \ (In \cup J)
       /\ New' \subseteq New \ (J \cup Out) /\ J \subseteq InTable'
       /\ W' = ((W \ In) \cap InTable') \cup (J \ In)
  BY <1>12
<1>14. \A a \in Accounts : m_sessions'[a] # Null =>
          m_sessions'[a] = m_sessions[a] \/ (m_sessions'[a] \in J /\ sess[m_sessions'[a]].acct = a)
  OBVIOUS
<1>15. \A r \in Regions : \A x \in Of(m_priorityQueue'[r]) :
          x \in Of(m_priorityQueue[r]) \/ (x \in J /\ RegionOf(x) = r)
  BY Zenon
<1>16. /\ \A x \in alive' : x \notin In => sess'[x].passed = sess[x].passed
       /\ \A x \in In : sess'[x].passed # "no" /\ ~sess'[x].inQueue
       /\ \A x \in J : sess'[x].state = sess[x].state /\ (x \notin In => sess'[x].inQueue)
  BY <1>3, <1>4, <1>5, <1>12
<1>17. \A x \in (InTable' \cup New') \ (In \cup J) :
          sess'[x].state = sess[x].state /\ sess'[x].inQueue = sess[x].inQueue
  <2>1. New' \subseteq alive'
    BY <1>1
  <2> QED
    BY <1>3, <1>4, <2>1
<1>18. Changes(J, In, Out)
  BY <1>7, <1>8, <1>9, <1>10, <1>11, <1>13, <1>14, <1>15, <1>16, <1>17 DEF Changes
<1> HIDE DEF Leaves
<1> QED
  BY <1>18, Change

\* What most steps leave alone.
LEMMA Typed ==
    ASSUME IndInv
    PROVE  /\ addSessQueue \in Seq(Sessions) /\ Distinct(addSessQueue)
           /\ m_sessions \in [Accounts -> 0 .. MaxSessions]
           /\ phase \in {"accept", "add", "update"} /\ todo \subseteq InTable /\ (phase # "update" => todo = {})
           /\ m_disconnectedSessions \subseteq alive \ InTable
           /\ New \cap (InTable \cup m_disconnectedSessions) = {}
           /\ QueuesOK(priorityQueue, m_QueuedSessions, m_priorityQueue)
           /\ m_Ipconnections \in [Addresses -> Nat] /\ m_accountsLastLogout \subseteq Accounts
           /\ m_playerLimit \in Nat
           /\ sess \in [Sessions -> SessionRec]
  BY DEF IndInv, QueueInv, PlacesInv, TypeOK

\* Where the sessions are: in m_sessions, disconnected or new, never in two.
LEMMA Apart ==
    ASSUME Facts, IndInv
    PROVE  /\ InTable \subseteq alive /\ New \subseteq alive /\ todo \subseteq InTable
           /\ m_disconnectedSessions \subseteq alive \ InTable
           /\ New \cap (InTable \cup m_disconnectedSessions) = {}
<1>1. InTable \subseteq alive /\ New \subseteq alive
  BY Tables
<1> QED
  BY <1>1, Typed

\* An address has as many connections as sessions, also without some of them.
LEMMA FewerAt ==
    ASSUME Facts, IndInv, NEW ip \in Addresses, NEW S
    PROVE  m_Ipconnections[ip] >= Cardinality(At(ip) \ S)
<1>1. IsFiniteSet(At(ip))
  BY Tables DEF Facts, SubsetFact, At
<1>2. m_Ipconnections[ip] >= Cardinality(At(ip)) /\ m_Ipconnections[ip] \in Nat
  BY Typed DEF IndInv, AddressesCounted, At
<1>3. Cardinality(At(ip) \ S) <= Cardinality(At(ip)) /\ Cardinality(At(ip)) \in Nat /\ Cardinality(At(ip) \ S) \in Nat
  BY <1>1 DEF Facts, SubsetFact, SizeFact
<1> QED
  BY <1>2, <1>3

\* The loop of UpdateSessions finds a session without a client whose player
\* is in the world.
LEMMA UpdateLosesSocketStep == ASSUME Facts, IndInv, NEW s \in Sessions, UpdateLosesSocket(s) PROVE IndInv'
<1>1. s \in InTable /\ s \notin W /\ s \in alive
  BY Typed, Tables DEF UpdateLosesSocket, Visiting, IndInv, QueueInv, WaitingInv
<1>2. /\ InTable' = InTable \ {s} /\ m_sessions' \in [Accounts -> 0 .. MaxSessions]
      /\ \A a \in Accounts : m_sessions'[a] # Null => m_sessions'[a] = m_sessions[a]
  BY <1>1, TableWithout, Zenon DEF UpdateLosesSocket
<1>3. PICK In : In = {}
  BY Zenon
<1>4. /\ UNCHANGED <<priorityQueue, created, alive, sess, addSessQueue, phase>>
      /\ UNCHANGED <<m_QueuedSessions, m_priorityQueue, logged, m_playerLimit, m_Ipconnections>>
      /\ m_disconnectedSessions' = m_disconnectedSessions \cup {s}
      /\ m_accountsLastLogout' = m_accountsLastLogout \cup LoggedOut({s})
      /\ todo' \subseteq todo \ {s} /\ phase = "update"
  BY DEF UpdateLosesSocket, Visiting, objects, queues
<1>5. W' = W /\ New' = New
  BY <1>4 DEF W, New
<1>6. W' = (W \ In) \cap InTable'
  BY <1>1, <1>2, <1>3, <1>5, Counts
<1>7. LoggedOut({s}) \subseteq Accounts
  BY Tables DEF LoggedOut
<1>8. logged' = Counted(In, In)
  <2>1. In \subseteq alive /\ (\A x \in In : sess[x].passed = "no") /\ In \subseteq alive \ In
    BY <1>3
  <2>2. Counted(In, In) = [r \in Regions |-> Cardinality(After(r, In, In))]
    BY <2>1, CountedAfter
  <2>3. \A r \in Regions : After(r, In, In) = Passed(r)
    BY <1>3 DEF After
  <2>4. logged = [r \in Regions |-> Cardinality(Passed(r))]
    BY DEF IndInv, CountersMatch, Passed, TypeOK
  <2>5. \A r \in Regions : Cardinality(After(r, In, In)) = Cardinality(Passed(r))
    BY <2>3, Zenon
  <2> QED
    BY <1>4, <2>2, <2>4, <2>5
<1>9. sess' = [x \in Sessions |-> IF x \in In THEN Admit(sess[x]) ELSE IF x \in In THEN Blank ELSE sess[x]]
  BY <1>3, <1>4, Typed
<1>10. \A ip \in Addresses : m_Ipconnections'[ip] >= Cardinality(At(ip) \ (InTable \ InTable'))
  BY <1>4, FewerAt, Zenon
<1>11. /\ m_disconnectedSessions' \subseteq alive' \ InTable' /\ m_disconnectedSessions' \cap New' = {}
       /\ InTable' \subseteq alive' /\ todo' \subseteq InTable'
  BY <1>1, <1>2, <1>4, <1>5, Apart
<1>12. Leaves(In, In)
  BY <1>2, <1>3, <1>4, <1>5, <1>6, <1>7, <1>8, <1>9, <1>10, <1>11, Typed, Zenon DEF Leaves
<1> QED
  BY <1>12, Leave

\* Sessions without a client whose player has left the world are deleted.
LEMMA UpdateDisconnectedStep == ASSUME Facts, IndInv, UpdateDisconnected PROVE IndInv'
<1>1. PICK Out \in SUBSET m_disconnectedSessions :
         /\ m_disconnectedSessions' = m_disconnectedSessions \ Out
         /\ alive' = alive \ Out
         /\ sess' = Fields({}, Out, {})
         /\ logged' = Counted({}, Out)
  BY DEF UpdateDisconnected
<1>2. /\ UNCHANGED <<priorityQueue, created, todo, addSessQueue, m_sessions>>
      /\ UNCHANGED <<m_QueuedSessions, m_priorityQueue, m_playerLimit, m_accountsLastLogout, m_Ipconnections>>
      /\ todo = {} /\ phase' = "accept"
  BY DEF UpdateDisconnected, memory
<1>3. PICK In : In = {}
  BY Zenon
<1>4. W' = W /\ New' = New /\ InTable' = InTable
  BY <1>2 DEF W, New, InTable
<1>5. W' = (W \ In) \cap InTable'
  BY <1>3, <1>4, Counts
<1>6. sess' = [x \in Sessions |-> IF x \in In THEN Admit(sess[x]) ELSE IF x \in Out THEN Blank ELSE sess[x]]
  BY <1>1, <1>3 DEF Fields
<1>7. logged' = Counted(In, Out)
  BY <1>1, <1>3, Zenon
<1>8. \A ip \in Addresses : m_Ipconnections'[ip] >= Cardinality(At(ip) \ (InTable \ InTable'))
  BY <1>2, FewerAt, ZenonT(30)
<1>9. /\ m_disconnectedSessions' \subseteq alive' \ InTable' /\ m_disconnectedSessions' \cap New' = {}
      /\ InTable' \subseteq alive' /\ todo' \subseteq InTable' /\ Out \subseteq alive \ In /\ New' \subseteq New \ Out
  BY <1>1, <1>2, <1>3, <1>4, Apart
<1>10. Leaves(In, Out)
  BY <1>1, <1>2, <1>3, <1>4, <1>5, <1>6, <1>7, <1>8, <1>9, Typed DEF Leaves
<1> QED
  BY <1>10, Leave

\* The session of an address goes, and one connection with it.
LEMMA OneFewerAt ==
    ASSUME Facts, IndInv, NEW s \in InTable, NEW c, c = [m_Ipconnections EXCEPT ![Address[sess[s].acct]] = @ - 1]
    PROVE  /\ c \in [Addresses -> Nat]
           /\ \A ip \in Addresses : c[ip] >= Cardinality(At(ip) \ {s})
<1>1. PICK at \in Addresses : at = Address[sess[s].acct]
  <2>1. s \in Sessions
    BY Tables
  <2>2. sess[s].acct \in Accounts
    BY <2>1, Tables
  <2>3. Address[sess[s].acct] \in Addresses
    BY <2>2, SessionQueueAssumption DEF Addresses
  <2> QED
    BY <2>3
<1>2. s \in At(at) /\ \A ip \in Addresses : ip # at => s \notin At(ip)
  BY <1>1 DEF At
<1>3. IsFiniteSet(At(at))
  BY Tables DEF Facts, SubsetFact, At
<1>4. Cardinality(At(at) \ {s}) = Cardinality(At(at)) - 1 /\ Cardinality(At(at)) \in Nat /\ Cardinality(At(at) \ {s}) \in Nat
  BY <1>2, <1>3 DEF Facts, RemoveFact, SizeFact, SubsetFact
<1>5. m_Ipconnections \in [Addresses -> Nat] /\ m_Ipconnections[at] >= Cardinality(At(at))
  BY Typed DEF IndInv, AddressesCounted, At
<1>6. m_Ipconnections[at] - 1 \in Nat /\ m_Ipconnections[at] - 1 >= Cardinality(At(at) \ {s})
  BY <1>4, <1>5
<1>7. c[at] = m_Ipconnections[at] - 1 /\ \A ip \in Addresses : ip # at => c[ip] = m_Ipconnections[ip]
  BY <1>1, <1>5
<1>8. c \in [Addresses -> Nat]
  BY <1>1, <1>5, <1>6
<1>9. ASSUME NEW ip \in Addresses PROVE c[ip] >= Cardinality(At(ip) \ {s})
  <2>1. CASE ip = at
    BY <1>6, <1>7, <2>1
  <2>2. CASE ip # at
    BY <1>7, <2>2, FewerAt, Zenon
  <2> QED
    BY <2>1, <2>2
<1> QED
  BY <1>8, <1>9

\* A session of the loop is removed: it leaves its queue, which may accept
\* another one, and is deleted.
LEMMA RemoveSessionStep == ASSUME Facts, IndInv, NEW s \in Sessions, RemoveSession(s) PROVE IndInv'
<1>1. s \in InTable /\ s \in alive
  BY Typed, Tables DEF RemoveSession, Visiting
<1>2. PICK rem : rem = RemoveQueuedSession(s)
  OBVIOUS
<1>3. PICK In, Out : In = rem.accepted /\ Out = {s}
  BY ZenonT(30)
<1>4. /\ InTable' = InTable \ {s} /\ m_sessions' \in [Accounts -> 0 .. MaxSessions]
      /\ \A a \in Accounts : m_sessions'[a] # Null => m_sessions'[a] = m_sessions[a]
  BY <1>1, TableWithout DEF RemoveSession
<1>5. /\ UNCHANGED <<priorityQueue, created, phase, addSessQueue, m_disconnectedSessions, m_playerLimit>>
      /\ alive' = alive \ {s} /\ todo' = todo \ {s} /\ phase = "update"
      /\ m_QueuedSessions' = rem.queue /\ m_priorityQueue' = rem.priority
      /\ m_Ipconnections' = [m_Ipconnections EXCEPT ![Address[sess[s].acct]] = @ - 1]
  BY <1>2 DEF RemoveSession, Visiting
<1>6. logged' = Counted(In, Out) /\ sess' = Fields(In, Out, {})
  BY <1>2, <1>3, Zenon DEF RemoveSession
<1>7. /\ QueuesOK(priorityQueue, rem.queue, rem.priority)
      /\ In \subseteq W \ {s}
      /\ Held(rem.queue, rem.priority) = W \ ({s} \cup In)
      /\ \A r \in Regions : Of(rem.priority[r]) \subseteq Of(m_priorityQueue[r])
      /\ In # {} => Cardinality((InTable \ {s}) \ (W \ In)) <= PlayerHardLimit
  BY <1>1, <1>2, <1>3, Removed
<1>8. W' = W \ ({s} \cup In) /\ New' = New
  BY <1>5, <1>7 DEF W, New
<1>9. W' = (W \ In) \cap InTable'
  BY <1>4, <1>8, Counts
<1>10. sess' = [x \in Sessions |-> IF x \in In THEN Admit(sess[x]) ELSE IF x \in Out THEN Blank ELSE sess[x]]
  BY <1>6 DEF Fields
<1>11. m_accountsLastLogout' \subseteq Accounts
  <2>1. LoggedOut({s}) \subseteq Accounts
    BY Tables DEF LoggedOut
  <2> QED
    BY <2>1, Typed DEF RemoveSession
<1>12. /\ m_Ipconnections' \in [Addresses -> Nat]
       /\ \A ip \in Addresses : m_Ipconnections'[ip] >= Cardinality(At(ip) \ (InTable \ InTable'))
  <2>1. InTable \ InTable' = {s}
    BY <1>1, <1>4
  <2>2. \A ip \in Addresses : At(ip) \ (InTable \ InTable') = At(ip) \ {s}
    BY <2>1, Zenon
  <2>3. /\ m_Ipconnections' \in [Addresses -> Nat]
        /\ \A ip \in Addresses : m_Ipconnections'[ip] >= Cardinality(At(ip) \ {s})
    BY <1>1, <1>5, OneFewerAt, ZenonT(30)
  <2> QED
    BY <2>2, <2>3, Zenon
<1>13. \/ In = {}
       \/ Cardinality(InTable' \ W') <= PlayerHardLimit + (IF LoginPerTick > 1 THEN LoginPerTick - 1 ELSE 0)
  <2>1. InTable' \ W' = (InTable \ {s}) \ (W \ In)
    BY <1>4, <1>8
  <2>2. PICK n : n = Cardinality(InTable' \ W')
    OBVIOUS
  <2>3. n = Cardinality((InTable \ {s}) \ (W \ In))
    BY <2>1, <2>2, Zenon
  <2>4. n \in Nat
    <3>1. IsFiniteSet(InTable' \ W')
      BY <1>4, Tables DEF Facts, SubsetFact
    <3> QED
      BY <2>2, <3>1 DEF Facts, SizeFact
  <2>5. In # {} => n <= PlayerHardLimit
    BY <1>7, <2>3
  <2>6. In # {} => n <= PlayerHardLimit + (IF LoginPerTick > 1 THEN LoginPerTick - 1 ELSE 0)
    BY <2>4, <2>5, SessionQueueAssumption
  <2> QED
    BY <2>2, <2>6
<1>14. /\ m_disconnectedSessions' \subseteq alive' \ InTable' /\ m_disconnectedSessions' \cap New' = {}
       /\ InTable' \subseteq alive' /\ todo' \subseteq InTable' /\ Out \subseteq alive \ In /\ New' \subseteq New \ Out
  <2>1. W \subseteq InTable
    BY Counts
  <2>2. Out \subseteq alive \ In
    BY <1>1, <1>3, <1>7
  <2>3. InTable' \subseteq alive' /\ todo' \subseteq InTable'
    BY <1>4, <1>5, Apart
  <2> QED
    BY <1>1, <1>3, <1>4, <1>5, <1>8, <2>2, <2>3, Apart
<1>15. Leaves(In, Out)
  BY <1>3, <1>4, <1>5, <1>6, <1>7, <1>8, <1>9, <1>10, <1>11, <1>12, <1>13, <1>14, Typed DEF Leaves
<1> QED
  BY <1>15, Leave

\* A new session is refused while that of its account loads a character.
LEMMA AddSessionRefusedStep == ASSUME Facts, IndInv, AddSessionRefused PROVE IndInv'
<1>1. PICK s : s = Head(addSessQueue)
  OBVIOUS
<1>2. PICK In, Out : In = {} /\ Out = {s}
  BY Zenon
<1>3. /\ s \in New /\ s \in Sessions
      /\ addSessQueue' \in Seq(Sessions) /\ Distinct(addSessQueue') /\ New' = New \ {s}
  <2>1. addSessQueue \in Seq(Sessions) /\ Distinct(addSessQueue) /\ addSessQueue # << >>
    BY Typed DEF AddSessionRefused
  <2>2. addSessQueue' = Tail(addSessQueue)
    BY DEF AddSessionRefused
  <2>3. /\ s \in Range(addSessQueue) /\ s \in Sessions
        /\ Tail(addSessQueue) \in Seq(Sessions) /\ Distinct(Tail(addSessQueue))
        /\ Range(Tail(addSessQueue)) = Range(addSessQueue) \ {s}
    BY <1>1, <2>1 DEF Facts, TailFact
  <2> QED
    BY <2>2, <2>3 DEF New
<1>4. /\ UNCHANGED <<priorityQueue, created, phase, todo, m_sessions, m_disconnectedSessions>>
      /\ UNCHANGED <<m_QueuedSessions, m_priorityQueue, logged, m_playerLimit, m_accountsLastLogout, m_Ipconnections>>
      /\ alive' = alive \ {s} /\ sess' = [sess EXCEPT ![s] = Blank]
  BY <1>1 DEF AddSessionRefused, where, queues, memory
<1>5. W' = W /\ InTable' = InTable
  BY <1>4 DEF W, InTable
<1>6. W' = (W \ In) \cap InTable'
  BY <1>2, <1>5, Counts
<1>7. sess' = [x \in Sessions |-> IF x \in In THEN Admit(sess[x]) ELSE IF x \in Out THEN Blank ELSE sess[x]]
  BY <1>2, <1>3, <1>4, Typed, Zenon
<1>8. s \in alive /\ s \notin InTable /\ s \notin m_disconnectedSessions /\ sess[s].passed = "no"
  BY <1>3, Typed, Tables DEF IndInv, QueueInv, WaitingInv
<1>9. logged' = Counted(In, Out)
  <2>1. In \subseteq alive /\ (\A x \in In : sess[x].passed = "no") /\ Out \subseteq alive \ In
    BY <1>2, <1>8
  <2>2. Counted(In, Out) = [r \in Regions |-> Cardinality(After(r, In, Out))]
    BY <2>1, CountedAfter
  <2>3. \A r \in Regions : After(r, In, Out) = Passed(r)
    BY <1>2, <1>8 DEF After, Passed
  <2>4. logged = [r \in Regions |-> Cardinality(Passed(r))]
    BY DEF IndInv, CountersMatch, Passed, TypeOK
  <2>5. \A r \in Regions : Cardinality(After(r, In, Out)) = Cardinality(Passed(r))
    BY <2>3, Zenon
  <2> QED
    BY <1>4, <2>2, <2>4, <2>5
<1>10. \A ip \in Addresses : m_Ipconnections'[ip] >= Cardinality(At(ip) \ (InTable \ InTable'))
  BY <1>4, FewerAt, Zenon
<1>11. /\ m_disconnectedSessions' \subseteq alive' \ InTable' /\ m_disconnectedSessions' \cap New' = {}
       /\ InTable' \subseteq alive' /\ todo' \subseteq InTable' /\ Out \subseteq alive \ In
  BY <1>2, <1>3, <1>4, <1>5, <1>8, Apart
<1>12. Leaves(In, Out)
  BY <1>2, <1>3, <1>4, <1>5, <1>6, <1>7, <1>9, <1>10, <1>11, Typed DEF Leaves
<1> QED
  BY <1>12, Leave

\* A network thread adds a session: it is new.
LEMMA AddSessionStep == ASSUME Facts, IndInv, NEW a \in Accounts, AddSession(a) PROVE IndInv'
<1>1. PICK n : n = created + 1
  OBVIOUS
<1>2. /\ created' = n /\ alive' = alive \cup {n} /\ sess' = [sess EXCEPT ![n] = NewSession(a)]
      /\ addSessQueue' = Append(addSessQueue, n)
      /\ UNCHANGED <<priorityQueue, phase, todo, m_sessions, m_disconnectedSessions>>
      /\ UNCHANGED <<m_QueuedSessions, m_priorityQueue, logged, m_playerLimit, m_accountsLastLogout, m_Ipconnections>>
  BY <1>1 DEF AddSession, where, queues, memory
<1>3. n \in Sessions /\ n \in 0 .. MaxSessions /\ n \notin alive /\ alive' \subseteq 1 .. n
  <2>1. created \in 0 .. MaxSessions /\ alive \subseteq 1 .. created /\ created < MaxSessions /\ MaxSessions \in Nat
    BY SessionQueueAssumption DEF IndInv, TypeOK, AddSession
  <2>2. n \in 1 .. MaxSessions /\ n \notin 1 .. created /\ 1 .. created \subseteq 1 .. n
    BY <1>1, <2>1
  <2> QED
    BY <1>2, <2>1, <2>2 DEF Sessions
<1>4. W' = W /\ InTable' = InTable
  BY <1>2 DEF W, InTable
<1>5. /\ alive \subseteq Sessions /\ InTable \subseteq alive /\ New \subseteq alive /\ W \subseteq InTable
      /\ \A b \in Accounts : m_sessions[b] # Null => m_sessions[b] \in InTable
  BY Tables, Counts
<1>6. addSessQueue' \in Seq(Sessions) /\ Distinct(addSessQueue') /\ New' = New \cup {n}
  <2>1. addSessQueue \in Seq(Sessions) /\ Distinct(addSessQueue) /\ n \notin Range(addSessQueue)
    BY <1>3, <1>5, Typed DEF New
  <2>2. /\ Append(addSessQueue, n) \in Seq(Sessions) /\ Distinct(Append(addSessQueue, n))
        /\ Range(Append(addSessQueue, n)) = Range(addSessQueue) \cup {n}
    BY <1>3, <2>1 DEF Facts, AppendFact
  <2> QED
    BY <1>2, <2>2 DEF New
<1>7. /\ \A x \in alive : sess'[x] = sess[x] /\ RegionOf(x)' = RegionOf(x)
      /\ sess'[n] = NewSession(a) /\ sess' \in [Sessions -> SessionRec]
  <2>1. NewSession(a) \in SessionRec
    BY DEF NewSession, SessionRec
  <2>2. \A x \in alive : x \in Sessions /\ x # n
    BY <1>3, <1>5
  <2>3. sess' \in [Sessions -> SessionRec] /\ sess'[n] = NewSession(a) /\ \A x \in alive : sess'[x] = sess[x]
    BY <1>2, <1>3, <2>1, <2>2, Typed
  <2> QED
    BY <2>3 DEF RegionOf
<1>8. NewSession(a).passed = "no" /\ ~NewSession(a).inQueue /\ NewSession(a).state = "screen"
  BY DEF NewSession
<1>9. TypeOK'
  BY <1>2, <1>3, <1>6, <1>7 DEF IndInv, TypeOK
<1>10. QueuesOK(priorityQueue, m_QueuedSessions, m_priorityQueue)'
  BY <1>2, Typed
<1>11. PlacesInv'
  <2>1. New' \subseteq alive' /\ New' \cap (InTable' \cup m_disconnectedSessions') = {}
    BY <1>2, <1>3, <1>4, <1>5, <1>6, Typed
  <2>2. m_disconnectedSessions' \subseteq alive' \ InTable' /\ todo' \subseteq InTable' /\ (phase' # "update" => todo' = {})
    BY <1>2, <1>4, Typed
  <2>3. ASSUME NEW b \in Accounts, m_sessions'[b] # Null
        PROVE  m_sessions'[b] \in alive' /\ sess'[m_sessions'[b]].acct = b
    <3>1. m_sessions'[b] = m_sessions[b] /\ m_sessions[b] \in alive
      BY <1>2, <1>5, <2>3
    <3>2. sess[m_sessions[b]].acct = b
      BY <2>3, <3>1 DEF IndInv, QueueInv, PlacesInv
    <3> QED
      BY <1>2, <1>7, <3>1, <3>2
  <2> QED
    BY <1>6, <2>1, <2>2, <2>3 DEF PlacesInv
<1>12. WaitingInv'
  <2>1. WaitingInv
    BY DEF IndInv, QueueInv
  <2>2. ASSUME NEW r \in Regions, NEW s \in Of(m_priorityQueue'[r]) PROVE RegionOf(s)' = r
    <3>1. s \in Of(m_priorityQueue[r]) /\ RegionOf(s) = r
      BY <1>2, <2>1, <2>2 DEF WaitingInv
    <3>2. s \in W
      BY <3>1 DEF W, Held, Regions
    <3> QED
      BY <1>5, <1>7, <3>1, <3>2
  <2>3. ASSUME NEW s \in InTable
        PROVE  /\ sess'[s].inQueue <=> s \in W
               /\ sess'[s].passed = "no" <=> s \in W
               /\ s \in W => sess'[s].state = "screen"
    <3>1. sess'[s] = sess[s]
      BY <1>5, <1>7
    <3> QED
      BY <2>1, <3>1 DEF WaitingInv
  <2>4. ASSUME NEW s \in New'
        PROVE  sess'[s].passed = "no" /\ ~sess'[s].inQueue /\ sess'[s].state = "screen"
    <3>1. CASE s = n
      BY <1>7, <1>8, <3>1
    <3>2. CASE s \in New
      <4>1. sess'[s] = sess[s]
        BY <1>5, <1>7, <3>2
      <4> QED
        BY <2>1, <3>2, <4>1 DEF WaitingInv
    <3> QED
      BY <1>6, <3>1, <3>2
  <2> QED
    BY <1>4, <1>5, <2>2, <2>3, <2>4 DEF WaitingInv
<1>13. CountersMatch'
  <2>1. ASSUME NEW r \in Regions PROVE Passed(r)' = Passed(r)
    <3>1. Passed(r)' = {s \in alive' : sess'[s].passed # "no" /\ RegionOf(s)' = r}
      BY DEF Passed
    <3> QED
      BY <1>2, <1>7, <1>8, <3>1 DEF Passed
  <2>2. ASSUME NEW r \in Regions PROVE logged'[r] = Cardinality(Passed(r)')
    <3>1. logged[r] = Cardinality(Passed(r)) /\ logged' = logged
      BY <1>2 DEF IndInv, CountersMatch, Passed
    <3> QED
      BY <2>1, <3>1, Zenon
  <2> QED
    BY <2>2 DEF CountersMatch, Passed
<1>14. AddressesCounted'
  <2>1. ASSUME NEW ip \in Addresses PROVE At(ip)' = At(ip)
    BY <1>4, <1>5, <1>7 DEF At
  <2> QED
    BY <1>2, <2>1 DEF IndInv, AddressesCounted, At
<1>15. HardLimitSlack'
  <2>1. Placed' \subseteq Placed
    BY <1>4, <1>5, <1>7 DEF Placed
  <2> QED
    BY <2>1, WithinLimit
<1> QED
  BY <1>9, <1>10, <1>11, <1>12, <1>13, <1>14, <1>15 DEF IndInv, QueueInv

============================================================================
