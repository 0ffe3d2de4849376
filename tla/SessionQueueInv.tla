-------------------------- MODULE SessionQueueInv --------------------------
(***************************************************************************)
(* The inductive invariant of SessionQueue: what the queues look like,     *)
(* which sessions are in which of World's tables, and who waits.           *)
(***************************************************************************)
EXTENDS SessionQueue

\* The sessions in the queue q of a region, the first n of them, and those in
\* all the queues: q is m_QueuedSessions, p is m_priorityQueue.
Of(q)       == {q[i].s : i \in DOMAIN q}
First(q, n) == {q[i].s : i \in 1..n}
Held(q, p)  == Range(q) \cup Of(p[0]) \cup Of(p[1])

Distinct(q) == \A i, j \in DOMAIN q : q[i] = q[j] => i = j
OneEach(q)  == \A i, j \in DOMAIN q : q[i].s = q[j].s => i = j
Sorted(q)   == \A i, j \in DOMAIN q : i < j => q[i].prio >= q[j].prio

\* Only the queues of the mode are in use, no session is in them twice, and
\* those with priorities are sorted.
QueuesOK(mode, q, p) ==
    /\ q \in Seq(Sessions) /\ Distinct(q)
    /\ p \in [Regions -> Seq(Entries)]
    /\ \A r \in Regions : OneEach(p[r]) /\ Sorted(p[r])
    /\ Of(p[0]) \cap Of(p[1]) = {}
    /\ IF mode THEN q = << >> ELSE \A r \in Regions : p[r] = << >>

New == Range(addSessQueue)
W   == Held(m_QueuedSessions, m_priorityQueue)

\* A session that exists is new, in m_sessions under its account, or in
\* m_disconnectedSessions, and in no two of them; the loop of UpdateSessions
\* visits sessions of m_sessions only.
PlacesInv ==
    /\ Distinct(addSessQueue)
    /\ New \subseteq alive
    /\ New \cap (InTable \cup m_disconnectedSessions) = {}
    /\ m_disconnectedSessions \subseteq alive \ InTable
    /\ \A a \in Accounts : m_sessions[a] # Null =>
          m_sessions[a] \in alive /\ sess[m_sessions[a]].acct = a
    /\ todo \subseteq InTable
    /\ phase # "update" => todo = {}

\* Who waits is in m_sessions, in the queue of their region, has not passed
\* the queue and has no character; the other sessions of m_sessions have
\* passed it, the new ones have not.
WaitingInv ==
    /\ W \subseteq InTable
    /\ \A r \in Regions : \A s \in Of(m_priorityQueue[r]) : RegionOf(s) = r
    /\ \A s \in InTable : /\ sess[s].inQueue <=> s \in W
                          /\ sess[s].passed = "no" <=> s \in W
                          /\ s \in W => sess[s].state = "screen"
    /\ \A s \in New : sess[s].passed = "no" /\ ~sess[s].inQueue /\ sess[s].state = "screen"

QueueInv ==
    /\ QueuesOK(priorityQueue, m_QueuedSessions, m_priorityQueue)
    /\ PlacesInv
    /\ WaitingInv

\* What the counters count: the existing sessions of region r that have
\* passed the queue, the sessions of m_sessions at an address, and those that
\* got a place.
Passed(r) == {s \in alive : sess[s].passed # "no" /\ RegionOf(s) = r}
At(ip)    == {s \in InTable : Address[sess[s].acct] = ip}
Placed    == {s \in InTable : sess[s].passed = "room"}

IndInv == TypeOK /\ QueueInv /\ CountersMatch /\ AddressesCounted /\ HardLimitSlack
=============================================================================
