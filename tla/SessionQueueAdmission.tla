----------------------- MODULE SessionQueueAdmission -----------------------
(***************************************************************************)
(* The two steps that let sessions in, preserving IndInv: Accept (the      *)
(* queues, once per tick) and AddSession_ (a session that arrives); and    *)
(* with them every step of module SessionQueue.                            *)
(***************************************************************************)
EXTENDS SessionQueueSteps

\* The limits stay numbers, and a tick accepts sessions of a region only while
\* there is room, at most LoginPerTick of them and no more than wait.
LEMMA AcceptedNumber ==
    ASSUME Facts, IndInv, NEW r \in Regions, NEW limit \in Nat, NEW active \in Nat, NEW n,
           n = AcceptNow(r, limit, active)
    PROVE  /\ n \in Nat /\ n <= Len(m_priorityQueue[r]) /\ n <= LoginPerTick
           /\ n > 0 => active < PlayerHardLimit
           /\ LimitAfter(r, limit, active) \in Nat
<1>1. /\ logged[0] + logged[1] \in Nat /\ LoginPerTick \in Nat /\ PlayerHardLimit \in Nat
      /\ m_priorityQueue[r] \in Seq(Entries)
  <2>1. logged[0] \in Nat /\ logged[1] \in Nat
    BY DEF IndInv, TypeOK, Regions
  <2>2. LoginPerTick \in Nat /\ PlayerHardLimit \in Nat
    BY SessionQueueAssumption
  <2>3. m_priorityQueue[r] \in Seq(Entries)
    BY DEF IndInv, TypeOK
  <2> QED
    BY <2>1, <2>2, <2>3
<1>2. Len(m_priorityQueue[r]) \in Nat
  BY <1>1
<1>3. RaisedLimit(limit) \in Nat
  <2>1. Min({limit, logged[0] + logged[1]}) \in Nat
    BY <1>1 DEF Facts, MinFact
  <2> QED
    BY <1>1, <2>1 DEF RaisedLimit
<1>4. LimitAfter(r, limit, active) \in Nat
  BY <1>1, <1>3 DEF LimitAfter
<1>5. PICK l \in Nat : l = Len(m_priorityQueue[r])
  BY <1>2
<1>6. Min({LoginPerTick, l}) \in Nat /\ Min({LoginPerTick, l}) <= l /\ Min({LoginPerTick, l}) <= LoginPerTick
  BY <1>1, <1>5 DEF Facts, MinFact
<1>7. CASE Accepting(r) /\ ~Full(limit, active)
  <2>1. n = Min({LoginPerTick, l})
    BY <1>5, <1>7 DEF AcceptNow
  <2>2. ~(PlayerHardLimit <= active)
    BY <1>7 DEF Full
  <2> QED
    BY <1>1, <1>4, <1>5, <1>6, <2>1, <2>2
<1>8. CASE ~(Accepting(r) /\ ~Full(limit, active))
  <2>1. n = 0
    BY <1>8 DEF AcceptNow
  <2> QED
    BY <1>1, <1>2, <1>4, <2>1
<1> QED
  BY <1>7, <1>8

\* The queue of a region after the first n are accepted and, perhaps, the
\* others have aged.
Rest(q, n, older) ==
    IF older THEN Older(Later(q, n)) ELSE Later(q, n)

\* That queue holds the others, in order.
LEMMA RestOut ==
    ASSUME Facts, NEW q \in Seq(Entries), OneEach(q), Sorted(q), NEW n \in Nat, n <= Len(q), NEW older \in BOOLEAN,
           NEW o, o = Rest(q, n, older)
    PROVE  /\ o \in Seq(Entries) /\ OneEach(o) /\ Sorted(o)
           /\ Of(o) = Of(q) \ First(q, n) /\ First(q, n) \subseteq Of(q)
           /\ IsFiniteSet(First(q, n)) /\ Cardinality(First(q, n)) = n
           /\ q = << >> => o = << >>
<1>1. PICK c : c = Later(q, n)
  OBVIOUS
<1>2. /\ c \in Seq(Entries) /\ OneEach(c) /\ Sorted(c)
      /\ Of(c) = Of(q) \ First(q, n) /\ First(q, n) \subseteq Of(q)
      /\ IsFiniteSet(First(q, n)) /\ Cardinality(First(q, n)) = n
      /\ q = << >> => c = << >>
  BY <1>1 DEF Facts, LaterFact
<1>3. /\ Older(c) \in Seq(Entries) /\ OneEach(Older(c)) /\ Sorted(Older(c))
      /\ Of(Older(c)) = Of(c) /\ (c = << >> => Older(c) = << >>)
  BY <1>2 DEF Facts, AgedFact
<1>4. CASE older
  <2>1. o = Older(c)
    BY <1>1, <1>4 DEF Rest
  <2> QED
    BY <1>2, <1>3, <2>1, Zenon
<1>5. CASE ~older
  <2>1. o = c
    BY <1>1, <1>5 DEF Rest
  <2> QED
    BY <1>2, <2>1, Zenon
<1> QED
  BY <1>4, <1>5

\* Both queues after a tick: p becomes p1.
Shortened(p, p1, n0, b0, n1, b1) ==
    /\ n0 \in Nat /\ n0 <= Len(p[0]) /\ b0 \in BOOLEAN
    /\ n1 \in Nat /\ n1 <= Len(p[1]) /\ b1 \in BOOLEAN
    /\ p1 = [r \in Regions |-> p1[r]]
    /\ p1[0] = Rest(p[0], n0, b0) /\ p1[1] = Rest(p[1], n1, b1)

\* They hold the others.
LEMMA RestHeld ==
    ASSUME Facts, NEW mode \in BOOLEAN, NEW q, NEW p, QueuesOK(mode, q, p),
           NEW p1, NEW n0, NEW b0, NEW n1, NEW b1, Shortened(p, p1, n0, b0, n1, b1),
           NEW F0, F0 = First(p[0], n0), NEW F1, F1 = First(p[1], n1)
    PROVE  /\ QueuesOK(mode, q, p1)
           /\ Held(q, p1) = Held(q, p) \ (F0 \cup F1) /\ F0 \cup F1 \subseteq Held(q, p)
           /\ \A r \in Regions : Of(p1[r]) \subseteq Of(p[r])
           /\ IsFiniteSet(F0) /\ IsFiniteSet(F1) /\ Cardinality(F0) = n0 /\ Cardinality(F1) = n1
<1> USE DEF Shortened
<1>1. /\ p[0] \in Seq(Entries) /\ OneEach(p[0]) /\ Sorted(p[0])
      /\ p[1] \in Seq(Entries) /\ OneEach(p[1]) /\ Sorted(p[1])
      /\ Of(p[0]) \cap Of(p[1]) = {} /\ q \in Seq(Sessions) /\ Distinct(q)
      /\ IF mode THEN q = << >> ELSE p[0] = << >> /\ p[1] = << >>
  BY DEF QueuesOK, Regions
<1>2. /\ p1[0] \in Seq(Entries) /\ OneEach(p1[0]) /\ Sorted(p1[0]) /\ Of(p1[0]) = Of(p[0]) \ F0 /\ F0 \subseteq Of(p[0])
      /\ IsFiniteSet(F0) /\ Cardinality(F0) = n0 /\ (p[0] = << >> => p1[0] = << >>)
  <2>1. /\ p[0] \in Seq(Entries) /\ OneEach(p[0]) /\ Sorted(p[0]) /\ n0 \in Nat /\ n0 <= Len(p[0])
        /\ b0 \in BOOLEAN /\ p1[0] = Rest(p[0], n0, b0)
    BY <1>1
  <2> HIDE DEF Shortened
  <2> QED
    BY <2>1, RestOut
<1>3. /\ p1[1] \in Seq(Entries) /\ OneEach(p1[1]) /\ Sorted(p1[1]) /\ Of(p1[1]) = Of(p[1]) \ F1 /\ F1 \subseteq Of(p[1])
      /\ IsFiniteSet(F1) /\ Cardinality(F1) = n1 /\ (p[1] = << >> => p1[1] = << >>)
  <2>1. /\ p[1] \in Seq(Entries) /\ OneEach(p[1]) /\ Sorted(p[1]) /\ n1 \in Nat /\ n1 <= Len(p[1])
        /\ b1 \in BOOLEAN /\ p1[1] = Rest(p[1], n1, b1)
    BY <1>1
  <2> HIDE DEF Shortened
  <2> QED
    BY <2>1, RestOut
<1>4. QueuesOK(mode, q, p1)
  <2>1. Of(p1[0]) \cap Of(p1[1]) = {}
    BY <1>1, <1>2, <1>3, Zenon
  <2>2. IF mode THEN q = << >> ELSE p1[0] = << >> /\ p1[1] = << >>
    BY <1>1, <1>2, <1>3
  <2>3. p1 \in [Regions -> Seq(Entries)]
    BY <1>2, <1>3 DEF Regions
  <2> QED
    BY <1>1, <1>2, <1>3, <2>1, <2>2, <2>3 DEF QueuesOK, Regions
<1>5. Range(q) \cap (Of(p[0]) \cup Of(p[1])) = {}
  <2>1. q = << >> => Range(q) = {}
    BY DEF Range
  <2>2. \A r \in Regions : p[r] = << >> => Of(p[r]) = {}
    BY DEF Of
  <2> QED
    BY <1>1, <2>1, <2>2 DEF Regions
<1>6. Held(q, p1) = Held(q, p) \ (F0 \cup F1) /\ F0 \cup F1 \subseteq Held(q, p)
  BY <1>1, <1>2, <1>3, <1>5 DEF Held
<1> QED
  BY <1>2, <1>3, <1>4, <1>6 DEF Regions

\* At most LoginPerTick - 1 sessions too many get a place in a tick.
LEMMA TickSlack ==
    ASSUME NEW active \in Nat, NEW n0 \in Nat, NEW n1 \in Nat, NEW tick \in Nat, NEW hard \in Nat,
           n0 <= tick, n1 <= tick, n0 > 0 => active < hard, n1 > 0 => active + n0 < hard
    PROVE  (n0 = 0 /\ n1 = 0) \/ active + n0 + n1 <= hard + (IF tick > 1 THEN tick - 1 ELSE 0)
<1>1. CASE n1 > 0
  BY <1>1
<1>2. CASE n1 = 0 /\ n0 > 0
  BY <1>2
<1> QED
  BY <1>1, <1>2

\* The top of UpdateSessions: both regions' queues accept sessions.
LEMMA AcceptStep == ASSUME Facts, IndInv, Accept PROVE IndInv'
<1>1. PICK active, limit0 :
         /\ active = ActiveSessionCount
         /\ limit0 = IF PlayerHardLimit > 0 THEN Min({PlayerHardLimit, m_playerLimit}) ELSE m_playerLimit
  OBVIOUS
<1>2. PICK n0, limit1 : n0 = AcceptNow(0, limit0, active) /\ limit1 = LimitAfter(0, limit0, active)
  OBVIOUS
<1>3. PICK n1, limit2 : n1 = AcceptNow(1, limit1, active + n0) /\ limit2 = LimitAfter(1, limit1, active + n0)
  OBVIOUS
<1>4. active \in Nat /\ limit0 \in Nat /\ LoginPerTick \in Nat /\ PlayerHardLimit \in Nat
  <2>1. active \in Nat
    BY <1>1, Counts
  <2>2. m_playerLimit \in Nat /\ LoginPerTick \in Nat /\ PlayerHardLimit \in Nat
    BY Typed, SessionQueueAssumption
  <2>3. Min({PlayerHardLimit, m_playerLimit}) \in Nat
    BY <2>2 DEF Facts, MinFact
  <2> QED
    BY <1>1, <2>1, <2>2, <2>3
<1>5. /\ n0 \in Nat /\ n0 <= Len(m_priorityQueue[0]) /\ n0 <= LoginPerTick
      /\ n0 > 0 => active < PlayerHardLimit
      /\ limit1 \in Nat
  BY <1>2, <1>4, AcceptedNumber, Zenon DEF Regions
<1>6. active + n0 \in Nat
  BY <1>4, <1>5
<1>7. /\ n1 \in Nat /\ n1 <= Len(m_priorityQueue[1]) /\ n1 <= LoginPerTick
      /\ n1 > 0 => active + n0 < PlayerHardLimit
      /\ limit2 \in Nat
  BY <1>3, <1>5, <1>6, AcceptedNumber, Zenon DEF Regions
<1>8. PICK F0, F1 : F0 = First(m_priorityQueue[0], n0) /\ F1 = First(m_priorityQueue[1], n1)
  OBVIOUS
<1>9. PICK In, Out : In = F0 \cup F1 /\ Out = {}
  BY Zenon
<1>10. PICK n : n = [r \in Regions |-> IF r = 0 THEN n0 ELSE n1]
  BY Zenon
<1>11. /\ sess' = [s \in Sessions |->
                     IF s \in UNION {{m_priorityQueue[r][i].s : i \in 1..n[r]} : r \in Regions}
                     THEN Admit(sess[s]) ELSE sess[s]]
       /\ logged' = Counted(UNION {{m_priorityQueue[r][i].s : i \in 1..n[r]} : r \in Regions}, {})
       /\ m_priorityQueue' = [r \in Regions |->
                LET q == SubSeq(m_priorityQueue[r], n[r] + 1, Len(m_priorityQueue[r]))
                IN  IF Accepting(r) THEN Older(q) ELSE q]
       /\ m_playerLimit' = limit2
  <2>1. m_playerLimit' = limit2
    BY <1>1, <1>2, <1>3, Zenon DEF Accept
  <2>2. logged' = Counted(UNION {{m_priorityQueue[r][i].s : i \in 1..n[r]} : r \in Regions}, {})
    BY <1>1, <1>2, <1>3, <1>10 DEF Accept
  <2>3. sess' = [s \in Sessions |->
                     IF s \in UNION {{m_priorityQueue[r][i].s : i \in 1..n[r]} : r \in Regions}
                     THEN Admit(sess[s]) ELSE sess[s]]
    BY <1>1, <1>2, <1>3, <1>10 DEF Accept
  <2>4. m_priorityQueue' = [r \in Regions |->
                LET q == SubSeq(m_priorityQueue[r], n[r] + 1, Len(m_priorityQueue[r]))
                IN  IF Accepting(r) THEN Older(q) ELSE q]
    BY <1>1, <1>2, <1>3, <1>10, Zenon DEF Accept
  <2> QED
    BY <2>1, <2>2, <2>3, <2>4
<1>12. UNION {{m_priorityQueue[r][i].s : i \in 1..n[r]} : r \in Regions} = In
  <2>1. n[0] = n0 /\ n[1] = n1
    BY <1>10 DEF Regions
  <2> QED
    BY <1>8, <1>9, <2>1 DEF Regions, First
<1>13. logged' = Counted(In, Out)
  BY <1>9, <1>11, <1>12, Zenon
<1>14. sess' = [x \in Sessions |-> IF x \in In THEN Admit(sess[x]) ELSE IF x \in Out THEN Blank ELSE sess[x]]
  <2>1. PICK D : D = UNION {{m_priorityQueue[r][i].s : i \in 1..n[r]} : r \in Regions}
    BY Zenon
  <2>2. sess' = [s \in Sessions |-> IF s \in D THEN Admit(sess[s]) ELSE sess[s]]
    BY <1>11, <2>1, Zenon
  <2>3. D = In
    BY <1>12, <2>1, Zenon
  <2> QED
    BY <1>9, <2>2, <2>3
<1>15. PICK b0 \in BOOLEAN, b1 \in BOOLEAN : b0 = Accepting(0) /\ b1 = Accepting(1)
  BY Zenon DEF Accepting
<1>16. /\ m_priorityQueue'[0] = Rest(m_priorityQueue[0], n0, b0)
       /\ m_priorityQueue'[1] = Rest(m_priorityQueue[1], n1, b1)
       /\ m_priorityQueue' = [r \in Regions |-> m_priorityQueue'[r]]
  <2>1. n[0] = n0 /\ n[1] = n1 /\ 0 \in Regions /\ 1 \in Regions
    BY <1>10 DEF Regions
  <2> QED
    BY <1>11, <1>15, <2>1 DEF Rest, Later
<1>17. PICK p : p = m_priorityQueue'
  OBVIOUS
<1>18. /\ QueuesOK(priorityQueue, m_QueuedSessions, p)
       /\ Held(m_QueuedSessions, p) = W \ In /\ In \subseteq W
       /\ \A r \in Regions : Of(p[r]) \subseteq Of(m_priorityQueue[r])
       /\ IsFiniteSet(F0) /\ IsFiniteSet(F1) /\ Cardinality(F0) = n0 /\ Cardinality(F1) = n1
  <2>1. /\ p = [r \in Regions |-> p[r]]
        /\ p[0] = Rest(m_priorityQueue[0], n0, b0) /\ p[1] = Rest(m_priorityQueue[1], n1, b1)
    BY <1>16, <1>17, Zenon
  <2>2. QueuesOK(priorityQueue, m_QueuedSessions, m_priorityQueue) /\ priorityQueue \in BOOLEAN
    BY Typed, Counts
  <2>3. /\ QueuesOK(priorityQueue, m_QueuedSessions, p)
        /\ Held(m_QueuedSessions, p) = Held(m_QueuedSessions, m_priorityQueue) \ (F0 \cup F1)
        /\ F0 \cup F1 \subseteq Held(m_QueuedSessions, m_priorityQueue)
        /\ \A r \in Regions : Of(p[r]) \subseteq Of(m_priorityQueue[r])
        /\ IsFiniteSet(F0) /\ IsFiniteSet(F1) /\ Cardinality(F0) = n0 /\ Cardinality(F1) = n1
    <3>1. /\ n0 \in Nat /\ n0 <= Len(m_priorityQueue[0]) /\ n1 \in Nat /\ n1 <= Len(m_priorityQueue[1])
          /\ b0 \in BOOLEAN /\ b1 \in BOOLEAN
      BY <1>5, <1>7
    <3>2. F0 = First(m_priorityQueue[0], n0) /\ F1 = First(m_priorityQueue[1], n1)
      BY <1>8
    <3>3. Shortened(m_priorityQueue, p, n0, b0, n1, b1)
      BY <2>1, <3>1 DEF Shortened
    <3> QED
      BY <2>2, <3>2, <3>3, RestHeld
  <2> QED
    BY <1>9, <2>3 DEF W
<1>19. /\ UNCHANGED <<priorityQueue, created, alive, todo, addSessQueue, m_sessions, m_disconnectedSessions>>
       /\ UNCHANGED <<m_QueuedSessions, m_accountsLastLogout, m_Ipconnections>>
       /\ phase = "accept" /\ phase' = "add"
  BY DEF Accept, tables, memory
<1>20. W' = W \ In /\ New' = New /\ InTable' = InTable
  BY <1>17, <1>18, <1>19 DEF W, New, InTable
<1>21. W' = (W \ In) \cap InTable'
  BY <1>20, Counts
<1>22. \/ In = {}
       \/ Cardinality(InTable' \ W') <= PlayerHardLimit + (IF LoginPerTick > 1 THEN LoginPerTick - 1 ELSE 0)
  <2>1. PICK A : A = InTable \ W
    BY Zenon
  <2>2. IsFiniteSet(A) /\ Cardinality(A) = active
    BY <1>1, <2>1, Counts
  <2>3. InTable' \ W' = (A \cup F0) \cup F1
    BY <1>9, <1>18, <1>20, <2>1, Counts
  <2>4. IsFiniteSet(A \cup F0) /\ Cardinality(A \cup F0) <= active + n0 /\ Cardinality(A \cup F0) \in Nat
    <3>1. Cardinality(A \cap F0) \in Nat
      BY <2>2 DEF Facts, IntersectionFact, SizeFact
    <3>2. IsFiniteSet(A \cup F0) /\ Cardinality(A \cup F0) = active + n0 - Cardinality(A \cap F0)
      BY <1>18, <2>2 DEF Facts, UnionFact
    <3> QED
      BY <1>4, <1>5, <3>1, <3>2 DEF Facts, SizeFact
  <2>5. PICK B : B = A \cup F0
    BY Zenon
  <2>6. IsFiniteSet(B) /\ Cardinality(B) <= active + n0 /\ Cardinality(B) \in Nat
    BY <2>4, <2>5, Zenon
  <2>7. Cardinality(B \cup F1) <= active + n0 + n1 /\ Cardinality(B \cup F1) \in Nat
    <3>1. Cardinality(B \cap F1) \in Nat
      BY <2>6 DEF Facts, IntersectionFact, SizeFact
    <3>2. IsFiniteSet(B \cup F1) /\ Cardinality(B \cup F1) = Cardinality(B) + n1 - Cardinality(B \cap F1)
      BY <1>18, <2>6, Zenon DEF Facts, UnionFact
    <3>3. Cardinality(B \cup F1) \in Nat
      BY <3>2 DEF Facts, SizeFact
    <3> QED
      BY <1>4, <1>5, <1>7, <2>6, <3>1, <3>2, <3>3
  <2>8. InTable' \ W' = B \cup F1
    BY <2>3, <2>5
  <2>9. Cardinality(InTable' \ W') = Cardinality(B \cup F1)
    BY <2>8, Zenon
  <2>10. \/ n0 = 0 /\ n1 = 0
         \/ active + n0 + n1 <= PlayerHardLimit + (IF LoginPerTick > 1 THEN LoginPerTick - 1 ELSE 0)
    BY <1>4, <1>5, <1>7, TickSlack
  <2>11. CASE n0 = 0 /\ n1 = 0
    <3>1. F0 = {} /\ F1 = {}
      BY <1>18, <2>11 DEF Facts, EmptyFact
    <3> QED
      BY <1>9, <3>1
  <2>12. CASE active + n0 + n1 <= PlayerHardLimit + (IF LoginPerTick > 1 THEN LoginPerTick - 1 ELSE 0)
    BY <1>4, <1>5, <1>7, <2>7, <2>9, <2>12
  <2> QED
    BY <2>10, <2>11, <2>12
<1>23. \A ip \in Addresses : m_Ipconnections'[ip] >= Cardinality(At(ip) \ (InTable \ InTable'))
  BY <1>19, FewerAt, ZenonT(30)
<1>24. QueuesOK(priorityQueue, m_QueuedSessions', m_priorityQueue')
  BY <1>17, <1>18, <1>19, Zenon
<1>25. \A r \in Regions : Of(m_priorityQueue'[r]) \subseteq Of(m_priorityQueue[r])
  BY <1>17, <1>18, Zenon
<1>26. /\ m_playerLimit' \in Nat /\ alive' = alive \ Out /\ Out \subseteq alive \ In /\ New' \subseteq New \ Out
       /\ m_disconnectedSessions' \subseteq alive' \ InTable' /\ m_disconnectedSessions' \cap New' = {}
       /\ InTable' \subseteq alive' /\ todo' \subseteq InTable'
  BY <1>7, <1>9, <1>11, <1>19, <1>20, Typed, Apart
<1>27. Leaves(In, Out)
  BY <1>13, <1>14, <1>18, <1>19, <1>20, <1>21, <1>22, <1>23, <1>24, <1>25, <1>26, Typed, Zenon DEF Leaves
<1> QED
  BY <1>27, Leave

\* The session that session s replaces, if there is one.
Gone(s) == {m_sessions[sess[s].acct]} \ {Null}

\* What the replacement of the sessions G may do to the queues.
Replacing(rep, G) ==
    /\ G \subseteq InTable
    /\ rep.deleted \cup rep.kept = G /\ rep.deleted \cap rep.kept = {}
    /\ rep.kept \cap W = {}
    /\ QueuesOK(priorityQueue, rep.queue, rep.priority)
    /\ rep.accepted \subseteq W \ G
    /\ Held(rep.queue, rep.priority) = W \ (G \cup rep.accepted)
    /\ \A r \in Regions : Of(rep.priority[r]) \subseteq Of(m_priorityQueue[r])
    /\ rep.accepted # {} => Cardinality((InTable \ G) \ (W \ rep.accepted)) <= PlayerHardLimit

\* A new session replaces another one: that leaves its queue, which may
\* accept one.
LEMMA ReplacedEffect ==
    ASSUME Facts, IndInv, NEW s \in New, NEW stays \in BOOLEAN,
           stays => /\ m_sessions[sess[s].acct] # Null
                    /\ sess[m_sessions[sess[s].acct]].state = "playing",
           NEW rep, rep = Replaced(s, stays), NEW G, G = Gone(s)
    PROVE  Replacing(rep, G)
<1>1. PICK old : old = m_sessions[sess[s].acct]
  OBVIOUS
<1>2. old # Null => old \in InTable
  <2>1. sess[s].acct \in Accounts
    BY Tables
  <2> QED
    BY <1>1, <2>1, Tables
<1>3. CASE old = Null
  <2>1. G = {}
    BY <1>1, <1>3 DEF Gone
  <2>2. /\ rep.queue = m_QueuedSessions /\ rep.priority = m_priorityQueue
        /\ rep.accepted = {} /\ rep.deleted = {} /\ rep.kept = {}
    BY <1>1, <1>3 DEF Replaced
  <2>3. QueuesOK(priorityQueue, rep.queue, rep.priority) /\ Held(rep.queue, rep.priority) = W
    BY <2>2, Typed, Zenon DEF W
  <2>4. \A r \in Regions : Of(rep.priority[r]) \subseteq Of(m_priorityQueue[r])
    BY <2>2, Zenon
  <2> QED
    BY <2>1, <2>2, <2>3, <2>4 DEF Replacing
<1>4. CASE old # Null
  <2>1. G = {old} /\ old \in InTable
    BY <1>1, <1>2, <1>4 DEF Gone
  <2>2. PICK rem : rem = RemoveQueuedSession(old)
    OBVIOUS
  <2>3. /\ rep.queue = rem.queue /\ rep.priority = rem.priority /\ rep.accepted = rem.accepted
        /\ rep.deleted = (IF stays THEN {} ELSE {old}) /\ rep.kept = (IF stays THEN {old} ELSE {})
    BY <1>1, <1>4, <2>2 DEF Replaced
  <2>4. /\ QueuesOK(priorityQueue, rem.queue, rem.priority)
        /\ rem.accepted \subseteq W \ {old}
        /\ Held(rem.queue, rem.priority) = W \ ({old} \cup rem.accepted)
        /\ \A r \in Regions : Of(rem.priority[r]) \subseteq Of(m_priorityQueue[r])
        /\ rem.accepted # {} =>
             Cardinality((InTable \ {old}) \ (W \ rem.accepted)) <= PlayerHardLimit
    BY <2>1, <2>2, Removed, Zenon
  <2>5. stays => old \notin W
    BY <1>1, <2>1 DEF IndInv, QueueInv, WaitingInv
  <2>6. rep.deleted \cup rep.kept = G /\ rep.deleted \cap rep.kept = {} /\ rep.kept \cap W = {}
    BY <2>1, <2>3, <2>5
  <2>7. /\ QueuesOK(priorityQueue, rep.queue, rep.priority)
        /\ rep.accepted \subseteq W \ G
        /\ Held(rep.queue, rep.priority) = W \ (G \cup rep.accepted)
        /\ \A r \in Regions : Of(rep.priority[r]) \subseteq Of(m_priorityQueue[r])
        /\ rep.accepted # {} => Cardinality((InTable \ G) \ (W \ rep.accepted)) <= PlayerHardLimit
    BY <2>1, <2>3, <2>4, Zenon
  <2> QED
    BY <2>1, <2>6, <2>7 DEF Replacing
<1> QED
  BY <1>3, <1>4

\* Session s joins the queues q, p of its mode, in region r, if it waits.
Joined(mode, q, p, q1, p1, r, e, waits) ==
    /\ q1 = IF waits /\ ~mode THEN Append(q, e.s) ELSE q
    /\ p1 = IF waits /\ mode THEN Put(p, r, e) ELSE p

\* What follows for the queues.
HasJoined(mode, q, p, q1, p1, r, e, waits) ==
    /\ QueuesOK(mode, q1, p1)
    /\ Held(q1, p1) = Held(q, p) \cup (IF waits THEN {e.s} ELSE {})
    /\ \A t \in Regions : \A x \in Of(p1[t]) : x \in Of(p[t]) \/ (x = e.s /\ t = r)

\* They hold it too.
LEMMA JoinedHeld ==
    ASSUME Facts, NEW mode \in BOOLEAN, NEW q, NEW p, QueuesOK(mode, q, p),
           NEW r \in Regions, NEW e \in Entries, e.s \notin Held(q, p), NEW waits \in BOOLEAN,
           NEW q1, NEW p1, Joined(mode, q, p, q1, p1, r, e, waits)
    PROVE  HasJoined(mode, q, p, q1, p1, r, e, waits)
<1> USE DEF HasJoined
<1>1. CASE ~waits
  <2>1. q1 = q /\ p1 = p
    BY <1>1 DEF Joined
  <2>2. QueuesOK(mode, q1, p1) /\ Held(q1, p1) = Held(q, p)
    BY <2>1, Zenon
  <2> QED
    BY <1>1, <2>1, <2>2
<1>2. CASE waits /\ ~mode
  <2>1. q1 = Append(q, e.s) /\ p1 = p /\ e.s \in Sessions
    BY <1>2 DEF Joined, Entries
  <2>2. QueuesOK(mode, Append(q, e.s), p) /\ Held(Append(q, e.s), p) = Held(q, p) \cup {e.s}
    BY <1>2, <2>1 DEF Facts, LastFact
  <2>3. QueuesOK(mode, q1, p1) /\ Held(q1, p1) = Held(q, p) \cup {e.s}
    BY <2>1, <2>2, Zenon
  <2> QED
    BY <1>2, <2>1, <2>3
<1>3. CASE waits /\ mode
  <2>1. q1 = q /\ p1 = Put(p, r, e)
    BY <1>3 DEF Joined
  <2>3. /\ QueuesOK(mode, q, p1)
        /\ Held(q, p1) = Held(q, p) \cup {e.s}
        /\ Of(p1[r]) = Of(p[r]) \cup {e.s}
        /\ \A t \in Regions : t # r => p1[t] = p[t]
    <3>1. mode = TRUE /\ p1 = Put(p, r, e)
      BY <1>3, <2>1
    <3>2. Fits(mode, q, p, p1, r, e)
      BY <3>1, Zenon DEF Facts, PutFact
    <3> QED
      BY <3>2 DEF Fits
  <2>4. QueuesOK(mode, q1, p1) /\ Held(q1, p1) = Held(q, p) \cup {e.s}
    BY <2>1, <2>3, Zenon
  <2>5. ASSUME NEW t \in Regions, NEW x \in Of(p1[t]) PROVE x \in Of(p[t]) \/ (x = e.s /\ t = r)
    <3>1. CASE t = r
      BY <2>3, <2>5, <3>1
    <3>2. CASE t # r
      <4>1. p1[t] = p[t]
        BY <2>3, <3>2
      <4> QED
        BY <2>5, <4>1, Zenon
    <3> QED
      BY <3>1, <3>2
  <2> QED
    BY <1>3, <2>4, <2>5, Zenon
<1> QED
  BY <1>1, <1>2, <1>3

\* The maximum of two numbers.
LEMMA MaxTwo == ASSUME NEW a \in Int, NEW b \in Int PROVE Max({a, b}) = IF a >= b THEN a ELSE b
<1>1. PICK m \in {a, b} : m = IF a >= b THEN a ELSE b
  OBVIOUS
<1>2. m \in {a, b} /\ \A y \in {a, b} : m >= y
  BY <1>1
<1>3. \A x \in {a, b} : (\A y \in {a, b} : x >= y) => x = m
  BY <1>2
<1>4. Max({a, b}) = m
  BY <1>2, <1>3 DEF Max
<1> QED
  BY <1>1, <1>4

\* The priority of a newcomer is in range.
LEMMA PriorityRange == ASSUME IndInv, NEW a \in Accounts PROVE Priority(a) \in 0 .. MaxPriority
<1>1. PICK b \in 0 .. MaxPriority : b = BasePriority[a]
  BY SessionQueueAssumption
<1>2. MaxPriority \in Nat /\ PriorityReduction \in Nat
  BY SessionQueueAssumption
<1>3. PICK d \in Int : d = b - PriorityReduction
  BY <1>1, <1>2
<1>4. Max({0, d}) = IF 0 >= d THEN 0 ELSE d
  BY MaxTwo
<1>5. Max({0, d}) \in 0 .. MaxPriority
  BY <1>1, <1>2, <1>3, <1>4
<1> QED
  BY <1>1, <1>3, <1>5 DEF Priority

\* The counters once session s comes, passing at once unless it waits.
CountedWith(s, waits, acc, del) ==
    IF waits THEN Counted(acc, del) ELSE [Counted(acc, del) EXCEPT ![RegionOf(s)] = @ + 1]

Populations(In, Out) == [r \in Regions |-> Cardinality(After(r, In, Out))]

\* They count s too if it passes.
LEMMA JoinedCount ==
    ASSUME Facts, IndInv, NEW s \in New, NEW acc, acc \subseteq W, NEW del, del \subseteq alive \ (acc \cup {s}),
           NEW waits \in BOOLEAN, NEW In, In = acc \cup (IF waits THEN {} ELSE {s})
    PROVE  CountedWith(s, waits, acc, del) = Populations(In, del)
<1> USE DEF Populations
<1> DEFINE l == CountedWith(s, waits, acc, del)
<1>1. /\ IsFiniteSet(alive) /\ s \in alive /\ acc \subseteq alive /\ RegionOf(s) \in Regions
      /\ s \notin acc /\ sess[s].passed = "no" /\ \A x \in acc : sess[x].passed = "no"
  <2>1. alive \subseteq Sessions /\ New \subseteq alive /\ InTable \subseteq alive /\ W \subseteq InTable /\ IsFiniteSet(alive)
    BY Tables, Counts
  <2>2. s \notin InTable
    BY Typed
  <2>3. sess[s].passed = "no" /\ \A x \in acc : sess[x].passed = "no"
    BY <2>1 DEF IndInv, QueueInv, WaitingInv
  <2>4. RegionOf(s) \in Regions
    BY <2>1, Tables
  <2> QED
    BY <2>1, <2>2, <2>3, <2>4
<1>2. PICK c : c = Counted(acc, del)
  OBVIOUS
<1>3. c = [r \in Regions |-> Cardinality(After(r, acc, del))]
  <2>1. del \subseteq alive \ acc
    OBVIOUS
  <2> QED
    BY <1>1, <1>2, <2>1, CountedAfter
<1>4. CASE waits
  <2>1. In = acc /\ l = c
    BY <1>2, <1>4 DEF CountedWith
  <2> QED
    BY <1>3, <2>1, Zenon
<1>5. CASE ~waits
  <2>1. In = acc \cup {s} /\ l = [c EXCEPT ![RegionOf(s)] = @ + 1]
    BY <1>2, <1>5 DEF CountedWith
  <2>2. ASSUME NEW r \in Regions
        PROVE  Cardinality(After(r, In, del)) = IF r = RegionOf(s) THEN c[r] + 1 ELSE c[r]
    <3>1. PICK A : A = After(r, acc, del)
      OBVIOUS
    <3>2. IsFiniteSet(A) /\ s \notin A
      <4>1. A \subseteq alive /\ s \notin A
        BY <1>1, <3>1 DEF After, Passed
      <4> QED
        BY <1>1, <4>1 DEF Facts, SubsetFact
    <3>3. c[r] = Cardinality(A) /\ Cardinality(A) \in Nat
      BY <1>3, <3>1, <3>2 DEF Facts, SizeFact
    <3>4. CASE r = RegionOf(s)
      <4>1. After(r, In, del) = A \cup {s}
        BY <1>1, <2>1, <3>1, <3>4 DEF After
      <4>2. Cardinality(A \cup {s}) = Cardinality(A) + 1
        BY <3>2, Zenon DEF Facts, AddFact
      <4>3. Cardinality(After(r, In, del)) = Cardinality(A \cup {s})
        BY <4>1, Zenon
      <4> QED
        BY <3>3, <3>4, <4>2, <4>3
    <3>5. CASE r # RegionOf(s)
      <4>1. After(r, In, del) = A
        BY <2>1, <3>1, <3>5 DEF After
      <4>2. Cardinality(After(r, In, del)) = Cardinality(A)
        BY <4>1, Zenon
      <4> QED
        BY <3>3, <3>5, <4>2
    <3> QED
      BY <3>4, <3>5
  <2> QED
    BY <1>1, <1>3, <2>1, <2>2
<1> QED
  BY <1>4, <1>5

\* What becomes of the fields of the sessions when session s comes.
HasFields(f, s, waits, how, acc, del, kept) ==
    /\ f \in [Sessions -> SessionRec]
    /\ \A x \in Sessions : x # s /\ x \in acc => f[x] = Admit(sess[x])
    /\ \A x \in Sessions : x \notin acc \cup del \cup kept \cup {s} => f[x] = sess[x]
    /\ \A x \in Sessions : x # s /\ x \notin acc \cup del =>
         f[x].acct = sess[x].acct /\ f[x].passed = sess[x].passed
    /\ f[s].acct = sess[s].acct /\ f[s].state = sess[s].state
    /\ f[s].inQueue <=> waits
    /\ f[s].passed = IF waits THEN "no" ELSE how

\* AddSession_ leaves the fields of the sessions like that.
LEMMA JoinedFields ==
    ASSUME Facts, IndInv, NEW s \in New, NEW acc, NEW del, NEW kept, s \notin acc \cup del \cup kept,
           NEW waits \in BOOLEAN, NEW how \in {"room", "skipped"},
           NEW f, f = [Fields(acc, del, kept) EXCEPT ![s] =
                         IF waits THEN [@ EXCEPT !.inQueue = TRUE, !.hadQueue = TRUE]
                         ELSE [@ EXCEPT !.passed = how]]
    PROVE  HasFields(f, s, waits, how, acc, del, kept)
<1>1. s \in Sessions /\ sess[s].passed = "no" /\ ~sess[s].inQueue
  BY Tables DEF IndInv, QueueInv, WaitingInv
<1>2. PICK g : g = Fields(acc, del, kept)
  OBVIOUS
<1>3. g = [x \in Sessions |-> g[x]]
  BY <1>2 DEF Fields
<1>4. ASSUME NEW x \in Sessions
      PROVE  /\ g[x] \in SessionRec
             /\ x \in acc => g[x] = Admit(sess[x])
             /\ x \notin acc \cup del \cup kept => g[x] = sess[x]
             /\ x \notin acc \cup del => g[x].acct = sess[x].acct /\ g[x].passed = sess[x].passed
  <2>1. sess[x] \in SessionRec
    BY Tables
  <2>2. g[x] = IF x \in acc THEN Admit(sess[x])
               ELSE IF x \in del THEN Blank
               ELSE IF x \in kept
               THEN [sess[x] EXCEPT !.open = FALSE, !.inQueue = @ /\ ~InQueue(x)]
               ELSE sess[x]
    BY <1>2 DEF Fields
  <2>3. Admit(sess[x]) \in SessionRec
    BY <2>1, Admitted
  <2>4. Blank \in SessionRec
    BY SessionQueueAssumption DEF Blank, NewSession, SessionRec
  <2>5. PICK k : k = [sess[x] EXCEPT !.open = FALSE, !.inQueue = @ /\ ~InQueue(x)]
    OBVIOUS
  <2>6. k \in SessionRec /\ k.acct = sess[x].acct /\ k.passed = sess[x].passed
    <3>1. PICK b \in BOOLEAN : b = (sess[x].inQueue /\ ~InQueue(x))
      BY Zenon
    <3>2. k = [sess[x] EXCEPT !.open = FALSE, !.inQueue = b]
      BY <2>5, <3>1
    <3> QED
      BY <2>1, <3>2, Zenon DEF SessionRec
  <2> QED
    BY <2>1, <2>2, <2>3, <2>4, <2>5, <2>6
<1>5. g[s] = sess[s] /\ sess[s] \in SessionRec
  BY <1>1, <1>4, Tables
<1>6. PICK k : k = IF waits THEN [sess[s] EXCEPT !.inQueue = TRUE, !.hadQueue = TRUE]
                   ELSE [sess[s] EXCEPT !.passed = how]
  BY Zenon
<1>7. /\ k \in SessionRec /\ k.acct = sess[s].acct /\ k.state = sess[s].state
      /\ k.inQueue <=> waits
      /\ k.passed = IF waits THEN "no" ELSE how
  <2>1. CASE waits
    <3>1. k = [sess[s] EXCEPT !.inQueue = TRUE, !.hadQueue = TRUE]
      BY <1>6, <2>1
    <3>2. k \in SessionRec /\ k.acct = sess[s].acct /\ k.state = sess[s].state /\ k.inQueue /\ k.passed = sess[s].passed
      BY <1>5, <3>1, Zenon DEF SessionRec
    <3> QED
      BY <1>1, <2>1, <3>2
  <2>2. CASE ~waits
    <3>1. k = [sess[s] EXCEPT !.passed = how]
      BY <1>6, <2>2
    <3>2. /\ k \in SessionRec /\ k.acct = sess[s].acct /\ k.state = sess[s].state
          /\ k.inQueue = sess[s].inQueue /\ k.passed = how
      BY <1>5, <3>1 DEF SessionRec
    <3> QED
      BY <1>1, <2>2, <3>2
  <2> QED
    BY <2>1, <2>2
<1>8. f = [g EXCEPT ![s] = k]
  <2>1. f = [g EXCEPT ![s] = IF waits THEN [g[s] EXCEPT !.inQueue = TRUE, !.hadQueue = TRUE]
                             ELSE [g[s] EXCEPT !.passed = how]]
    BY <1>2, Zenon
  <2>2. k = IF waits THEN [g[s] EXCEPT !.inQueue = TRUE, !.hadQueue = TRUE]
            ELSE [g[s] EXCEPT !.passed = how]
    BY <1>5, <1>6, Zenon
  <2> QED
    BY <2>1, <2>2, Zenon
<1>9. f[s] = k /\ f = [x \in Sessions |-> f[x]] /\ \A x \in Sessions : x # s => f[x] = g[x]
  BY <1>1, <1>3, <1>8, Zenon
<1>10. f \in [Sessions -> SessionRec]
  BY <1>4, <1>7, <1>9, Zenon
<1>11. ASSUME NEW x \in Sessions, x # s
       PROVE  /\ x \in acc => f[x] = Admit(sess[x])
              /\ x \notin acc \cup del \cup kept => f[x] = sess[x]
              /\ x \notin acc \cup del => f[x].acct = sess[x].acct /\ f[x].passed = sess[x].passed
  <2>1. f[x] = g[x]
    BY <1>9, <1>11
  <2> QED
    BY <1>4, <2>1, Zenon
<1>12. /\ f[s].acct = sess[s].acct /\ f[s].state = sess[s].state
       /\ f[s].inQueue <=> waits
       /\ f[s].passed = IF waits THEN "no" ELSE how
  BY <1>7, <1>9, Zenon
<1>13. \A x \in Sessions : x \notin acc \cup del \cup kept \cup {s} => f[x] = sess[x]
  BY <1>11, Zenon
<1> QED
  BY <1>10, <1>11, <1>12, <1>13, Zenon DEF HasFields

\* The address of the account of session s gets one more connection.
LEMMA JoinedAddress ==
    ASSUME Facts, IndInv, NEW s \in New, NEW G, NEW c, c = Connected(sess[s].acct)
    PROVE  /\ c \in [Addresses -> Nat]
           /\ \A ip \in Addresses :
                c[ip] >= Cardinality((At(ip) \ G) \cup (IF Address[sess[s].acct] = ip THEN {s} ELSE {}))
<1>1. sess[s].acct \in Accounts
  BY Tables
<1>2. PICK at \in Addresses : at = Address[sess[s].acct]
  BY <1>1 DEF Addresses
<1>3. c = [m_Ipconnections EXCEPT ![at] = @ + 1] /\ m_Ipconnections \in [Addresses -> Nat]
  BY <1>2, Typed DEF Connected
<1>4. c \in [Addresses -> Nat] /\ c[at] = m_Ipconnections[at] + 1 /\ \A ip \in Addresses : ip # at => c[ip] = m_Ipconnections[ip]
  BY <1>3
<1>5. ASSUME NEW ip \in Addresses
      PROVE  c[ip] >= Cardinality((At(ip) \ G) \cup (IF Address[sess[s].acct] = ip THEN {s} ELSE {}))
  <2>1. PICK A : A = At(ip) \ G
    BY Zenon
  <2>2. m_Ipconnections[ip] >= Cardinality(A) /\ m_Ipconnections[ip] \in Nat
    BY <1>3, <2>1, FewerAt, Zenon
  <2>3. IsFiniteSet(A) /\ Cardinality(A) \in Nat
    <3>1. IsFiniteSet(InTable) /\ A \subseteq InTable
      BY <2>1, Tables DEF At
    <3> QED
      BY <3>1 DEF Facts, SubsetFact, SizeFact
  <2>4. Cardinality(A \cup {s}) <= Cardinality(A) + 1 /\ Cardinality(A \cup {s}) \in Nat
    <3>1. IsFiniteSet(A \cup {s}) /\ Cardinality(A \cup {s}) = IF s \in A THEN Cardinality(A) ELSE Cardinality(A) + 1
      BY <2>3 DEF Facts, AddFact
    <3>2. Cardinality(A \cup {s}) \in Nat
      BY <3>1 DEF Facts, SizeFact
    <3> QED
      BY <2>3, <3>1, <3>2
  <2>5. CASE ip = at
    <3>1. (At(ip) \ G) \cup (IF Address[sess[s].acct] = ip THEN {s} ELSE {}) = A \cup {s}
      BY <1>2, <2>1, <2>5
    <3>2. c[ip] >= Cardinality(A \cup {s})
      BY <1>4, <2>2, <2>3, <2>4, <2>5
    <3> QED
      BY <3>1, <3>2, Zenon
  <2>6. CASE ip # at
    <3>1. (At(ip) \ G) \cup (IF Address[sess[s].acct] = ip THEN {s} ELSE {}) = A
      BY <1>2, <2>1, <2>6
    <3>2. c[ip] >= Cardinality(A)
      BY <1>4, <2>2, <2>6
    <3> QED
      BY <3>1, <3>2, Zenon
  <2> QED
    BY <2>5, <2>6
<1> QED
  BY <1>4, <1>5

\* There is a place for session s: with it, no more than PlayerHardLimit
\* sessions of m_sessions do not wait.  H are those that do.
LEMMA RoomLeft ==
    ASSUME Facts, IndInv, NEW s \in New, NEW rep, NEW pops, ~NoPlace(s, rep, pops),
           QueuesOK(priorityQueue, rep.queue, rep.priority),
           NEW H, H = Held(rep.queue, rep.priority),
           NEW T, T = (InTable \ (rep.deleted \cup rep.kept)) \cup {s}, H \subseteq T
    PROVE  IsFiniteSet(T \ H) /\ Cardinality(T \ H) <= PlayerHardLimit
<1>1. IsFiniteSet(InTable) /\ priorityQueue \in BOOLEAN
  BY Tables, Counts
<1>2. IsFiniteSet(T)
  <2>1. IsFiniteSet(InTable \ (rep.deleted \cup rep.kept))
    BY <1>1 DEF Facts, SubsetFact
  <2> QED
    BY <2>1 DEF Facts, AddFact
<1>3. PICK w : w = IF priorityQueue THEN Len(rep.priority[0]) + Len(rep.priority[1]) ELSE Len(rep.queue)
  BY Zenon
<1>4. Cardinality(H) = w
  BY <1>1, <1>3, Zenon DEF Facts, HeldFact
<1>5. PICK t : t = Cardinality(T)
  OBVIOUS
<1>6. ~(t - w >= PlayerHardLimit)
  <2>1. t = Cardinality((InTable \ (rep.deleted \cup rep.kept)) \cup {s})
    BY <1>5, Zenon
  <2> QED
    BY <1>3, <2>1, ZenonT(30) DEF NoPlace
<1>7. IsFiniteSet(T \ H) /\ Cardinality(T \ H) = t - w /\ t \in Nat /\ w \in Nat
  <2>1. IsFiniteSet(H) /\ IsFiniteSet(T \ H)
    BY <1>2 DEF Facts, SubsetFact
  <2>2. Cardinality(T \ H) = Cardinality(T) - Cardinality(H)
    BY <1>2 DEF Facts, RestFact
  <2> QED
    BY <1>2, <1>4, <1>5, <2>1, <2>2 DEF Facts, SizeFact
<1>8. PlayerHardLimit \in Nat
  BY SessionQueueAssumption
<1> QED
  BY <1>6, <1>7, <1>8

\* A new session comes into m_sessions and passes or waits.
LEMMA AddSession_Step == ASSUME Facts, IndInv, AddSession_ PROVE IndInv'
<1>1. PICK s : s = Head(addSessQueue)
  OBVIOUS
<1>2. PICK a : a = sess[s].acct
  OBVIOUS
<1>3. PICK stays \in BOOLEAN :
         LET old   == m_sessions[a]
             rep   == Replaced(s, stays)
             pops  == Counted(rep.accepted, rep.deleted)
             grace == m_accountsLastLogout \cup LoggedOut(rep.kept)
             full  == NoPlace(s, rep, pops)
             waits == full /\ ~CanSkipQueue(a, grace)
         IN  /\ old # Null => sess[old].state # "loading"
             /\ stays => old # Null /\ sess[old].state = "playing"
             /\ m_sessions' = [m_sessions EXCEPT ![a] = s]
             /\ m_disconnectedSessions' = m_disconnectedSessions \cup rep.kept
             /\ alive' = alive \ rep.deleted
             /\ sess' = [Fields(rep.accepted, rep.deleted, rep.kept) EXCEPT ![s] =
                           IF waits THEN [@ EXCEPT !.inQueue = TRUE, !.hadQueue = TRUE]
                           ELSE [@ EXCEPT !.passed = IF full THEN "skipped" ELSE "room"]]
             /\ logged' = IF waits THEN pops ELSE [pops EXCEPT ![Region[a]] = @ + 1]
             /\ Queued(rep, s, waits)
             /\ m_accountsLastLogout' = grace
             /\ m_Ipconnections' = Connected(a)
  BY <1>1, <1>2, Zenon DEF AddSession_
<1>4. PICK rep : rep = Replaced(s, stays)
  OBVIOUS
<1>5. PICK full \in BOOLEAN : full = NoPlace(s, rep, Counted(rep.accepted, rep.deleted))
  BY Zenon DEF NoPlace
<1>6. PICK grace : grace = m_accountsLastLogout \cup LoggedOut(rep.kept)
  BY Zenon
<1>7. PICK waits \in BOOLEAN : waits = (full /\ ~CanSkipQueue(a, grace))
  BY Zenon
<1>8. PICK how : how = IF full THEN "skipped" ELSE "room"
  OBVIOUS
<1>9. /\ stays => m_sessions[a] # Null /\ sess[m_sessions[a]].state = "playing"
      /\ m_sessions' = [m_sessions EXCEPT ![a] = s]
      /\ m_disconnectedSessions' = m_disconnectedSessions \cup rep.kept
      /\ alive' = alive \ rep.deleted
      /\ m_accountsLastLogout' = grace /\ m_Ipconnections' = Connected(a)
  BY <1>3, <1>4, <1>6, Zenon
<1>10. logged' = IF waits THEN Counted(rep.accepted, rep.deleted)
                 ELSE [Counted(rep.accepted, rep.deleted) EXCEPT ![Region[a]] = @ + 1]
  BY <1>3, <1>4, <1>5, <1>6, <1>7, Zenon
<1>11. Queued(rep, s, waits)
  BY <1>3, <1>4, <1>5, <1>6, <1>7
<1>12. sess' = [Fields(rep.accepted, rep.deleted, rep.kept) EXCEPT ![s] =
                  IF waits THEN [@ EXCEPT !.inQueue = TRUE, !.hadQueue = TRUE] ELSE [@ EXCEPT !.passed = how]]
  BY <1>3, <1>4, <1>5, <1>6, <1>7, <1>8, Zenon
<1>13. /\ UNCHANGED <<priorityQueue, phase, todo, created, m_playerLimit>>
       /\ phase = "add" /\ addSessQueue # << >> /\ addSessQueue' = Tail(addSessQueue)
  BY DEF AddSession_, where
<1>14. /\ s \in New /\ s \in Sessions
       /\ addSessQueue' \in Seq(Sessions) /\ Distinct(addSessQueue') /\ New' = New \ {s}
  <2>1. addSessQueue \in Seq(Sessions) /\ Distinct(addSessQueue) /\ addSessQueue # << >>
    BY <1>13, Typed
  <2>2. /\ s \in Range(addSessQueue) /\ s \in Sessions
        /\ Tail(addSessQueue) \in Seq(Sessions) /\ Distinct(Tail(addSessQueue))
        /\ Range(Tail(addSessQueue)) = Range(addSessQueue) \ {s}
    BY <1>1, <2>1 DEF Facts, TailFact
  <2> QED
    BY <1>13, <2>2 DEF New
<1>15. /\ alive \subseteq Sessions /\ InTable \subseteq alive /\ New \subseteq alive /\ W \subseteq InTable
       /\ 0 \notin Sessions /\ s \in alive /\ s \notin InTable /\ a \in Accounts /\ s # Null
       /\ s \notin m_disconnectedSessions
  <2>1. alive \subseteq Sessions /\ InTable \subseteq alive /\ New \subseteq alive /\ W \subseteq InTable /\ 0 \notin Sessions
    BY Tables, Counts
  <2>2. s \notin InTable /\ s \notin m_disconnectedSessions
    BY <1>14, Typed
  <2>3. a \in Accounts
    BY <1>2, <1>14, Tables
  <2> QED
    BY <1>14, <2>1, <2>2, <2>3 DEF Null
<1>16. PICK acc, del, kept, G : acc = rep.accepted /\ del = rep.deleted /\ kept = rep.kept /\ G = Gone(s)
  OBVIOUS
<1>17. /\ G \subseteq InTable /\ del \cup kept = G /\ del \cap kept = {} /\ kept \cap W = {}
       /\ QueuesOK(priorityQueue, rep.queue, rep.priority)
       /\ acc \subseteq W \ G
       /\ Held(rep.queue, rep.priority) = W \ (G \cup acc)
       /\ \A r \in Regions : Of(rep.priority[r]) \subseteq Of(m_priorityQueue[r])
       /\ acc # {} => Cardinality((InTable \ G) \ (W \ acc)) <= PlayerHardLimit
  <2>1. stays => m_sessions[sess[s].acct] # Null /\ sess[m_sessions[sess[s].acct]].state = "playing"
    BY <1>2, <1>9
  <2>2. Replacing(rep, G)
    BY <1>4, <1>14, <1>16, <2>1, ReplacedEffect
  <2> QED
    BY <1>16, <2>2, Zenon DEF Replacing
<1>18. /\ InTable' = (InTable \ G) \cup {s}
       /\ m_sessions' \in [Accounts -> 0 .. MaxSessions]
       /\ \A b \in Accounts : m_sessions'[b] = IF b = a THEN s ELSE m_sessions[b]
  <2>1. /\ InTable' = (InTable \ {m_sessions[a]}) \cup {s}
        /\ m_sessions' \in [Accounts -> 0 .. MaxSessions]
        /\ \A b \in Accounts : m_sessions'[b] = IF b = a THEN s ELSE m_sessions[b]
    BY <1>9, <1>14, <1>15, TableWith, Zenon
  <2>2. InTable \ {m_sessions[a]} = InTable \ G
    BY <1>2, <1>15, <1>16 DEF Gone, Null
  <2> QED
    BY <2>1, <2>2
<1>19. PICK In, J : In = acc \cup (IF waits THEN {} ELSE {s}) /\ J = {s}
  BY Zenon
<1>20. /\ J \subseteq New /\ In \subseteq W \cup J /\ del \subseteq alive \ (In \cup J)
       /\ s \notin acc \cup del \cup kept /\ J \subseteq InTable' /\ New' \subseteq New \ (J \cup del)
  <2>1. s \notin acc \cup del \cup kept
    BY <1>15, <1>17
  <2>2. New \cap InTable = {}
    BY Typed
  <2> QED
    BY <1>14, <1>15, <1>17, <1>18, <1>19, <2>1, <2>2
<1>21. logged' = [r \in Regions |-> Cardinality(After(r, In, del))]
  <2>1. logged' = CountedWith(s, waits, acc, del)
    BY <1>2, <1>10, <1>16, Zenon DEF RegionOf, CountedWith
  <2>2. acc \subseteq W /\ del \subseteq alive \ (acc \cup {s})
    BY <1>17, <1>19, <1>20
  <2>3. CountedWith(s, waits, acc, del) = Populations(In, del)
    BY <1>14, <1>19, <2>2, JoinedCount
  <2> QED
    BY <2>1, <2>3, Zenon DEF Populations
<1>22. PICK e : e = [prio |-> Priority(a), s |-> s]
  BY Zenon
<1>23. e \in Entries /\ e.s = s
  BY <1>14, <1>15, <1>22, PriorityRange DEF Entries
<1>24. PICK q1, p1 : q1 = m_QueuedSessions' /\ p1 = m_priorityQueue'
  OBVIOUS
<1>25. PICK r \in Regions : r = Region[a] /\ r = RegionOf(s)
  BY <1>2, <1>14, Tables DEF RegionOf
<1>26. HasJoined(priorityQueue, rep.queue, rep.priority, q1, p1, r, e, waits)
  <2>1. Joined(priorityQueue, rep.queue, rep.priority, q1, p1, r, e, waits)
    <3>1. q1 = IF waits /\ ~priorityQueue THEN Append(rep.queue, e.s) ELSE rep.queue
      BY <1>11, <1>23, <1>24, Zenon DEF Queued
    <3>2. p1 = IF waits /\ priorityQueue THEN Put(rep.priority, r, e) ELSE rep.priority
      BY <1>2, <1>11, <1>22, <1>24, <1>25, Zenon DEF Queued, Put
    <3> QED
      BY <3>1, <3>2, Zenon DEF Joined
  <2>2. priorityQueue \in BOOLEAN
    BY Counts
  <2>3. QueuesOK(priorityQueue, rep.queue, rep.priority) /\ e.s \notin Held(rep.queue, rep.priority)
    BY <1>15, <1>17, <1>23
  <2> QED
    BY <1>23, <2>1, <2>2, <2>3, JoinedHeld
<1>27. QueuesOK(priorityQueue, m_QueuedSessions', m_priorityQueue')
  BY <1>24, <1>26, Zenon DEF HasJoined
<1>28. W' = (W \ (G \cup acc)) \cup (IF waits THEN {s} ELSE {})
  <2>1. Held(q1, p1) = Held(rep.queue, rep.priority) \cup (IF waits THEN {s} ELSE {})
    BY <1>23, <1>26, Zenon DEF HasJoined
  <2>2. W' = Held(q1, p1)
    BY <1>24, Zenon DEF W
  <2> QED
    BY <1>17, <2>1, <2>2, Zenon
<1>29. W' = ((W \ In) \cap InTable') \cup (J \ In)
  BY <1>15, <1>17, <1>18, <1>19, <1>28
<1>30. \A t \in Regions : \A x \in Of(m_priorityQueue'[t]) :
          x \in Of(m_priorityQueue[t]) \/ (x \in J /\ RegionOf(x) = t)
  <2>1. ASSUME NEW t \in Regions, NEW x \in Of(p1[t])
        PROVE  x \in Of(m_priorityQueue[t]) \/ (x \in J /\ RegionOf(x) = t)
    <3>1. x \in Of(rep.priority[t]) \/ (x = s /\ t = r)
      BY <1>23, <1>26, <2>1 DEF HasJoined
    <3>2. CASE x \in Of(rep.priority[t])
      BY <1>17, <3>2
    <3>3. CASE x = s /\ t = r
      BY <1>19, <1>25, <3>3
    <3> QED
      BY <3>1, <3>2, <3>3
  <2> QED
    BY <1>24, <2>1, Zenon
<1>31. HasFields(sess', s, waits, how, acc, del, kept)
  <2>1. PICK f : f = sess'
    OBVIOUS
  <2>2. f = [Fields(acc, del, kept) EXCEPT ![s] =
               IF waits THEN [@ EXCEPT !.inQueue = TRUE, !.hadQueue = TRUE] ELSE [@ EXCEPT !.passed = how]]
    BY <1>12, <1>16, <2>1, Zenon
  <2>3. s \notin acc \cup del \cup kept /\ how \in {"room", "skipped"}
    BY <1>8, <1>20
  <2>4. HasFields(f, s, waits, how, acc, del, kept)
    BY <1>14, <2>2, <2>3, JoinedFields
  <2> QED
    BY <2>1, <2>4, Zenon
<1>32. alive' = alive \ del /\ m_disconnectedSessions' = m_disconnectedSessions \cup kept
  BY <1>9, <1>16, Zenon
<1>33. InTable' \subseteq alive' /\ alive' \subseteq Sessions /\ \A x \in alive' : x \notin del
  BY <1>15, <1>17, <1>18, <1>20, <1>32
<1>34. \A x \in acc : /\ sess'[x].passed = "room" /\ ~sess'[x].inQueue /\ sess'[x].acct = sess[x].acct
                      /\ x \in InTable \ G
  <2>1. ASSUME NEW x \in acc
        PROVE  /\ sess'[x].passed = "room" /\ ~sess'[x].inQueue /\ sess'[x].acct = sess[x].acct
               /\ x \in InTable \ G
    <3>1. x \in Sessions /\ x # s /\ x \in InTable \ G
      BY <1>15, <1>17
    <3>2. sess'[x] = Admit(sess[x])
      BY <1>31, <3>1 DEF HasFields
    <3>3. sess[x] \in SessionRec
      BY <3>1, Tables
    <3> QED
      BY <3>1, <3>2, <3>3, Admitted
  <2> QED
    BY <2>1
<1>35. sess' \in [Sessions -> SessionRec]
  BY <1>31 DEF HasFields
<1>36. \A x \in alive' : sess'[x].acct = sess[x].acct
  <2>1. ASSUME NEW x \in alive' PROVE sess'[x].acct = sess[x].acct
    <3>1. x \in Sessions /\ x \notin del
      BY <1>33
    <3>2. CASE x = s
      BY <1>31, <3>2 DEF HasFields
    <3>3. CASE x \in acc
      BY <1>34, <3>3
    <3>4. CASE x # s /\ x \notin acc
      BY <1>31, <3>1, <3>4 DEF HasFields
    <3> QED
      BY <3>2, <3>3, <3>4
  <2> QED
    BY <2>1
<1>37. \A x \in alive' : x \notin In => sess'[x].passed = sess[x].passed
  <2>1. ASSUME NEW x \in alive', x \notin In PROVE sess'[x].passed = sess[x].passed
    <3>1. x \in Sessions /\ x \notin del /\ x \notin acc
      BY <1>19, <1>33, <2>1
    <3>2. CASE x = s
      <4>1. waits
        BY <1>19, <2>1, <3>2
      <4>2. sess[s].passed = "no"
        BY <1>14 DEF IndInv, QueueInv, WaitingInv
      <4> QED
        BY <1>31, <3>2, <4>1, <4>2 DEF HasFields
    <3>3. CASE x # s
      BY <1>31, <3>1, <3>3 DEF HasFields
    <3> QED
      BY <3>2, <3>3
  <2> QED
    BY <2>1
<1>38. /\ \A x \in In : sess'[x].passed # "no" /\ ~sess'[x].inQueue
       /\ \A x \in J : sess'[x].state = sess[x].state /\ (x \notin In => sess'[x].inQueue)
  <2>1. /\ sess'[s].state = sess[s].state /\ (sess'[s].inQueue <=> waits)
        /\ ~waits => sess'[s].passed # "no"
    BY <1>8, <1>31 DEF HasFields
  <2> QED
    BY <1>19, <1>34, <2>1
<1>39. \A x \in (InTable' \cup New') \ (In \cup J) :
          sess'[x].state = sess[x].state /\ sess'[x].inQueue = sess[x].inQueue
  <2>1. ASSUME NEW x \in (InTable' \cup New') \ (In \cup J) PROVE sess'[x] = sess[x]
    <3>1. New \cap InTable = {}
      BY Typed
    <3>2. x \in Sessions /\ x \notin acc \cup del \cup kept \cup {s}
      BY <1>14, <1>15, <1>17, <1>18, <1>19, <3>1
    <3> QED
      BY <1>31, <3>2 DEF HasFields
  <2> QED
    BY <2>1
<1>40. m_Ipconnections' \in [Addresses -> Nat] /\ AddressesCounted'
  <2>1. PICK c : c = m_Ipconnections'
    OBVIOUS
  <2>2. c = Connected(sess[s].acct)
    BY <1>2, <1>9, <2>1, Zenon
  <2>3. /\ c \in [Addresses -> Nat]
        /\ \A ip \in Addresses :
             c[ip] >= Cardinality((At(ip) \ G) \cup (IF Address[sess[s].acct] = ip THEN {s} ELSE {}))
    BY <1>14, <2>2, JoinedAddress, Zenon
  <2>4. ASSUME NEW ip \in Addresses
        PROVE  At(ip)' = (At(ip) \ G) \cup (IF Address[sess[s].acct] = ip THEN {s} ELSE {})
    <3>1. At(ip)' = {x \in InTable' : Address[sess'[x].acct] = ip}
      BY DEF At
    <3>2. \A x \in InTable' : sess'[x].acct = sess[x].acct
      BY <1>33, <1>36
    <3> QED
      BY <1>15, <1>18, <3>1, <3>2 DEF At
  <2>5. ASSUME NEW ip \in Addresses PROVE m_Ipconnections'[ip] >= Cardinality(At(ip)')
    BY <2>1, <2>3, <2>4, Zenon
  <2>6. m_Ipconnections' \in [Addresses -> Nat]
    BY <2>1, <2>3, Zenon
  <2> QED
    BY <2>5, <2>6 DEF AddressesCounted, At
<1>41. HardLimitSlack'
  <2>1. \A x \in InTable : x \in W => sess[x].passed = "no"
    BY DEF IndInv, QueueInv, WaitingInv
  <2>2. \A x \in Placed' : x # s => x \in InTable \ G /\ (x \in Placed \/ x \in acc)
    <3>1. ASSUME NEW x \in Placed', x # s PROVE x \in InTable \ G /\ (x \in Placed \/ x \in acc)
      <4>1. x \in InTable' /\ sess'[x].passed = "room"
        BY <3>1 DEF Placed
      <4>2. x \in InTable \ G /\ x \in alive'
        BY <1>18, <1>33, <3>1, <4>1
      <4>3. x \notin acc => x \notin In
        BY <1>19, <3>1
      <4> QED
        BY <1>37, <4>1, <4>2, <4>3 DEF Placed
    <3> QED
      BY <3>1
  <2>3. PlayerHardLimit \in Nat /\ LoginPerTick \in Nat
    BY SessionQueueAssumption
  <2>4. PICK m \in Nat : /\ m = PlayerHardLimit + (IF LoginPerTick > 1 THEN LoginPerTick - 1 ELSE 0)
                         /\ PlayerHardLimit <= m
    BY <2>3
  <2>5. CASE s \notin Placed' /\ acc = {}
    <3>1. Placed' \subseteq Placed
      BY <2>2, <2>5
    <3> QED
      BY <3>1, WithinLimit
  <2>6. CASE s \notin Placed' /\ acc # {}
    <3>1. PICK X : X = (InTable \ G) \ (W \ acc)
      BY ZenonT(30)
    <3>2. Placed' \subseteq X
      BY <2>1, <2>2, <2>6, <3>1 DEF Placed
    <3>3. IsFiniteSet(X)
      BY <3>1, Tables DEF Facts, SubsetFact
    <3>4. Cardinality(X) <= PlayerHardLimit /\ Cardinality(X) \in Nat
      BY <1>17, <2>6, <3>1, <3>3 DEF Facts, SizeFact
    <3>5. Cardinality(X) <= m
      BY <2>3, <2>4, <3>4
    <3> QED
      BY <2>4, <3>2, <3>3, <3>5, WithinLimit
  <2>7. CASE s \in Placed'
    <3>1. ~full /\ ~waits
      <4>1. sess'[s].passed = "room"
        BY <2>7 DEF Placed
      <4>2. ~waits /\ how = "room"
        BY <1>31, <4>1 DEF HasFields
      <4> QED
        BY <1>8, <4>2
    <3>2. PICK H : H = Held(rep.queue, rep.priority)
      OBVIOUS
    <3>3. H = W \ (G \cup acc)
      BY <1>17, <3>2, Zenon
    <3>4. PICK T : T = (InTable \ (rep.deleted \cup rep.kept)) \cup {s}
      BY ZenonT(30)
    <3>5. T = (InTable \ G) \cup {s}
      BY <1>16, <1>17, <3>4
    <3>6. H \subseteq T /\ Placed' \subseteq T \ H
      <4>1. H \subseteq T
        BY <1>15, <3>3, <3>5
      <4>2. s \notin H
        BY <1>15, <3>3
      <4> QED
        BY <2>1, <2>2, <3>3, <3>5, <4>1, <4>2 DEF Placed
    <3>7. PICK pops : pops = Counted(rep.accepted, rep.deleted)
      OBVIOUS
    <3>8. ~NoPlace(s, rep, pops)
      BY <1>5, <3>1, <3>7
    <3>9. QueuesOK(priorityQueue, rep.queue, rep.priority)
      BY <1>17
    <3>10. IsFiniteSet(T \ H) /\ Cardinality(T \ H) <= PlayerHardLimit
      BY <1>14, <3>2, <3>4, <3>6, <3>8, <3>9, RoomLeft
    <3>11. Cardinality(T \ H) <= m
      BY <2>3, <2>4, <3>10 DEF Facts, SizeFact
    <3> QED
      BY <2>4, <3>6, <3>10, <3>11, WithinLimit
  <2> QED
    BY <2>5, <2>6, <2>7
<1>42. m_accountsLastLogout' \subseteq Accounts
  <2>1. kept \subseteq Sessions
    BY <1>15, <1>17
  <2>2. LoggedOut(kept) \subseteq Accounts
    BY <2>1, Tables DEF LoggedOut
  <2> QED
    BY <1>6, <1>9, <1>16, <2>2, Typed
<1>43. /\ m_disconnectedSessions' \subseteq alive' \ InTable' /\ m_disconnectedSessions' \cap New' = {}
       /\ phase' \in {"accept", "add", "update"} /\ todo' \subseteq InTable' /\ (phase' # "update" => todo' = {})
       /\ m_playerLimit' \in Nat
  BY <1>13, <1>14, <1>15, <1>17, <1>18, <1>32, Typed
<1>44. \A b \in Accounts : m_sessions'[b] # Null =>
          m_sessions'[b] = m_sessions[b] \/ (m_sessions'[b] \in J /\ sess[m_sessions'[b]].acct = b)
  BY <1>2, <1>18, <1>19
<1>45. Changes(J, In, del)
  BY <1>13, <1>14, <1>18, <1>20, <1>21, <1>27, <1>29, <1>30, <1>32, <1>33, <1>35, <1>36, <1>37, <1>38,
     <1>39, <1>40, <1>41, <1>42, <1>43, <1>44 DEF Changes
<1> QED
  BY <1>45, Change

\* Every step keeps the inductive invariant.
LEMMA NextInv == ASSUME Facts PROVE IndInv /\ [Next]_vars => IndInv'
<1> SUFFICES ASSUME IndInv, [Next]_vars PROVE IndInv'
  OBVIOUS
<1>1. CASE Accept
  BY <1>1, AcceptStep
<1>2. CASE AddSessionRefused
  BY <1>2, AddSessionRefusedStep
<1>3. CASE AddSession_
  BY <1>3, AddSession_Step
<1>4. CASE AddedAll
  BY <1>4, AddedAllStep
<1>5. CASE \E s \in Sessions : UpdateSession(s)
  BY <1>5, UpdateSessionStep
<1>6. CASE \E s \in Sessions : UpdateLosesSocket(s)
  BY <1>6, UpdateLosesSocketStep
<1>7. CASE \E s \in Sessions : RemoveSession(s)
  BY <1>7, RemoveSessionStep
<1>8. CASE UpdateDisconnected
  BY <1>8, UpdateDisconnectedStep
<1>9. CASE \E a \in Accounts : AddSession(a)
  BY <1>9, AddSessionStep
<1>10. CASE \E a \in Accounts : GraceEnds(a)
  BY <1>10, GraceEndsStep
<1>11. CASE \E s \in Sessions : CloseSocket(s)
  BY <1>11, CloseSocketStep
<1>12. CASE \E s \in Sessions : LoginAnswered(s)
  BY <1>12, LoginAnsweredStep
<1>13. CASE UNCHANGED vars
  <2>1. /\ UNCHANGED <<priorityQueue, created, alive, tables, queues, m_Ipconnections>>
        /\ phase' = phase /\ todo' = todo /\ m_accountsLastLogout' = m_accountsLastLogout /\ sess' = sess
    BY <1>13 DEF vars, where, objects, tables, queues, memory
  <2> QED
    BY <2>1, Typed, Neutral
<1> QED
  BY <1>1, <1>2, <1>3, <1>4, <1>5, <1>6, <1>7, <1>8, <1>9, <1>10, <1>11, <1>12, <1>13 DEF Next, WorldStep

============================================================================
