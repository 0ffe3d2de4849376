---------------------------- MODULE SessionQueue ----------------------------
(***************************************************************************)
(* The login queues of World: which of the sessions in m_sessions may go   *)
(* on to the character screen and which wait, in one list or, with         *)
(* PriorityQueue.Enable, in a list per region ordered by priority.         *)
(*                                                                         *)
(* The world thread runs World::UpdateSessions; `phase' is where it is.    *)
(* Network threads add sessions and close sockets at any time.  How a      *)
(* session plays is module PlayerLogin's: here it is on the character      *)
(* screen, loading a character or playing one.                             *)
(***************************************************************************)
EXTENDS Integers, Sequences, FiniteSets, FiniteSetsExt, Functions

CONSTANTS
    Accounts,
    Region,             \* 1 for the accounts of a zhCN client, else 0
    Address,            \* the IP address of each account
    BasePriority,       \* GetBasePriority() of each account
    MaxPriority,        \* no account has a higher one
    Skipping,           \* accounts above SEC_PLAYER or with CanQueueSkip()
    PriorityModes,      \* the values of PriorityQueue.Enable to consider
    PlayerLimit, PlayerHardLimit, LoginPerTick,
    Percentage,         \* Queue.MaxRegionalPercentage, ...NonRegional...
    PriorityReduction,  \* of the IP penalty; 0 when it is disabled
    MaxSessions         \* bound: sessions ever created

Regions == {0, 1}

ASSUME SessionQueueAssumption ==
    /\ Accounts # {} /\ Region \in [Accounts -> Regions]
    /\ MaxPriority \in Nat /\ BasePriority \in [Accounts -> 0..MaxPriority]
    /\ Skipping \subseteq Accounts
    /\ PriorityModes \subseteq BOOLEAN
    /\ {PlayerLimit, PlayerHardLimit, LoginPerTick, PriorityReduction, MaxSessions} \subseteq Nat
    /\ Percentage \in [Regions -> Nat]

Null      == 0
Sessions  == 1..MaxSessions
Addresses == {Address[a] : a \in Accounts}
Entries   == [prio : 0..MaxPriority, s : Sessions]

VARIABLES
    priorityQueue,  \* PriorityQueue.Enable
    phase, todo,    \* the step of UpdateSessions, the sessions its loop has to visit
    created, alive, sess,
    addSessQueue, m_sessions, m_disconnectedSessions,
    m_QueuedSessions,           \* the queue of the default mode
    m_priorityQueue,            \* region -> queue of (priority, session)
    logged,                     \* loggedRegionSessions, loggedNonRegionSessions
    m_playerLimit,
    m_accountsLastLogout,       \* accounts whose grace period lasts
    m_Ipconnections             \* address -> sessions

where   == <<priorityQueue, phase, todo>>
objects == <<created, alive, sess>>
tables  == <<addSessQueue, m_sessions, m_disconnectedSessions>>
queues  == <<m_QueuedSessions, m_priorityQueue, logged, m_playerLimit>>
memory  == <<m_accountsLastLogout, m_Ipconnections>>
vars    == <<where, objects, tables, queues, memory>>

\* passed: m_PassedQueue, and whether a place was free or the account skips.
SessionRec ==
    [acct : Accounts, open : BOOLEAN, state : {"screen", "loading", "playing"},
     inQueue : BOOLEAN, hadQueue : BOOLEAN, passed : {"no", "room", "skipped"}]
NewSession(a) ==
    [acct |-> a, open |-> TRUE, state |-> "screen",
     inQueue |-> FALSE, hadQueue |-> FALSE, passed |-> "no"]
Blank == NewSession(CHOOSE a \in Accounts : TRUE)

TypeOK ==
    /\ priorityQueue \in PriorityModes
    /\ phase \in {"accept", "add", "update"}
    /\ todo \subseteq Sessions
    /\ created \in 0..MaxSessions
    /\ alive \subseteq 1..created
    /\ sess \in [Sessions -> SessionRec]
    /\ addSessQueue \in Seq(Sessions)
    /\ m_sessions \in [Accounts -> 0..MaxSessions]
    /\ m_disconnectedSessions \subseteq Sessions
    /\ m_QueuedSessions \in Seq(Sessions)
    /\ m_priorityQueue \in [Regions -> Seq(Entries)]
    /\ logged \in [Regions -> Nat]
    /\ m_playerLimit \in Nat
    /\ m_accountsLastLogout \subseteq Accounts
    /\ m_Ipconnections \in [Addresses -> Nat]

Init ==
    /\ priorityQueue \in PriorityModes
    /\ phase = "accept"
    /\ todo = {}
    /\ created = 0
    /\ alive = {}
    /\ sess = [s \in Sessions |-> Blank]
    /\ addSessQueue = <<>>
    /\ m_sessions = [a \in Accounts |-> Null]
    /\ m_disconnectedSessions = {}
    /\ m_QueuedSessions = <<>>
    /\ m_priorityQueue = [r \in Regions |-> <<>>]
    /\ logged = [r \in Regions |-> 0]
    /\ m_playerLimit = PlayerLimit
    /\ m_accountsLastLogout = {}
    /\ m_Ipconnections = [ip \in Addresses |-> 0]

(***************************************************************************)
(* Counts.                                                                 *)
(***************************************************************************)
RegionOf(s) == Region[sess[s].acct]
MaxPop(r)   == (PlayerHardLimit * Percentage[r]) \div 100

InTable == {m_sessions[a] : a \in Accounts} \ {Null}
QueuedSessionCount ==
    IF priorityQueue THEN Len(m_priorityQueue[0]) + Len(m_priorityQueue[1])
    ELSE Len(m_QueuedSessions)
ActiveSessionCount == Cardinality(InTable) - QueuedSessionCount

\* Mutant of Counted: the destructor does not ask for m_PassedQueue.
CountedAll(In, Out) ==
    [r \in Regions |->
        logged[r] + Cardinality({s \in In : RegionOf(s) = r})
                  - Cardinality({s \in Out : RegionOf(s) = r})]

\* Mutant of Counted: the destructor does not count.
CountedIn(In, Out) ==
    [r \in Regions |-> logged[r] + Cardinality({s \in In : RegionOf(s) = r})]

\* OnPassedQueue of the sessions In, the destructor of the sessions Out.
Counted(In, Out) ==
    [r \in Regions |->
        logged[r] + Cardinality({s \in In : RegionOf(s) = r})
                  - Cardinality({s \in Out : RegionOf(s) = r /\ sess[s].passed # "no"})]

(***************************************************************************)
(* Sessions come and go.                                                   *)
(***************************************************************************)
\* A network thread has authenticated a client: World::AddSession.
AddSession(a) ==
    /\ created < MaxSessions
    /\ created' = created + 1
    /\ alive' = alive \cup {created'}
    /\ sess' = [sess EXCEPT ![created'] = NewSession(a)]
    /\ addSessQueue' = Append(addSessQueue, created')
    /\ UNCHANGED <<where, m_sessions, m_disconnectedSessions, queues, memory>>

CloseSocket(s) ==
    /\ s \in alive
    /\ sess[s].open
    /\ sess' = [sess EXCEPT ![s].open = FALSE]
    /\ UNCHANGED <<where, created, alive, tables, queues, memory>>

(***************************************************************************)
(* The top of UpdateSessions: waiting sessions are accepted.  Both regions *)
(* use the populations read before the first of them.                      *)
(***************************************************************************)
\* The region has waiting sessions and is below its share.
Accepting(r) == logged[r] < MaxPop(r) /\ m_priorityQueue[r] # <<>> /\ LoginPerTick > 0

RaisedLimit(limit) == Min({limit, logged[0] + logged[1]}) + LoginPerTick
Full(limit, active) == RaisedLimit(limit) > PlayerHardLimit \/ PlayerHardLimit <= active

\* m_playerLimit after the block of region r.
LimitAfter(r, limit, active) ==
    IF ~Accepting(r) THEN limit
    ELSE IF Full(limit, active) THEN PlayerHardLimit ELSE RaisedLimit(limit)

\* Mutant of AcceptNow: the sessions that are active are not looked at.
AcceptNowByLimit(r, limit, active) ==
    IF Accepting(r) /\ RaisedLimit(limit) <= PlayerHardLimit
    THEN Min({LoginPerTick, Len(m_priorityQueue[r])}) ELSE 0

\* Mutant of AcceptNow: the last place is kept.
AcceptNowButOne(r, limit, active) ==
    IF Accepting(r) /\ ~Full(limit, active + 1)
    THEN Min({LoginPerTick, Len(m_priorityQueue[r])}) ELSE 0

\* How many sessions the block of region r accepts.
AcceptNow(r, limit, active) ==
    IF Accepting(r) /\ ~Full(limit, active)
    THEN Min({LoginPerTick, Len(m_priorityQueue[r])}) ELSE 0

\* Those that stay gain priority.  Only the comparison with a newcomer
\* matters, so MaxPriority stands for everything above it.
Older(q) == [i \in DOMAIN q |-> [q[i] EXCEPT !.prio = Min({@ + 1, MaxPriority})]]

\* SetInQueue(false) and SendAuthWaitQue(0), which calls OnPassedQueue.
Admit(rec) == [rec EXCEPT !.inQueue = FALSE, !.passed = "room"]

Accept ==
    /\ phase = "accept"
    /\ phase' = "add"
    /\ LET limit0 == IF PlayerHardLimit > 0 THEN Min({PlayerHardLimit, m_playerLimit})
                     ELSE m_playerLimit
           n0     == AcceptNow(0, limit0, ActiveSessionCount)
           limit1 == LimitAfter(0, limit0, ActiveSessionCount)
           n1     == AcceptNow(1, limit1, ActiveSessionCount + n0)
           n      == [r \in Regions |-> IF r = 0 THEN n0 ELSE n1]
           in     == UNION {{m_priorityQueue[r][i].s : i \in 1..n[r]} : r \in Regions}
       IN  /\ sess' = [s \in Sessions |-> IF s \in in THEN Admit(sess[s]) ELSE sess[s]]
           /\ logged' = Counted(in, {})
           /\ m_priorityQueue' = [r \in Regions |->
                LET q == SubSeq(m_priorityQueue[r], n[r] + 1, Len(m_priorityQueue[r]))
                IN  IF Accepting(r) THEN Older(q) ELSE q]
           /\ m_playerLimit' = LimitAfter(1, limit1, ActiveSessionCount + n0)
    /\ UNCHANGED <<priorityQueue, todo, created, alive, tables, m_QueuedSessions, memory>>

(***************************************************************************)
(* RemoveQueuedSession(s): the queues after it and the session it accepts. *)
(* Only the default mode accepts one; s is still in m_sessions.            *)
(***************************************************************************)
InQueue(s) ==
    IF priorityQueue THEN \E e \in Range(m_priorityQueue[RegionOf(s)]) : e.s = s
    ELSE s \in Range(m_QueuedSessions)

\* Where a loop over q stops that looks for the positions T: end() is Len(q) + 1.
Find(q, T) == Min(T \cup {Len(q) + 1})

\* q without position i, and all of q if i is end().
Erased(q, i) == SubSeq(q, 1, i - 1) \o SubSeq(q, i + 1, Len(q))

\* m_QueuedSessions without session s, and the queue of a region without the
\* entry of session s.
Unqueued(q, s) == Erased(q, Find(q, {i \in DOMAIN q : q[i] = s}))
Without(q, s)  == Erased(q, Find(q, {i \in DOMAIN q : q[i].s = s}))

RemoveQueuedSession(s) ==
    LET sessions == IF InQueue(s) \/ ActiveSessionCount = 0 THEN ActiveSessionCount
                    ELSE ActiveSessionCount - 1
        rest     == Unqueued(m_QueuedSessions, s)
        accept   == /\ ~priorityQueue
                    /\ Cardinality(InTable) - Len(rest) < PlayerHardLimit
                    /\ m_playerLimit = 0 \/ sessions < m_playerLimit
                    /\ rest # <<>>
    IN  [queue    |-> IF accept THEN Tail(rest) ELSE rest,
         priority |-> [m_priorityQueue EXCEPT ![RegionOf(s)] = Without(@, s)],
         accepted |-> IF accept THEN {Head(rest)} ELSE {}]

\* The fields of all sessions once some are accepted, some deleted, and some
\* kicked and kept without their client.
Fields(accepted, deleted, kept) ==
    [x \in Sessions |-> IF x \in accepted THEN Admit(sess[x])
                        ELSE IF x \in deleted THEN Blank
                        ELSE IF x \in kept
                        THEN [sess[x] EXCEPT !.open = FALSE, !.inQueue = @ /\ ~InQueue(x)]
                        ELSE sess[x]]

(***************************************************************************)
(* AddSession_.                                                            *)
(***************************************************************************)
\* The session of the account is loading a character: the new one goes.
AddSessionRefused ==
    /\ phase = "add"
    /\ addSessQueue # <<>>
    /\ LET s == Head(addSessQueue)  old == m_sessions[sess[s].acct]
       IN  /\ old # Null
           /\ sess[old].state = "loading"
           /\ alive' = alive \ {s}
           /\ sess' = [sess EXCEPT ![s] = Blank]
    /\ addSessQueue' = Tail(addSessQueue)
    /\ UNCHANGED <<where, created, m_sessions, m_disconnectedSessions, queues, memory>>

\* What the new session s replaces: nothing, or the session of its account,
\* which leaves its queue and then is deleted or, while its player is in the
\* world, stays (ForcePlayerLogoutDelay, SetSessionDisconnected).
Replaced(s, stays) ==
    LET old == m_sessions[sess[s].acct]
    IN  IF old = Null
        THEN [queue |-> m_QueuedSessions, priority |-> m_priorityQueue, accepted |-> {},
              deleted |-> {}, kept |-> {}]
        ELSE LET rem == RemoveQueuedSession(old)
             IN  [queue |-> rem.queue, priority |-> rem.priority, accepted |-> rem.accepted,
                  deleted |-> IF stays THEN {} ELSE {old},
                  kept |-> IF stays THEN {old} ELSE {}]

\* A session that had to wait may come back without waiting for a while.
LoggedOut(S) == {sess[x].acct : x \in {y \in S : sess[y].hadQueue}}

CanSkipQueue(a, grace) == a \in Skipping \/ a \in grace

\* The IP penalty, with the new session counted already.
Priority(a) ==
    IF m_Ipconnections[Address[a]] + 1 > 1
    THEN Max({0, BasePriority[a] - PriorityReduction})
    ELSE BasePriority[a]

\* Mutant of Connected: an address is counted once.
ConnectedOnce(a) == [m_Ipconnections EXCEPT ![Address[a]] = 1]

Connected(a) == [m_Ipconnections EXCEPT ![Address[a]] = @ + 1]

\* Mutant of Inserted: the new entry goes to the end.
InsertedLast(q, e) == Append(q, e)

\* AddQueuedSession puts e before the first entry of lower priority.
Inserted(q, e) ==
    LET i == Find(q, {j \in DOMAIN q : q[j].prio < e.prio})
    IN  SubSeq(q, 1, i - 1) \o <<e>> \o SubSeq(q, i, Len(q))

\* The queues after s is added to them if it waits.
Queued(rep, s, waits) ==
    LET a == sess[s].acct
    IN  /\ m_QueuedSessions' = IF waits /\ ~priorityQueue THEN Append(rep.queue, s) ELSE rep.queue
        /\ m_priorityQueue' =
             IF waits /\ priorityQueue
             THEN [rep.priority EXCEPT ![Region[a]] = Inserted(@, [prio |-> Priority(a), s |-> s])]
             ELSE rep.priority

\* There is no place for session s, itself counted as active.
NoPlace(s, rep, pops) ==
    LET table   == Cardinality((InTable \ (rep.deleted \cup rep.kept)) \cup {s})
        waiting == IF priorityQueue THEN Len(rep.priority[0]) + Len(rep.priority[1]) ELSE Len(rep.queue)
    IN  pops[RegionOf(s)] >= MaxPop(RegionOf(s)) \/ table - waiting >= PlayerHardLimit

AddSession_ ==
    /\ phase = "add"
    /\ addSessQueue # <<>>
    /\ \E stays \in BOOLEAN :
         LET s     == Head(addSessQueue)
             a     == sess[s].acct
             old   == m_sessions[a]
             rep   == Replaced(s, stays)
             pops  == Counted(rep.accepted, rep.deleted)
             grace == m_accountsLastLogout \cup LoggedOut(rep.kept)
             full  == NoPlace(s, rep, pops)
             waits == full /\ ~CanSkipQueue(a, grace)
         IN  /\ old # Null => sess[old].state # "loading"
             /\ stays => old # Null /\ sess[old].state = "playing"
             /\ m_sessions' = [m_sessions EXCEPT ![a] = s]
             /\ m_disconnectedSessions' = m_disconnectedSessions \cup rep.kept
             /\ alive' = alive \ rep.deleted
             /\ sess' = [Fields(rep.accepted, rep.deleted, rep.kept) EXCEPT ![s] =
                           IF waits THEN [@ EXCEPT !.inQueue = TRUE, !.hadQueue = TRUE]
                           ELSE [@ EXCEPT !.passed = IF full THEN "skipped" ELSE "room"]]
             /\ logged' = IF waits THEN pops ELSE [pops EXCEPT ![Region[a]] = @ + 1]
             /\ Queued(rep, s, waits)
             /\ m_accountsLastLogout' = grace
             /\ m_Ipconnections' = Connected(a)
    /\ addSessQueue' = Tail(addSessQueue)
    /\ UNCHANGED <<where, created, m_playerLimit>>

\* The loop over m_sessions begins.
AddedAll ==
    /\ phase = "add"
    /\ addSessQueue = <<>>
    /\ phase' = "update"
    /\ todo' = InTable
    /\ UNCHANGED <<priorityQueue, objects, tables, queues, memory>>

(***************************************************************************)
(* The loop over m_sessions.                                               *)
(***************************************************************************)
Visiting(s) == phase = "update" /\ s \in todo

\* Update() returns true.  A client that does not wait may log in with a
\* character or log out; a waiting one is refused every packet.
UpdateSession(s) ==
    /\ Visiting(s)
    /\ sess[s].open
    /\ \E next \in {sess[s].state}
             \cup (IF sess[s].inQueue \/ sess[s].state = "loading" THEN {}
                   ELSE IF sess[s].state = "screen" THEN {"loading"} ELSE {"screen"}) :
         sess' = [sess EXCEPT ![s].state = next]
    /\ todo' = todo \ {s}
    /\ UNCHANGED <<priorityQueue, phase, created, alive, tables, queues, memory>>

\* The client is gone and its player is in the world: the session leaves
\* m_sessions inside Update().  The loop may step over another entry.
UpdateLosesSocket(s) ==
    /\ Visiting(s)
    /\ ~sess[s].open
    /\ sess[s].state = "playing"
    /\ m_sessions' = [m_sessions EXCEPT ![sess[s].acct] = Null]
    /\ m_disconnectedSessions' = m_disconnectedSessions \cup {s}
    /\ m_accountsLastLogout' = m_accountsLastLogout \cup LoggedOut({s})
    /\ \E skipped \in {{}} \cup {{t} : t \in todo \ {s}} : todo' = todo \ ({s} \cup skipped)
    /\ UNCHANGED <<priorityQueue, phase, objects, addSessQueue, queues, m_Ipconnections>>

\* Mutant of RemoveSession: the queues are left as they are.
RemoveSessionQueued(s) ==
    /\ Visiting(s)
    /\ ~sess[s].open
    /\ sess' = [sess EXCEPT ![s] = Blank]
    /\ alive' = alive \ {s}
    /\ m_sessions' = [m_sessions EXCEPT ![sess[s].acct] = Null]
    /\ logged' = Counted({}, {s})
    /\ m_Ipconnections' = [m_Ipconnections EXCEPT ![Address[sess[s].acct]] = @ - 1]
    /\ todo' = todo \ {s}
    /\ UNCHANGED <<priorityQueue, phase, created, addSessQueue, m_disconnectedSessions,
                   m_QueuedSessions, m_priorityQueue, m_playerLimit, m_accountsLastLogout>>

\* Update() returns false: the client is gone, or was idle on the character
\* screen for too long.  A player may be between two maps.
RemoveSession(s) ==
    /\ Visiting(s)
    /\ ~sess[s].open \/ (sess[s].state = "screen" /\ ~sess[s].inQueue)
    /\ LET rem == RemoveQueuedSession(s)
       IN  /\ sess' = Fields(rem.accepted, {s}, {})
           /\ m_QueuedSessions' = rem.queue
           /\ m_priorityQueue' = rem.priority
           /\ logged' = Counted(rem.accepted, {s})
           /\ m_accountsLastLogout' = m_accountsLastLogout
                                        \cup (IF InQueue(s) THEN {} ELSE LoggedOut({s}))
    /\ alive' = alive \ {s}
    /\ m_sessions' = [m_sessions EXCEPT ![sess[s].acct] = Null]
    /\ m_Ipconnections' = [m_Ipconnections EXCEPT ![Address[sess[s].acct]] = @ - 1]
    /\ todo' = todo \ {s}
    /\ UNCHANGED <<priorityQueue, phase, created, addSessQueue, m_disconnectedSessions,
                   m_playerLimit>>

\* The loop over m_disconnectedSessions, and the end of UpdateSessions.
UpdateDisconnected ==
    /\ phase = "update"
    /\ todo = {}
    /\ phase' = "accept"
    /\ \E expired \in SUBSET m_disconnectedSessions :
         /\ m_disconnectedSessions' = m_disconnectedSessions \ expired
         /\ alive' = alive \ expired
         /\ sess' = Fields({}, expired, {})
         /\ logged' = Counted({}, expired)
    /\ UNCHANGED <<priorityQueue, todo, created, addSessQueue, m_sessions, m_QueuedSessions,
                   m_priorityQueue, m_playerLimit, memory>>

\* The callback of a login query: the character enters the world, or cannot
\* be loaded and the client is kicked.
LoginAnswered(s) ==
    /\ phase = "accept"
    /\ s \in InTable
    /\ sess[s].state = "loading"
    /\ \/ sess' = [sess EXCEPT ![s].state = "playing"]
       \/ sess' = [sess EXCEPT ![s].state = "screen", ![s].open = FALSE]
    /\ UNCHANGED <<where, created, alive, tables, queues, memory>>

GraceEnds(a) ==
    /\ a \in m_accountsLastLogout
    /\ m_accountsLastLogout' = m_accountsLastLogout \ {a}
    /\ UNCHANGED <<where, objects, tables, queues, m_Ipconnections>>

WorldStep ==
    \/ Accept
    \/ AddSessionRefused
    \/ AddSession_
    \/ AddedAll
    \/ \E s \in Sessions : UpdateSession(s) \/ UpdateLosesSocket(s) \/ RemoveSession(s)
    \/ UpdateDisconnected

Next ==
    \/ WorldStep
    \/ \E a \in Accounts : AddSession(a) \/ GraceEnds(a)
    \/ \E s \in Sessions : CloseSocket(s) \/ LoginAnswered(s)

Spec == Init /\ [][Next]_vars

\* The world thread ticks on.  Nobody has to connect, to leave or to play.
LiveSpec == Spec /\ WF_vars(WorldStep)

(***************************************************************************)
(* Properties.                                                             *)
(***************************************************************************)
Waiting ==
    {s \in Sessions :
        IF priorityQueue THEN \E r \in Regions : \E e \in Range(m_priorityQueue[r]) : e.s = s
        ELSE s \in Range(m_QueuedSessions)}

\* The two counters that decide who waits are the numbers of existing
\* sessions that have passed the queue: OnPassedQueue and the destructor
\* balance, however a session leaves.
CountersMatch ==
    \A r \in Regions : logged[r] = Cardinality({s \in alive : sess[s].passed # "no" /\ RegionOf(s) = r})

\* No queue holds a session that was deleted or replaced, or holds one
\* twice; a session of m_sessions waits or has passed, and m_inQueue tells
\* which.  (RemoveQueuedSession is called on every way out of m_sessions that
\* a waiting session can take.)
QueueHoldsTheWaiting ==
    /\ Waiting \subseteq InTable
    /\ QueuedSessionCount = Cardinality(Waiting)
    /\ \A s \in InTable : /\ sess[s].inQueue <=> s \in Waiting
                          /\ sess[s].passed = "no" <=> s \in Waiting
    /\ \A r \in Regions : \A e \in Range(m_priorityQueue[r]) : RegionOf(e.s) = r

\* The first of a priority queue has the highest priority, whatever came,
\* left and aged meanwhile.
QueueSorted ==
    \A r \in Regions : \A i, j \in DOMAIN m_priorityQueue[r] :
        i < j => m_priorityQueue[r][i].prio >= m_priorityQueue[r][j].prio

\* Sessions that got a place, and not by skipping the queue, exceed
\* PlayerHardLimit by less than LoginPerTick: the second region of a tick
\* accepts up to LoginPerTick sessions when one place is left.
HardLimitSlack ==
    Cardinality({s \in InTable : sess[s].passed = "room"})
        <= PlayerHardLimit + (IF LoginPerTick > 1 THEN LoginPerTick - 1 ELSE 0)

\* m_Ipconnections never counts fewer sessions of an address than there are
\* (it may count more: a session that is replaced or that stays without its
\* client is not counted down).
AddressesCounted ==
    \A ip \in Addresses :
        m_Ipconnections[ip] >= Cardinality({s \in InTable : Address[sess[s].acct] = ip})

\* There are LoginPerTick places, and one in the region of s.
FreePlaces(s) ==
    /\ logged[RegionOf(s)] < MaxPop(RegionOf(s))
    /\ logged[0] + logged[1] + LoginPerTick <= PlayerHardLimit
    /\ ActiveSessionCount < PlayerHardLimit

\* With the priority queue no session waits for ever while there are places
\* for it: the ticks accept it.  (In the default mode no tick does: the code
\* is commented out, and only a session that leaves lets another one in.)
PlacesAreGiven ==
    \A s \in Sessions : []<>(priorityQueue => s \notin Waiting \/ ~FreePlaces(s))
====
