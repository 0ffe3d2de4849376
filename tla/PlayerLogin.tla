---------------------------- MODULE PlayerLogin ----------------------------
(***************************************************************************)
(* Sessions and the login of characters: the session table of World, the   *)
(* query holder of a login and its callback (CharacterHandler.cpp), the    *)
(* sessions that stay for a while after their client is gone, and the      *)
(* sessions without a client (HeadlessSessionMgr).                         *)
(*                                                                         *)
(* One thread, the world thread, does all of it; `phase' is where it is in *)
(* World::Update.  Network threads close sockets and hand over new         *)
(* sessions at any time.  The database answers a login request later, and  *)
(* between the request and the answer everything may have changed.         *)
(*                                                                         *)
(* The character database is used in its abstract form: operations with    *)
(* the same serial id take effect in the order in which they were queued   *)
(* (module Database).  Saves and login queries of a character have its     *)
(* guid as serial id, so a login query reads what was queued last.         *)
(***************************************************************************)
EXTENDS Naturals, Sequences, FiniteSets, Functions

CONSTANTS
    Accounts,
    Chars,
    AccountOf,      \* the account of each character
    NoChar,         \* the null guid
    MaxSessions,    \* bound: sessions ever created
    MaxRequests,    \* bound: login requests ever made
    MaxVer          \* bound: changes to the state of a character

ASSUME PlayerLoginAssumption ==
    /\ AccountOf \in [Chars -> Accounts]
    /\ NoChar \notin Chars
    /\ {MaxSessions, MaxRequests, MaxVer} \subseteq Nat

Null     == 0                       \* the null pointer to a session
Sessions == 1..MaxSessions
Pointer  == 0..MaxSessions
Transports == {"Network", "Headless"}

VARIABLES
    phase,          \* where the world thread is in its tick
    stopped,        \* World::m_stopEvent
    closing,        \* World::Shutdown has been called
    todo,           \* sessions that the loop of UpdateSessions still has to visit
    created,        \* number of sessions created so far
    alive,          \* the sessions that exist
    sess,           \* their fields
    addSessQueue,   \* new sessions, handed over by the network
    m_sessions,     \* account -> session
    m_disconnectedSessions,
    hActive,        \* HeadlessSessionMgr::m_sessions: character -> session
    hPending,       \* HeadlessSessionMgr::m_pendingSessions
    tokens,         \* the two counters of request tokens
    inFlight,       \* login queries whose callback has not run, per character
    players,        \* the Player object of each character
    masters,        \* its MasterPlayer object
    saved           \* state of each character in the database

tick       == <<phase, stopped, closing, todo>>
objects    == <<created, alive, sess>>
network    == <<addSessQueue, m_sessions, m_disconnectedSessions>>
headless   == <<hActive, hPending>>
requests   == <<tokens, inFlight>>
characters == <<players, masters, saved>>
vars       == <<tick, objects, network, headless, requests, characters>>

CharOrNone == Chars \cup {NoChar}

\* A session: its account, how it is attached, its socket, the character
\* it plays (_player, m_masterPlayer), and its login request.
SessionRec ==
    [acct : Accounts, transport : Transports, socket : {"open", "closed", "none"},
     player : CharOrNone, master : CharOrNone,
     loading : BOOLEAN, guid : CharOrNone, token : 0..MaxRequests]

NewSession(a, t) ==
    [acct |-> a, transport |-> t,
     socket |-> IF t = "Network" THEN "open" ELSE "none",
     player |-> NoChar, master |-> NoChar,
     loading |-> FALSE, guid |-> NoChar, token |-> 0]

\* The fields of a session that does not exist.
Blank == NewSession(CHOOSE a \in Accounts : TRUE, "Network")

\* A Player: whether there is one, GetSession(), IsInWorld(), its state.
PlayerRec == [exists : BOOLEAN, session : Pointer, inWorld : BOOLEAN, ver : 0..MaxVer]
NoPlayer  == [exists |-> FALSE, session |-> Null, inWorld |-> FALSE, ver |-> 0]

MasterRec == [exists : BOOLEAN, session : Pointer]
NoMaster  == [exists |-> FALSE, session |-> Null]

\* LoginQueryHolder, with the state of the character that its queries read.
Holder == [guid : Chars, acct : Accounts, transport : Transports,
           token : 1..MaxRequests, ver : 0..MaxVer]

TypeOK ==
    /\ phase \in {"add", "sessions", "headless", "rest", "down", "off"}
    /\ stopped \in BOOLEAN
    /\ closing \in BOOLEAN
    /\ todo \subseteq Sessions
    /\ created \in 0..MaxSessions
    /\ alive \subseteq 1..created
    /\ sess \in [Sessions -> SessionRec]
    /\ addSessQueue \in Seq(Sessions)
    /\ m_sessions \in [Accounts -> Pointer]
    /\ m_disconnectedSessions \subseteq Sessions
    /\ hActive \in [Chars -> Pointer]
    /\ hPending \in [Chars -> Pointer]
    /\ tokens \in [Transports -> 0..MaxRequests]
    /\ inFlight \in [Chars -> Seq(Holder)]
    /\ players \in [Chars -> PlayerRec]
    /\ masters \in [Chars -> MasterRec]
    /\ saved \in [Chars -> 0..MaxVer]

Init ==
    /\ phase = "add"
    /\ stopped = FALSE
    /\ closing = FALSE
    /\ todo = {}
    /\ created = 0
    /\ alive = {}
    /\ sess = [s \in Sessions |-> Blank]
    /\ addSessQueue = <<>>
    /\ m_sessions = [a \in Accounts |-> Null]
    /\ m_disconnectedSessions = {}
    /\ hActive = [c \in Chars |-> Null]
    /\ hPending = [c \in Chars |-> Null]
    /\ tokens = [t \in Transports |-> 0]
    /\ inFlight = [c \in Chars |-> <<>>]
    /\ players = [c \in Chars |-> NoPlayer]
    /\ masters = [c \in Chars |-> NoMaster]
    /\ saved = [c \in Chars |-> 0]

(***************************************************************************)
(* What several handlers do.                                               *)
(***************************************************************************)
Playing(S) == {sess[s].player : s \in S} \ {NoChar}

\* WorldSession::KickPlayer: only closes the socket.
Kicked(r) == IF r.socket = "open" THEN [r EXCEPT !.socket = "closed"] ELSE r

\* LogoutPlayer(save) of the sessions S: a far teleport is finished first,
\* so the player is in the world and is saved if the caller wants it.
LogoutPlayers(S, save) ==
    /\ players' = [c \in Chars |-> IF c \in Playing(S) THEN NoPlayer ELSE players[c]]
    /\ masters' = [c \in Chars |-> IF \E s \in S : sess[s].master = c
                                   THEN NoMaster ELSE masters[c]]
    /\ saved' = [c \in Chars |-> IF save /\ c \in Playing(S)
                                 THEN players[c].ver ELSE saved[c]]

LoggedOut(r) == [r EXCEPT !.player = NoChar, !.master = NoChar]

\* The condition of WorldSession::ForcePlayerLogoutDelay.
StaysInWorld(s) ==
    /\ ~stopped
    /\ sess[s].player # NoChar
    /\ players[sess[s].player].inWorld

\* Mutant of HeadlessState: an entry with a player counts as loading.
HeadlessStateNeverActive(c) ==
    IF hPending[c] # Null THEN "Pending"
    ELSE IF hActive[c] = Null THEN "NotFound"
    ELSE "Loading"

\* HeadlessSessionMgr::GetState.
HeadlessState(c) ==
    IF hPending[c] # Null THEN "Pending"
    ELSE IF hActive[c] = Null THEN "NotFound"
    ELSE IF sess[hActive[c]].player # NoChar /\ ~sess[hActive[c]].loading THEN "Active"
    ELSE "Loading"

\* HeadlessSessionMgr::Stop: which session of the character it removes.
StopTarget(c) == IF hActive[c] # Null THEN hActive[c] ELSE hPending[c]

Without(entries, S) == [c \in Chars |-> IF entries[c] \in S THEN Null ELSE entries[c]]

\* DestroySession: LogoutPlayer(save) and delete, for the entries S.
DestroyHeadless(S, save) ==
    /\ LogoutPlayers(S, save)
    /\ alive' = alive \ S
    /\ sess' = [s \in Sessions |-> IF s \in S THEN Blank ELSE sess[s]]
    /\ hActive' = Without(hActive, S)
    /\ hPending' = Without(hPending, S)

(***************************************************************************)
(* Network threads.                                                        *)
(***************************************************************************)
\* Mutant of AddSession: the new session gets the place of an older one.
AddSessionUncounted(a) ==
    /\ phase # "off"
    /\ created < MaxSessions
    /\ alive' = alive \cup {created + 1}
    /\ sess' = [sess EXCEPT ![created + 1] = NewSession(a, "Network")]
    /\ addSessQueue' = Append(addSessQueue, created + 1)
    /\ UNCHANGED <<tick, created, m_sessions, m_disconnectedSessions, headless, requests,
                   characters>>

\* A client has authenticated: World::AddSession.
AddSession(a) ==
    /\ phase # "off"
    /\ created < MaxSessions
    /\ created' = created + 1
    /\ alive' = alive \cup {created + 1}
    /\ sess' = [sess EXCEPT ![created + 1] = NewSession(a, "Network")]
    /\ addSessQueue' = Append(addSessQueue, created + 1)
    /\ UNCHANGED <<tick, m_sessions, m_disconnectedSessions, headless, requests,
                   characters>>

\* The socket of a session is closed, by the client or by a network error.
CloseSocket(s) ==
    /\ phase # "off"
    /\ s \in alive
    /\ sess[s].socket = "open"
    /\ sess' = [sess EXCEPT ![s] = Kicked(@)]
    /\ UNCHANGED <<tick, created, alive, network, headless, requests, characters>>

(***************************************************************************)
(* World::UpdateSessions.                                                  *)
(***************************************************************************)
\* AddSession_ with RemoveSession: a session that is loading a character is
\* not replaced, and the new one is refused.
AddSessionRefused ==
    /\ phase = "add"
    /\ addSessQueue # <<>>
    /\ LET s   == Head(addSessQueue)
           old == m_sessions[sess[s].acct]
       IN  /\ old # Null
           /\ sess[old].loading
           /\ alive' = alive \ {s}
           /\ sess' = [sess EXCEPT ![s] = Blank]
    /\ addSessQueue' = Tail(addSessQueue)
    /\ UNCHANGED <<tick, created, m_sessions, m_disconnectedSessions, headless, requests,
                   characters>>

\* AddSession_: the old session of the account is kicked, and either stays
\* as a disconnected one, with its player saved, or is deleted.
AddSession_ ==
    /\ phase = "add"
    /\ addSessQueue # <<>>
    /\ LET s   == Head(addSessQueue)
           a   == sess[s].acct
           old == m_sessions[a]
       IN  /\ old # Null => ~sess[old].loading
           /\ m_sessions' = [m_sessions EXCEPT ![a] = s]
           /\ IF old # Null /\ StaysInWorld(old)
              THEN /\ m_disconnectedSessions' = m_disconnectedSessions \cup {old}
                   /\ sess' = [sess EXCEPT ![old] = Kicked(@)]
                   /\ saved' = [saved EXCEPT ![sess[old].player] = players[sess[old].player].ver]
                   /\ UNCHANGED <<alive, players, masters>>
              ELSE LET gone == {old} \ {Null}
                   IN  /\ LogoutPlayers(gone, TRUE)
                       /\ alive' = alive \ gone
                       /\ sess' = [x \in Sessions |-> IF x \in gone THEN Blank ELSE sess[x]]
                       /\ UNCHANGED m_disconnectedSessions
    /\ addSessQueue' = Tail(addSessQueue)
    /\ UNCHANGED <<tick, created, headless, requests>>

\* HeadlessSessionMgr::PromotePending, after the last AddSession_: an entry
\* whose character came into memory in the meantime is destroyed.
PromotePending ==
    /\ phase = "add"
    /\ addSessQueue = <<>>
    /\ LET pending  == {c \in Chars : hPending[c] # Null}
           rejected == {c \in pending : hActive[c] # Null \/ players[c].exists}
           gone     == {hPending[c] : c \in rejected}
       IN  /\ LogoutPlayers(gone, FALSE)
           /\ alive' = alive \ gone
           /\ sess' = [s \in Sessions |-> IF s \in gone THEN Blank ELSE sess[s]]
           /\ hActive' = [c \in Chars |-> IF c \in pending \ rejected
                                          THEN hPending[c] ELSE hActive[c]]
           /\ hPending' = [c \in Chars |-> Null]
    /\ phase' = "sessions"
    /\ todo' = {m_sessions[a] : a \in Accounts} \ {Null}
    /\ UNCHANGED <<stopped, closing, created, network, requests>>

\* The loop over m_sessions is at s and handles its packets.
Processing(s) == phase = "sessions" /\ s \in todo /\ sess[s].socket = "open"

\* HandlePlayerLoginOpcode and LoginPlayer.  A headless session that has not
\* got its player yet gives way.
HandlePlayerLoginOpcode(s, c) ==
    /\ Processing(s)
    /\ AccountOf[c] = sess[s].acct
    /\ ~sess[s].loading
    /\ sess[s].player = NoChar
    /\ tokens["Network"] < MaxRequests
    /\ LET token   == tokens["Network"] + 1
           stop    == IF HeadlessState(c) \in {"Pending", "Loading"}
                      THEN {StopTarget(c)} ELSE {}
       IN  /\ LogoutPlayers(stop, FALSE)
           /\ alive' = alive \ stop
           /\ hActive' = Without(hActive, stop)
           /\ hPending' = Without(hPending, stop)
           /\ sess' = [x \in Sessions |->
                         IF x = s THEN [sess[s] EXCEPT !.loading = TRUE, !.guid = c,
                                                       !.token = token]
                         ELSE IF x \in stop THEN Blank
                         ELSE sess[x]]
           /\ tokens' = [tokens EXCEPT !["Network"] = token]
           /\ inFlight' = [inFlight EXCEPT ![c] = Append(@,
                             [guid |-> c, acct |-> sess[s].acct, transport |-> "Network",
                              token |-> token, ver |-> saved[c]])]
    /\ UNCHANGED <<tick, created, network>>

\* A client logs out: at once (HandleLogoutRequestOpcode) or when its time
\* has passed (the end of WorldSession::Update).
LogoutPlayer(s) ==
    /\ Processing(s)
    /\ sess[s].player # NoChar
    /\ ~sess[s].loading
    /\ LogoutPlayers({s}, TRUE)
    /\ sess' = [sess EXCEPT ![s] = LoggedOut(@)]
    /\ UNCHANGED <<tick, created, alive, network, headless, requests>>

\* The client has loaded the new map: HandleMoveWorldportAckOpcode.
HandleMoveWorldportAckOpcode(s) ==
    /\ Processing(s) \/ (phase = "headless" /\ s \in Range(hActive))
    /\ sess[s].player # NoChar
    /\ ~players[sess[s].player].inWorld
    /\ players' = [players EXCEPT ![sess[s].player].inWorld = TRUE]
    /\ UNCHANGED <<tick, objects, network, headless, requests, masters, saved>>

\* WorldSession::Update returns true: the loop goes on.
UpdateSession(s) ==
    /\ Processing(s)
    /\ todo' = todo \ {s}
    /\ UNCHANGED <<phase, stopped, closing, objects, network, headless, requests,
                   characters>>

\* Mutant of UpdateLosesSocket: the session stays in m_sessions as well.
UpdateKeepsEntry(s) ==
    /\ phase = "sessions"
    /\ s \in todo
    /\ sess[s].socket = "closed"
    /\ StaysInWorld(s)
    /\ sess' = [sess EXCEPT ![s].socket = "none"]
    /\ m_disconnectedSessions' = m_disconnectedSessions \cup {s}
    /\ saved' = [saved EXCEPT ![sess[s].player] = players[sess[s].player].ver]
    /\ todo' = todo \ {s}
    /\ UNCHANGED <<phase, stopped, closing, created, alive, addSessQueue, m_sessions,
                   headless, requests, players, masters>>

\* The socket is closed and the player is in the world: the session leaves
\* m_sessions and stays for a while (ForcePlayerLogoutDelay,
\* SetSessionDisconnected).  This erases the entry the loop is at, and the
\* loop may step over the next one.
UpdateLosesSocket(s) ==
    /\ phase = "sessions"
    /\ s \in todo
    /\ sess[s].socket = "closed"
    /\ StaysInWorld(s)
    /\ sess' = [sess EXCEPT ![s].socket = "none"]
    /\ m_sessions' = [m_sessions EXCEPT ![sess[s].acct] = Null]
    /\ m_disconnectedSessions' = m_disconnectedSessions \cup {s}
    /\ saved' = [saved EXCEPT ![sess[s].player] = players[sess[s].player].ver]
    /\ \E skipped \in {{}} \cup {{t} : t \in todo \ {s}} : todo' = todo \ ({s} \cup skipped)
    /\ UNCHANGED <<phase, stopped, closing, created, alive, addSessQueue, headless,
                   requests, players, masters>>

\* Mutant of RemoveSession: the session is deleted and its player is not
\* logged out.
RemoveSessionSilently(s) ==
    /\ phase = "sessions"
    /\ s \in todo
    /\ sess[s].socket = "closed" /\ ~StaysInWorld(s)
    /\ alive' = alive \ {s}
    /\ sess' = [sess EXCEPT ![s] = Blank]
    /\ m_sessions' = [m_sessions EXCEPT ![sess[s].acct] = Null]
    /\ todo' = todo \ {s}
    /\ UNCHANGED <<phase, stopped, closing, created, addSessQueue,
                   m_disconnectedSessions, headless, requests, characters>>

\* WorldSession::Update returns false, because the socket is closed or the
\* client was idle too long on the character screen: the session is deleted,
\* also while it is loading a character.
RemoveSession(s) ==
    /\ phase = "sessions"
    /\ s \in todo
    /\ \/ sess[s].socket = "closed" /\ ~StaysInWorld(s)
       \/ sess[s].socket = "open" /\ sess[s].player = NoChar /\ ~sess[s].loading
    /\ LogoutPlayers({s}, TRUE)
    /\ alive' = alive \ {s}
    /\ sess' = [sess EXCEPT ![s] = Blank]
    /\ m_sessions' = [m_sessions EXCEPT ![sess[s].acct] = Null]
    /\ todo' = todo \ {s}
    /\ UNCHANGED <<phase, stopped, closing, created, addSessQueue,
                   m_disconnectedSessions, headless, requests>>

\* The loop over m_disconnectedSessions: a session goes when it has no player
\* in the world any more or when its time is over (expired).
UpdateDisconnected ==
    /\ phase = "sessions"
    /\ todo = {}
    /\ \E expired \in SUBSET m_disconnectedSessions :
         /\ \A s \in m_disconnectedSessions \ expired :
               sess[s].player # NoChar /\ players[sess[s].player].inWorld
         /\ LogoutPlayers(expired, TRUE)
         /\ alive' = alive \ expired
         /\ sess' = [s \in Sessions |-> IF s \in expired THEN Blank ELSE sess[s]]
         /\ m_disconnectedSessions' = m_disconnectedSessions \ expired
    /\ phase' = "headless"
    /\ UNCHANGED <<stopped, closing, todo, created, addSessQueue, m_sessions, headless,
                   requests>>

\* HeadlessSessionMgr::Update: a session without player is destroyed; the
\* others handle their packets, by which some may log out.
UpdateHeadless ==
    /\ phase = "headless"
    /\ LET active  == {hActive[c] : c \in Chars} \ {Null}
           missing == {s \in active : sess[s].player = NoChar /\ ~sess[s].loading}
       IN  \E leaving \in SUBSET {s \in active : sess[s].player # NoChar} :
             /\ LogoutPlayers(missing \cup leaving, TRUE)
             /\ alive' = alive \ missing
             /\ sess' = [s \in Sessions |-> IF s \in missing THEN Blank
                                            ELSE IF s \in leaving THEN LoggedOut(sess[s])
                                            ELSE sess[s]]
             /\ hActive' = Without(hActive, missing)
    /\ phase' = IF closing THEN "down" ELSE "rest"
    /\ UNCHANGED <<stopped, closing, todo, created, network, hPending, requests>>

(***************************************************************************)
(* The rest of World::Update: maps, results of queries, commands.          *)
(***************************************************************************)
\* The character does something worth saving.
Play(c) ==
    /\ phase = "rest"
    /\ players[c].exists
    /\ players[c].ver < MaxVer
    /\ players' = [players EXCEPT ![c].ver = @ + 1]
    /\ UNCHANGED <<tick, objects, network, headless, requests, masters, saved>>

\* Player::SaveToDB, called by the save timer among others.
SaveToDB(c) ==
    /\ phase = "rest"
    /\ players[c].exists
    /\ saved' = [saved EXCEPT ![c] = players[c].ver]
    /\ UNCHANGED <<tick, objects, network, headless, requests, players, masters>>

\* A far teleport: the player leaves its map and waits for the client.
TeleportTo(c) ==
    /\ phase = "rest"
    /\ players[c].inWorld
    /\ players' = [players EXCEPT ![c].inWorld = FALSE]
    /\ UNCHANGED <<tick, objects, network, headless, requests, masters, saved>>

\* Mutant of ValidateStart: no look at the sessions that are loading.
ValidateStartUnaware(c) ==
    /\ hActive[c] = Null
    /\ hPending[c] = Null
    /\ ~players[c].exists

\* HeadlessSessionMgr::ValidateStart.
ValidateStart(c) ==
    /\ hActive[c] = Null
    /\ hPending[c] = Null
    /\ ~players[c].exists
    /\ \A s \in Range(m_sessions) \ {Null} : ~(sess[s].loading /\ sess[s].guid = c)

\* HeadlessSessionMgr::Start and LoginPlayer.
Start(c) ==
    /\ phase = "rest"
    /\ created < MaxSessions
    /\ tokens["Headless"] < MaxRequests
    /\ ValidateStart(c)
    /\ LET s     == created + 1
           token == tokens["Headless"] + 1
       IN  /\ created' = s
           /\ alive' = alive \cup {s}
           /\ sess' = [sess EXCEPT ![s] = [NewSession(AccountOf[c], "Headless") EXCEPT
                                             !.loading = TRUE, !.guid = c, !.token = token]]
           /\ hPending' = [hPending EXCEPT ![c] = s]
           /\ tokens' = [tokens EXCEPT !["Headless"] = token]
           /\ inFlight' = [inFlight EXCEPT ![c] = Append(@,
                             [guid |-> c, acct |-> AccountOf[c], transport |-> "Headless",
                              token |-> token, ver |-> saved[c]])]
    /\ UNCHANGED <<tick, network, hActive, characters>>

\* The kick command on a player of a headless session: Stop(c, true).
StopHeadless(c) ==
    /\ phase = "rest"
    /\ players[c].exists
    /\ players[c].session = StopTarget(c)
    /\ DestroyHeadless({StopTarget(c)}, TRUE)
    /\ UNCHANGED <<tick, created, network, requests>>

\* World::BanAccount: StopForAccount, then the session of the account logs
\* out and is kicked.
BanAccount(a) ==
    /\ phase = "rest"
    /\ LET stop == {s \in Range(hActive) \cup Range(hPending) : s # Null /\ sess[s].acct = a}
           out  == {m_sessions[a]} \ {Null}
       IN  /\ stop \cup out # {}
           /\ LogoutPlayers(stop \cup out, TRUE)
           /\ alive' = alive \ stop
           /\ sess' = [s \in Sessions |-> IF s \in stop THEN Blank
                                          ELSE IF s \in out THEN Kicked(LoggedOut(sess[s]))
                                          ELSE sess[s]]
           /\ hActive' = Without(hActive, stop)
           /\ hPending' = Without(hPending, stop)
    /\ UNCHANGED <<tick, created, network, requests>>

(***************************************************************************)
(* The answer of the database: HandlePlayerLoginCallback.                  *)
(***************************************************************************)
\* Mutant of IsLoginRequest: the token is not compared.
IsLoginOfCharacter(s, h) ==
    /\ sess[s].guid = h.guid
    /\ sess[s].transport = h.transport
    /\ sess[s].acct = h.acct

IsLoginRequest(s, h) ==
    /\ sess[s].guid = h.guid
    /\ sess[s].transport = h.transport
    /\ sess[s].token = h.token
    /\ sess[s].acct = h.acct

\* FindSession or FindEntry: the session, if any, that made the request.
Requester(h) ==
    {s \in IF h.transport = "Network" THEN {m_sessions[h.acct]}
           ELSE {hActive[h.guid], hPending[h.guid]} :
        s # Null /\ IsLoginRequest(s, h)}

\* The callback of the oldest holder of c runs, for session s.
Answers(c, h, s) ==
    /\ phase = "rest"
    /\ inFlight[c] # <<>>
    /\ h = Head(inFlight[c])
    /\ s \in Requester(h)
    /\ inFlight' = [inFlight EXCEPT ![c] = Tail(@)]
    /\ UNCHANGED <<tick, created, network, tokens>>

\* Nobody waits for this answer any more.
AnswerDropped(c) ==
    /\ phase = "rest"
    /\ inFlight[c] # <<>>
    /\ Requester(Head(inFlight[c])) = {}
    /\ inFlight' = [inFlight EXCEPT ![c] = Tail(@)]
    /\ UNCHANGED <<tick, objects, network, headless, tokens, characters>>

\* HandleLoginCallback: the account was banned meanwhile: StopForAccount.
AnswerBanned(c) ==
    \E h \in Range(inFlight[c]), s \in Sessions :
        /\ Answers(c, h, s)
        /\ h.transport = "Headless"
        /\ DestroyHeadless({x \in Range(hActive) \cup Range(hPending) :
                                x # Null /\ sess[x].acct = h.acct}, TRUE)

\* HandleLoginCallback: the character was locked meanwhile, or has a Player
\* of another session: Stop(c, false).
AnswerStops(c) ==
    \E h \in Range(inFlight[c]), s \in Sessions, locked \in BOOLEAN :
        /\ Answers(c, h, s)
        /\ h.transport = "Headless"
        /\ locked \/ players[c].exists
        /\ DestroyHeadless(IF locked \/ sess[s].player # c THEN {StopTarget(c)} ELSE {}, FALSE)

\* HandleLoginCallback moves a pending entry to the active ones before
\* HandlePlayerLogin.  No character has both (Registered).
Promoted(c, s) ==
    /\ hActive' = IF hPending[c] = s THEN [hActive EXCEPT ![c] = s] ELSE hActive
    /\ hPending' = IF hPending[c] = s THEN [hPending EXCEPT ![c] = Null] ELSE hPending

\* ReclaimForNetwork and the test before it: may the session of the Player
\* lose it to session s?
MayTakeOver(s, c) ==
    LET old == players[c].session
    IN  /\ players[c].inWorld
        /\ old # Null
        /\ sess[old].acct = sess[s].acct
        /\ sess[old].transport = "Headless" => hActive[c] = old /\ sess[old].player # NoChar

\* The session still waits for a character.
Waiting(s) == sess[s].loading /\ sess[s].player = NoChar

\* Mutant of AnswerRefused: m_playerLoading is not reset.
AnswerForgotten(c) ==
    \E h \in Range(inFlight[c]), s \in Sessions :
        /\ Answers(c, h, s)
        /\ players[c].exists /\ Waiting(s) => h.transport = "Network" /\ ~MayTakeOver(s, c)
        /\ Promoted(c, s)
        /\ UNCHANGED <<alive, sess, characters>>

\* HandlePlayerLogin refuses before it has a Player, or LoadFromDB fails: the
\* client is kicked.  A session that does not wait only drops the answer.
AnswerRefused(c) ==
    \E h \in Range(inFlight[c]), s \in Sessions :
        /\ Answers(c, h, s)
        /\ players[c].exists /\ Waiting(s) => h.transport = "Network" /\ ~MayTakeOver(s, c)
        /\ sess' = [sess EXCEPT ![s] = [IF Waiting(s) THEN Kicked(@) ELSE @
                                         EXCEPT !.loading = FALSE]]
        /\ Promoted(c, s)
        /\ UNCHANGED <<alive, characters>>

\* HandlePlayerLogin creates and loads the Player.  Its map may refuse it,
\* and it is teleported at once.
AnswerLoads(c) ==
    \E h \in Range(inFlight[c]), s \in Sessions, added \in BOOLEAN :
        /\ Answers(c, h, s)
        /\ Waiting(s)
        /\ ~players[c].exists
        /\ players' = [players EXCEPT ![c] = [exists |-> TRUE, session |-> s,
                                              inWorld |-> added, ver |-> h.ver]]
        /\ masters' = [masters EXCEPT ![c] = [exists |-> TRUE, session |-> s]]
        /\ sess' = [x \in Sessions |->
                      IF x = s THEN [sess[s] EXCEPT !.player = c, !.master = c,
                                                    !.loading = FALSE]
                      ELSE IF x = masters[c].session THEN [sess[x] EXCEPT !.master = NoChar]
                      ELSE sess[x]]
        /\ Promoted(c, s)
        /\ UNCHANGED <<alive, saved>>

\* What HandlePlayerLogin does to the sessions when s takes the Player of c
\* from `old'; a headless session is deleted then (ReclaimForNetwork).
TakesFrom(c, s, old) ==
    LET gone == IF sess[old].transport = "Headless" THEN {old} ELSE {}
    IN  /\ alive' = alive \ gone
        /\ hActive' = Without(hActive, gone)
        /\ sess' = [x \in Sessions |->
                      IF x = s THEN [sess[s] EXCEPT !.player = c, !.master = c,
                                                    !.loading = FALSE]
                      ELSE IF x \in gone THEN Blank
                      ELSE [sess[x] EXCEPT
                              !.player = IF x = old THEN NoChar ELSE @,
                              !.master = IF x = masters[c].session THEN NoChar ELSE @]]
        /\ players' = [players EXCEPT ![c].session = s]
        /\ masters' = [masters EXCEPT ![c] = [exists |-> TRUE, session |-> s]]
        /\ UNCHANGED <<hPending, saved>>

\* Mutant of AnswerTakesOver: the previous session keeps its pointer.
AnswerShares(c) ==
    \E h \in Range(inFlight[c]), s \in Sessions :
        /\ Answers(c, h, s)
        /\ h.transport = "Network"
        /\ Waiting(s)
        /\ players[c].exists
        /\ MayTakeOver(s, c)
        /\ sess' = [sess EXCEPT ![s].player = c, ![s].master = c, ![s].loading = FALSE]
        /\ players' = [players EXCEPT ![c].session = s]
        /\ masters' = [masters EXCEPT ![c] = [exists |-> TRUE, session |-> s]]
        /\ UNCHANGED <<alive, headless, saved>>

\* HandlePlayerLogin finds the Player of an earlier session of the account
\* and takes it over.
AnswerTakesOver(c) ==
    \E h \in Range(inFlight[c]), s \in Sessions :
        /\ Answers(c, h, s)
        /\ h.transport = "Network"
        /\ Waiting(s)
        /\ players[c].exists
        /\ MayTakeOver(s, c)
        /\ TakesFrom(c, s, players[c].session)

Answer(c) ==
    \/ AnswerDropped(c)
    \/ AnswerBanned(c)
    \/ AnswerStops(c)
    \/ AnswerRefused(c)
    \/ AnswerLoads(c)
    \/ AnswerTakesOver(c)

(***************************************************************************)
(* The loop of WorldRunnable and the end of the server.                    *)
(***************************************************************************)
\* World::StopNow: a command, the shutdown timer or a signal.
StopNow ==
    /\ ~stopped
    /\ stopped' = TRUE
    /\ UNCHANGED <<phase, closing, todo, objects, network, headless, requests, characters>>

NextTick ==
    /\ phase = "rest"
    /\ ~stopped
    /\ phase' = "add"
    /\ UNCHANGED <<stopped, closing, todo, objects, network, headless, requests,
                   characters>>

\* World::Shutdown: the headless sessions are destroyed, all clients are
\* kicked (KickAll), and UpdateSessions runs once more.
Shutdown ==
    /\ phase = "rest"
    /\ stopped
    /\ LET owned    == (Range(hActive) \cup Range(hPending)) \ {Null}
           kicked   == Range(m_sessions) \cup m_disconnectedSessions
       IN  /\ LogoutPlayers(owned, TRUE)
           /\ alive' = alive \ owned
           /\ hActive' = Without(hActive, owned)
           /\ hPending' = Without(hPending, owned)
           /\ sess' = [s \in Sessions |-> IF s \in owned THEN Blank
                                          ELSE IF s \in kicked THEN Kicked(sess[s])
                                          ELSE sess[s]]
    /\ closing' = TRUE
    /\ phase' = "add"
    /\ UNCHANGED <<stopped, todo, created, network, requests>>

\* World::InternalShutdown: what is left in m_sessions and with the headless
\* manager is deleted.
InternalShutdown ==
    /\ phase = "down"
    /\ LET left == (Range(m_sessions) \cup Range(hActive) \cup Range(hPending)) \ {Null}
       IN  /\ LogoutPlayers(left, TRUE)
           /\ alive' = alive \ left
           /\ sess' = [s \in Sessions |-> IF s \in left THEN Blank ELSE sess[s]]
           /\ hActive' = Without(hActive, left)
           /\ hPending' = Without(hPending, left)
    /\ m_sessions' = [a \in Accounts |-> Null]
    /\ phase' = "off"
    /\ UNCHANGED <<stopped, closing, todo, created, addSessQueue, m_disconnectedSessions,
                   requests>>

\* The steps of the world thread that it takes without outside help.
WorldStep ==
    \/ AddSessionRefused
    \/ AddSession_
    \/ PromotePending
    \/ \E s \in Sessions : UpdateSession(s) \/ UpdateLosesSocket(s) \/ RemoveSession(s)
    \/ UpdateDisconnected
    \/ UpdateHeadless
    \/ NextTick
    \/ Shutdown
    \/ InternalShutdown

Packet(s) ==
    \/ \E c \in Chars : HandlePlayerLoginOpcode(s, c)
    \/ LogoutPlayer(s)
    \/ HandleMoveWorldportAckOpcode(s)

Game(c) ==
    \/ Play(c)
    \/ SaveToDB(c)
    \/ TeleportTo(c)
    \/ Start(c)
    \/ StopHeadless(c)

Next ==
    \/ WorldStep
    \/ \E a \in Accounts : AddSession(a) \/ BanAccount(a)
    \/ \E s \in Sessions : CloseSocket(s) \/ Packet(s)
    \/ \E c \in Chars : Game(c) \/ Answer(c)
    \/ StopNow

\* The world thread goes on.  An answer comes in the end, at a time when the
\* thread is in UpdateResultQueue (SqlResultQueue!EveryCallbackRuns).
Fairness ==
    /\ WF_vars(WorldStep)
    /\ \A c \in Chars : SF_vars(Answer(c))

Spec == Init /\ [][Next]_vars /\ Fairness

(***************************************************************************)
(* Properties.                                                             *)
(***************************************************************************)
\* Every session that exists is in exactly one place that will end it: the
\* queue of new sessions, the session of its account, the disconnected ones
\* or an entry of its character with the headless manager; and no place
\* holds a session that was deleted.
Registered ==
    /\ alive = (Range(addSessQueue) \cup Range(m_sessions) \cup m_disconnectedSessions
                  \cup Range(hActive) \cup Range(hPending)) \ {Null}
    /\ \A s \in alive :
         Cardinality({i \in DOMAIN addSessQueue : addSessQueue[i] = s})
           + Cardinality({a \in Accounts : m_sessions[a] = s})
           + Cardinality({s} \cap m_disconnectedSessions)
           + Cardinality({c \in Chars : hActive[c] = s})
           + Cardinality({c \in Chars : hPending[c] = s}) = 1
    /\ \A c \in Chars : hActive[c] = Null \/ hPending[c] = Null

\* A Player and the session that plays it point at each other, and so do
\* MasterPlayer and session; such a session exists.  A takeover, a logout
\* or a late answer never leaves a pointer to a deleted session.
OneOwner ==
    /\ \A s \in Sessions :
         /\ sess[s].player # NoChar => /\ players[sess[s].player].exists
                                       /\ players[sess[s].player].session = s
         /\ sess[s].master # NoChar => /\ masters[sess[s].master].exists
                                       /\ masters[sess[s].master].session = s
    /\ \A c \in Chars :
         /\ players[c].exists = masters[c].exists
         /\ players[c].exists => /\ players[c].session \in alive
                                 /\ sess[players[c].session].player = c
                                 /\ sess[players[c].session].master = c
                                 /\ sess[players[c].session].acct = AccountOf[c]

\* A session waits for a character exactly as long as the answer to its
\* last request is on its way, so no answer is applied twice or to the
\* request of another session, and no session waits for nothing.
WaitsForItsAnswer ==
    \A s \in alive :
        LET due == {c \in Chars : \E i \in DOMAIN inFlight[c] :
                                    IsLoginRequest(s, inFlight[c][i])}
        IN  /\ sess[s].loading = (due # {})
            /\ sess[s].loading => due = {sess[s].guid} /\ sess[s].player = NoChar

\* "A real client always wins" (HandlePlayerLoginOpcode): a headless session
\* never waits for a character that another session plays or waits for, so
\* its answer never finds a Player, and no client is refused because of it.
HeadlessGivesWay ==
    \A s \in alive :
        sess[s].transport = "Headless" /\ sess[s].loading =>
            /\ ~players[sess[s].guid].exists
            /\ \A x \in alive \ {s} : sess[x].loading => sess[x].guid # sess[s].guid

\* No Player goes without being saved: its state is in the database when it
\* leaves memory, whatever ended its session.
SavedOnExit ==
    [][\A c \in Chars :
         players[c].exists /\ ~players'[c].exists => saved'[c] = players[c].ver]_vars

\* A client that asks for a character gets an answer, or its session ends.
EveryLoginAnswered ==
    \A s \in Sessions : s \in alive /\ sess[s].loading ~> ~sess[s].loading \/ closing

\* "save and kick all players" (World::Shutdown): when the server has
\* stopped, a change to a character that is not in the database was made after
\* its client was lost: its session waits in m_disconnectedSessions, which the
\* shutdown kicks but does not log out.
ShutdownSavesPlayed ==
    phase = "off" =>
        \A c \in Chars : players[c].exists /\ saved[c] # players[c].ver =>
                             players[c].session \in m_disconnectedSessions

=============================================================================
