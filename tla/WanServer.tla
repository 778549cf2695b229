----------------------------- MODULE WanServer -----------------------------
(***************************************************************************)
(* The game server: wan_server (server/wan_server.cpp) on top of the       *)
(* net_worker whose connect, disconnect and message handlers it installs,  *)
(* and the player_mgr it reports logins to.  The handlers are synchronous  *)
(* calls, so each is part of the net_worker step that makes it; a handler's*)
(* reply is written when its SEND_GUARD is destroyed, after all it changes,*)
(* and that write may end the process or never return (Replying).          *)
(*                                                                         *)
(* Every step here is a NetWorker step or leaves the worker alone.         *)
(***************************************************************************)
EXTENDS NetWorker, PlayerMgr

CONSTANT NoSession  \* m_sessions has no entry for the slot

VARIABLES
    sessions,   \* m_sessions: the uid of each slot's session, 0 before enter
    broken,     \* undefined behaviour that ended the process, or "none"
    abandoned,  \* history: uids some session has exchanged for another uid
    shared      \* history: uids that were entered while another session had them

sessionVars == <<sessions, players, abandoned, shared>>
allVars == <<vars, sessionVars, broken>>

\* What RECV_PRASE and the m_msg_handler_umap make of a packet: a message with
\* a handler, or one parse_msg() returns false for (unknown id, or a body that
\* ParsePartialFromArray rejects).
Enters  == [cmd : {"C2S_Enter"}, uid : Uids]
Hellos  == [cmd : {"C2S_Hello"}, members : {0, 1}]
Garbage == [cmd : {"unknown", "malformed"}]

ASSUME WanServerAssumption ==
    /\ Uids \subseteq Nat /\ NoSession \notin Uids /\ 0 \in Uids
    /\ Packets \subseteq Enters \cup Hellos \cup Garbage
    /\ Refused = Packets \cap Garbage
    /\ Bullets = 0 /\ Listens

-----------------------------------------------------------------------------
\* add_session(): insert() keeps a session that is already there.
AddSession(p) ==
    /\ sessions' = IF sessions[p] = NoSession THEN [sessions EXCEPT ![p] = 0]
                   ELSE sessions
    /\ UNCHANGED <<players, broken, abandoned, shared>>

\* m_sessions[p]-> when there is no session: operator[] makes a null pointer.
NullSession(p) ==
    /\ sessions[p] = NoSession
    /\ broken' = "session"
    /\ UNCHANGED sessionVars

\* Faulty variants, M_..., each the mistake its name tells; they are not part of
\* the specification and stand before the definition they replace.
M_DelSessionKeepsEntry(p) ==
    \/ NullSession(p)
    \/ /\ sessions[p] # NoSession
       /\ IF sessions[p] > 0 THEN Leave(sessions[p]) ELSE UNCHANGED players
       /\ UNCHANGED <<sessions, broken, abandoned, shared>>

M_DelSessionWithoutLeave(p) ==
    \/ NullSession(p)
    \/ /\ sessions[p] # NoSession
       /\ sessions' = [sessions EXCEPT ![p] = NoSession]
       /\ UNCHANGED <<players, broken, abandoned, shared>>

DelSession(p) ==
    \/ NullSession(p)
    \/ /\ sessions[p] # NoSession
       /\ IF sessions[p] > 0 THEN Leave(sessions[p]) ELSE UNCHANGED players
       /\ sessions' = [sessions EXCEPT ![p] = NoSession]
       /\ UNCHANGED <<broken, abandoned, shared>>

M_EnterKicksOnline(p, m) ==
    /\ m \in Enters
    /\ \/ NullSession(p)
       \/ /\ sessions[p] # NoSession
          /\ sessions' = [sessions EXCEPT ![p] = m.uid]
          /\ IF players[m.uid] = "Online" THEN Leave(m.uid) ELSE Enter(m.uid)
          /\ UNCHANGED <<broken, abandoned, shared>>

HandleEnter(p, m) ==
    /\ m \in Enters
    /\ \/ NullSession(p)
       \/ /\ sessions[p] # NoSession
          /\ sessions' = [sessions EXCEPT ![p] = m.uid]
          /\ Enter(m.uid)
          /\ abandoned' = abandoned \cup ({sessions[p]} \ {0, m.uid})
          /\ shared' = shared \cup
                {u \in {m.uid} : \E q \in Pointers \ {p} : sessions[q] = u}
          /\ UNCHANGED broken

\* msg.member(0) of a message without members reads a null array in the release
\* build; that it gives some number and goes on is left open.
HandleHello(p, m) ==
    /\ m \in Hellos
    /\ broken' \in {"none"} \cup {b \in {"member"} : m.members = 0}
    /\ UNCHANGED sessionVars

-----------------------------------------------------------------------------
M_ConnectedWithoutHandler(p) == AcceptOk(p) /\ UNCHANGED <<sessionVars, broken>>

M_ConnectedStopsAccepting(p) ==
    /\ Idle /\ acceptOps[p] > 0
    /\ BeginLife(p) /\ AddSession(p)
    /\ status' = [status EXCEPT ![p] = "CONNECTED"]
    /\ acceptOps' = [acceptOps EXCEPT ![p] = @ - 1]
    /\ UNCHANGED <<setupVars, sock, stream, lost, short, connectOps, waitOps, current, fault>>

\* The accept handler with its m_connect_handler call.
Connected(p) == AcceptOk(p) /\ AddSession(p)

\* The three ways a connection ends, with close()'s m_disconnect_handler call.
Disconnected(p) ==
    /\ \/ ReadFailed(p)
       \/ \E new \in Batches, t \in Cuts : ReadShort(p, new, t)
       \/ ParseRefused(p)
    /\ DelSession(p)

\* A packet that has a handler.
Handled(p) ==
    /\ ParseHandled(p)
    /\ \/ HandleEnter(p, Head(buffer[p]).msg)
       \/ HandleHello(p, Head(buffer[p]).msg)

\* The same, but the handler does not come back from writing its reply.
Replying(p) ==
    /\ SendAborts(p) /\ current = p
    /\ \/ HandleEnter(p, Head(buffer[p]).msg)
       \/ HandleHello(p, Head(buffer[p]).msg)

\* Steps of the worker that call no handler of the server; what is sent then is
\* the console's "hello".
WorkerOnly(p) ==
    /\ \/ AcceptFailed(p) \/ AcceptAborts(p) \/ PeerGone(p)
       \/ SendAborts(p) /\ current = NoPointer
       \/ \E new \in Batches, t \in Cuts : ReadData(p, new, t)
       \/ ParseDone(p)
    /\ UNCHANGED <<sessionVars, broken>>

\* engine::init(): open(), then shoot() without bullets; the process rests when
\* it has died or could not open its port.
Engine ==
    /\ Open \/ OpenFailed \/ Shoot
    /\ UNCHANGED <<sessionVars, broken>>

Stopped ==
    /\ broken # "none" \/ Rest
    /\ UNCHANGED allVars

WanInit ==
    /\ Init /\ PlayersInit
    /\ sessions = [p \in Pointers |-> NoSession]
    /\ broken = "none"
    /\ abandoned = {} /\ shared = {}

WanStep(p) ==
    broken = "none" /\
        (Connected(p) \/ Disconnected(p) \/ Handled(p) \/ Replying(p) \/ WorkerOnly(p))

WanNext ==
    \/ broken = "none" /\ Engine
    \/ \E p \in Pointers : WanStep(p)
    \/ Stopped

\* As NetWorker's fairness: the loop runs the handlers that are ready.
WanFairness ==
    /\ WF_allVars(broken = "none" /\ Engine)
    /\ \A p \in Pointers :
          /\ SF_allVars(broken = "none" /\ p \in gone /\ ReadFailed(p) /\ DelSession(p))
          /\ WF_allVars(/\ broken = "none" /\ current = p
                        /\ \/ Handled(p)
                           \/ ParseRefused(p) /\ DelSession(p)
                           \/ ParseDone(p) /\ UNCHANGED <<sessionVars, broken>>)

WanSpec == WanInit /\ [][WanNext]_allVars
WanFairSpec == WanSpec /\ WanFairness
-----------------------------------------------------------------------------
\* Every variable of the server has its type (wan_server.h:37, player_mgr.h:36-41).
WanTypeOK ==
    /\ sessions \in [Pointers -> Uids \cup {NoSession}]
    /\ players \in [Uids -> PlayerStates]
    /\ broken \in {"none", "session", "member"}
    /\ abandoned \subseteq Uids
    /\ shared \subseteq Uids

\* A slot has a session exactly while it is connected: whatever ends the
\* connection, the next client of the slot starts without the uid of the last
\* (wan_server.cpp:28-37, 70-84; net_worker.hpp:315-330, 369-388).
SessionMatchesSlot ==
    fault = "none" /\ broken = "none" =>
        \A p \in Pointers : sessions[p] # NoSession <=> status[p] = "CONNECTED"

\* m_sessions[pointer_id]-> never meets a slot without a session: no message is
\* handled before add_session() or after del_session(), and no connection is
\* closed twice (wan_server.cpp:53, 78).
NoNullSession == broken # "session"

\* A uid other than 0 is online exactly while a session has it, except for what
\* the code does not guard against: a session that enters again under another
\* uid leaves the first online, and of two sessions with the same uid the first
\* to close takes the player offline (wan_server.cpp:46-56, 76-84;
\* player_mgr.cpp:35-57).
PresenceLedger ==
    broken = "none" =>
        \A u \in Uids \ {0} :
            LET held == \E p \in Pointers : sessions[p] = u
            IN  /\ players[u] = "Online" /\ u \notin abandoned => held
                /\ held /\ u \notin shared => players[u] = "Online"

\* A player goes offline only when a connection that has its uid closes, never
\* because of another connection's messages or end (wan_server.cpp:76-84).
OfflineByClose ==
    [][\A u \in Uids :
          players[u] = "Online" /\ players'[u] = "Offline" =>
              \E p \in Pointers : /\ sessions[p] = u /\ sessions'[p] = NoSession
                                  /\ status'[p] = "UNCONNECT"]_allVars

\* Once a client has gone, the player it entered with goes offline, unless this
\* client's session takes another uid before the server notices; or the process
\* ends, or its only thread is held for ever by a client that says nothing in the
\* WebSocket handshake or does not read what is written to it
\* (net_worker.hpp:159-163 to wan_server.cpp:76-84).
LeaverGoesOffline ==
    \A p \in Pointers, u \in Uids \ {0} :
        (p \in gone /\ sessions[p] = u)
            ~> \/ players[u] = "Offline"
               \/ p \in gone /\ sessions[p] \notin {u, NoSession}
               \/ fault # "none" \/ broken # "none"
=============================================================================
