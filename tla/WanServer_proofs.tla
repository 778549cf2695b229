-------------------------- MODULE WanServer_proofs --------------------------
(***************************************************************************)
(* Theorems about WanServer, for any number of slots and uids: sessions    *)
(* and connections agree, no message or close meets a missing session, who *)
(* is online, and what takes a player offline.                             *)
(*                                                                         *)
(* IInv of NetWorker_proofs carries over, since a step of the server is    *)
(* one of the worker or leaves it alone, and says which slots a handler can*)
(* run for; WInv adds that the server has no outward slots and that a uid  *)
(* two sessions have is in `shared`.                                       *)
(***************************************************************************)
EXTENDS WanServer, NetWorker_proofs

\* A uid two sessions have has been entered while another session had it.
SharedLedger ==
    \A p, q \in Pointers :
        p # q /\ sessions[p] = sessions[q] /\ sessions[p] \in Uids \ {0}
            => sessions[p] \in shared

\* The inductive invariant of the server, on top of IInv.
WInv ==
    /\ WanTypeOK /\ SessionMatchesSlot /\ NoNullSession
    /\ SharedLedger /\ PresenceLedger
    /\ outward = {}

-----------------------------------------------------------------------------
\* A step of the server is a step of the worker: what NetWorker_proofs shows of the
\* worker may be used here.
LEMMA WanStepIsWorkerStep == [WanNext]_allVars => [Next]_vars
  <1> SUFFICES ASSUME [WanNext]_allVars PROVE [Next]_vars
    OBVIOUS
  <1>1. CASE broken = "none" /\ Engine
    BY <1>1 DEF Engine, Next, Setup
  <1>2. ASSUME NEW p \in Pointers, WanStep(p) PROVE Next
    BY <1>2 DEF WanStep, Connected, Disconnected, Handled, Replying, WorkerOnly, Next, Reading
  <1>3. CASE Stopped \/ UNCHANGED allVars
    BY <1>3 DEF Stopped, allVars
  <1> QED BY <1>1, <1>2, <1>3 DEF WanNext

\* So the inductive invariant of the worker holds under the server.
LEMMA WanIInv == WanSpec => []IInv
  <1>1. WanInit => Init
    BY DEF WanInit
  <1> QED BY <1>1, WanStepIsWorkerStep, IInvHolds, PTL DEF WanSpec, Spec

-----------------------------------------------------------------------------
\* A session that has not entered has uid 0, which is not "no session".
LEMMA ZeroIsNoSession ==
    /\ Uids \subseteq Nat /\ 0 \in Uids
    /\ 0 # NoSession /\ NoSession \notin Uids
  BY WanServerAssumption

\* What add_session() and del_session() do to well-typed state.
LEMMA AddSessionFacts ==
    ASSUME WInv, NEW p \in Pointers, AddSession(p)
    PROVE  /\ WanTypeOK' /\ broken' = broken
           /\ sessions'[p] # NoSession
           /\ \A x \in Pointers \ {p} : sessions'[x] = sessions[x]
           /\ \A x \in Pointers : sessions'[x] \notin {0, NoSession} => sessions'[x] = sessions[x]
           /\ \A x \in Pointers : sessions[x] # NoSession => sessions'[x] = sessions[x]
           /\ UNCHANGED <<players, abandoned, shared>>
  BY ZeroIsNoSession DEF WInv, AddSession, WanTypeOK

\* del_session() of a session that is there.
LEMMA DelSessionFacts ==
    ASSUME WInv, NEW p \in Pointers, DelSession(p), sessions[p] # NoSession
    PROVE  /\ WanTypeOK' /\ broken' = broken
           /\ sessions'[p] = NoSession
           /\ \A x \in Pointers \ {p} : sessions'[x] = sessions[x]
           /\ UNCHANGED <<abandoned, shared>>
           /\ \A u \in Uids : u # sessions[p] => players'[u] = players[u]
           /\ sessions[p] # 0 => players'[sessions[p]] # "Online"
  <1>1. /\ sessions \in [Pointers -> Uids \cup {NoSession}]
        /\ players \in [Uids -> PlayerStates] /\ sessions[p] \in Uids
    BY DEF WInv, WanTypeOK
  <1>2. /\ sessions' = [sessions EXCEPT ![p] = NoSession]
        /\ UNCHANGED <<broken, abandoned, shared>>
        /\ IF sessions[p] > 0 THEN Leave(sessions[p]) ELSE UNCHANGED players
    BY DEF DelSession, NullSession
  <1>3. sessions[p] > 0 <=> sessions[p] # 0
    <2>1. sessions[p] \in Nat
      BY <1>1, ZeroIsNoSession
    <2> QED BY <2>1
  <1>4. CASE sessions[p] = 0
    BY <1>1, <1>2, <1>3, <1>4 DEF WInv, WanTypeOK
  <1>5. CASE sessions[p] # 0
    <2>1. players' = IF players[sessions[p]] = "absent" THEN players
                     ELSE [players EXCEPT ![sessions[p]] = "Offline"]
      BY <1>2, <1>3, <1>5 DEF Leave
    <2>2. players' \in [Uids -> PlayerStates] /\ players'[sessions[p]] # "Online"
      BY <1>1, <2>1 DEF PlayerStates
    <2> QED BY <1>1, <1>2, <2>1, <2>2 DEF WInv, WanTypeOK
  <1> QED BY <1>4, <1>5

\* A slot whose handler runs is connected, so it has a session.
LEMMA HandlerHasSession ==
    ASSUME IInv, WInv, broken = "none", fault = "none", NEW p \in Pointers,
           readOps[p] > 0 \/ current = p
    PROVE  sessions[p] # NoSession /\ status[p] = "CONNECTED"
  BY Handlers DEF WInv, SessionMatchesSlot

\* handle_enter() of a session that is there.
LEMMA EnterFacts ==
    ASSUME WInv, NEW p \in Pointers, NEW m, HandleEnter(p, m), sessions[p] # NoSession
    PROVE  /\ m.uid \in Uids /\ broken' = broken
           /\ sessions' = [sessions EXCEPT ![p] = m.uid]
           /\ players' = [players EXCEPT ![m.uid] = "Online"]
           /\ abandoned' = abandoned \cup ({sessions[p]} \ {0, m.uid})
           /\ shared' = shared \cup {u \in {m.uid} : \E q \in Pointers \ {p} : sessions[q] = u}
           /\ WanTypeOK'
  <1>1. m.uid \in Uids
    BY DEF HandleEnter, Enters
  <1>2. /\ sessions' = [sessions EXCEPT ![p] = m.uid]
        /\ players' = [players EXCEPT ![m.uid] = "Online"]
        /\ abandoned' = abandoned \cup ({sessions[p]} \ {0, m.uid})
        /\ shared' = shared \cup {u \in {m.uid} : \E q \in Pointers \ {p} : sessions[q] = u}
        /\ broken' = broken
    BY DEF HandleEnter, NullSession, Enter
  <1>3. /\ sessions \in [Pointers -> Uids \cup {NoSession}]
        /\ players \in [Uids -> PlayerStates] /\ sessions[p] \in Uids
        /\ abandoned \subseteq Uids /\ shared \subseteq Uids
        /\ broken \in {"none", "session", "member"}
    BY DEF WInv, WanTypeOK
  <1>4. /\ sessions' \in [Pointers -> Uids \cup {NoSession}]
        /\ players' \in [Uids -> PlayerStates]
    BY <1>1, <1>2, <1>3 DEF PlayerStates
  <1>5. /\ abandoned' \subseteq Uids /\ shared' \subseteq Uids
        /\ broken' \in {"none", "session", "member"}
    BY <1>1, <1>2, <1>3
  <1> QED BY <1>1, <1>2, <1>4, <1>5 DEF WanTypeOK

-----------------------------------------------------------------------------
\* WInv is inductive.  One lemma per kind of step that calls a handler.
LEMMA ConnectedKeeps ==
    ASSUME IInv, WInv, broken = "none", NEW p \in Pointers, Connected(p)
    PROVE  WInv'
  <1> USE DEF setupVars, linkVars, opVars, dataVars
  <1>1. /\ AcceptOk(p) /\ AddSession(p) /\ fault = "none" /\ outward' = outward
        /\ acceptOps[p] > 0
    BY DEF Connected, AcceptOk, Idle
  <1>2. TypeOK /\ WanTypeOK
    BY DEF IInv, WInv
  <1>3. status[p] = "WAITING"
    BY <1>1, Handlers
  <1>4. /\ broken' = broken /\ WanTypeOK' /\ sessions'[p] # NoSession
        /\ \A x \in Pointers \ {p} : sessions'[x] = sessions[x]
        /\ \A x \in Pointers : sessions'[x] \notin {0, NoSession} => sessions'[x] = sessions[x]
        /\ \A x \in Pointers : sessions[x] # NoSession => sessions'[x] = sessions[x]
        /\ UNCHANGED <<players, abandoned, shared>>
    BY <1>1, AddSessionFacts
  <1>5. SessionMatchesSlot'
    <2> SUFFICES ASSUME fault' = "none", NEW x \in Pointers
                 PROVE  sessions'[x] # NoSession <=> status'[x] = "CONNECTED"
      BY DEF SessionMatchesSlot
    <2>1. PICK q \in Pointers :
             /\ [status EXCEPT ![p] = "CONNECTED"][q] = "UNCONNECT"
             /\ status' = [[status EXCEPT ![p] = "CONNECTED"] EXCEPT ![q] = "WAITING"]
      BY <1>1, StartAcceptPops DEF AcceptOk
    <2>2. \A y \in Pointers : sessions[y] # NoSession <=> status[y] = "CONNECTED"
      BY <1>1 DEF WInv, SessionMatchesSlot
    <2>3. q # p /\ status[q] = "UNCONNECT"
      BY <2>1, <1>2, Counters
    <2> QED BY <2>1, <2>2, <2>3, <1>2, <1>4, Counters
  <1>6. SharedLedger'
    BY <1>4, <1>2, ZeroIsNoSession DEF WInv, SharedLedger
  <1>7. PresenceLedger'
    <2> SUFFICES ASSUME NEW u \in Uids \ {0}
                 PROVE  /\ players[u] = "Online" /\ u \notin abandoned =>
                              \E y \in Pointers : sessions'[y] = u
                        /\ (\E y \in Pointers : sessions'[y] = u) /\ u \notin shared =>
                              players[u] = "Online"
      BY <1>4 DEF PresenceLedger
    <2>1. u # NoSession /\ u # 0
      BY ZeroIsNoSession
    <2>2. (\E y \in Pointers : sessions'[y] = u) <=> (\E y \in Pointers : sessions[y] = u)
      BY <2>1, <1>4
    <2> QED BY <2>2 DEF WInv, PresenceLedger
  <1> QED BY <1>1, <1>4, <1>5, <1>6, <1>7 DEF WInv, NoNullSession

\* The three ways a connection ends; for OfflineByClose, what they do to players.
LEMMA DisconnectedKeeps ==
    ASSUME IInv, WInv, broken = "none", NEW p \in Pointers, Disconnected(p)
    PROVE  /\ WInv' /\ sessions[p] # NoSession /\ sessions'[p] = NoSession
           /\ status'[p] = "UNCONNECT"
           /\ \A u \in Uids : u # sessions[p] => players'[u] = players[u]
  <1> USE DEF setupVars, linkVars, opVars, dataVars
  <1>1. /\ DelSession(p) /\ Close(p) /\ fault = "none" /\ fault' = fault
        /\ readOps[p] > 0 \/ current = p
        /\ outward' = outward
    BY DEF Disconnected, ReadFailed, ReadShort, Receive, ParseRefused, Idle
  <1>2. TypeOK /\ WanTypeOK
    BY DEF IInv, WInv
  <1>3. sessions[p] # NoSession /\ status[p] = "CONNECTED"
    BY <1>1, HandlerHasSession
  <1>4. /\ WanTypeOK' /\ broken' = broken /\ sessions'[p] = NoSession
        /\ \A x \in Pointers \ {p} : sessions'[x] = sessions[x]
        /\ UNCHANGED <<abandoned, shared>>
        /\ \A u \in Uids : u # sessions[p] => players'[u] = players[u]
        /\ sessions[p] # 0 => players'[sessions[p]] # "Online"
    BY <1>1, <1>3, DelSessionFacts
  <1>5. \A x \in Pointers :
           status'[x] = IF x # p THEN status[x] ELSE "UNCONNECT"
    BY <1>1, <1>2, CloseStatus DEF WInv
  <1>6. SessionMatchesSlot'
    BY <1>1, <1>4, <1>5 DEF WInv, SessionMatchesSlot
  <1>7. SharedLedger'
    BY <1>4, <1>2, ZeroIsNoSession DEF WInv, SharedLedger
  <1>8. PresenceLedger'
    <2> SUFFICES ASSUME NEW u \in Uids \ {0}
                 PROVE  /\ players'[u] = "Online" /\ u \notin abandoned =>
                              \E y \in Pointers : sessions'[y] = u
                        /\ (\E y \in Pointers : sessions'[y] = u) /\ u \notin shared =>
                              players'[u] = "Online"
      BY <1>4 DEF PresenceLedger
    <2>1. /\ players[u] = "Online" /\ u \notin abandoned => \E y \in Pointers : sessions[y] = u
          /\ (\E y \in Pointers : sessions[y] = u) /\ u \notin shared => players[u] = "Online"
      BY DEF WInv, PresenceLedger
    <2>2. u # NoSession /\ u # 0
      BY ZeroIsNoSession
    <2>3. CASE u # sessions[p]
      <3>1. (\E y \in Pointers : sessions'[y] = u) <=> (\E y \in Pointers : sessions[y] = u)
        BY <2>2, <2>3, <1>4
      <3> QED BY <2>1, <2>3, <3>1, <1>4
    <2>4. CASE u = sessions[p]
      <3>1. players'[u] # "Online"
        BY <2>2, <2>4, <1>4
      <3>2. (\E y \in Pointers : sessions'[y] = u) => u \in shared
        BY <2>2, <2>4, <1>4 DEF WInv, SharedLedger
      <3> QED BY <3>1, <3>2
    <2> QED BY <2>3, <2>4
  <1> QED BY <1>1, <1>3, <1>4, <1>5, <1>6, <1>7, <1>8 DEF WInv, NoNullSession

\* handle_enter() keeps the invariant and takes nobody offline.
LEMMA EnterKeeps ==
    ASSUME IInv, WInv, NEW p \in Pointers, NEW m, HandleEnter(p, m),
           sessions[p] # NoSession, broken = "none",
           UNCHANGED <<status, outward>>, fault' = "none" => fault = "none"
    PROVE  /\ WInv'
           /\ \A u \in Uids : players[u] = "Online" => players'[u] = "Online"
  <1>1. /\ m.uid \in Uids /\ broken' = broken /\ WanTypeOK'
        /\ sessions' = [sessions EXCEPT ![p] = m.uid]
        /\ players' = [players EXCEPT ![m.uid] = "Online"]
        /\ abandoned' = abandoned \cup ({sessions[p]} \ {0, m.uid})
        /\ shared' = shared \cup {u \in {m.uid} : \E q \in Pointers \ {p} : sessions[q] = u}
    BY EnterFacts
  <1>2. /\ sessions \in [Pointers -> Uids \cup {NoSession}]
        /\ players \in [Uids -> PlayerStates]
    BY DEF WInv, WanTypeOK
  <1>3. /\ sessions'[p] = m.uid /\ m.uid # NoSession
        /\ \A x \in Pointers \ {p} : sessions'[x] = sessions[x]
    BY <1>1, <1>2, ZeroIsNoSession
  <1>4. /\ players'[m.uid] = "Online"
        /\ \A u \in Uids \ {m.uid} : players'[u] = players[u]
    BY <1>1, <1>2
  <1>5. SessionMatchesSlot'
    BY <1>1, <1>3 DEF WInv, SessionMatchesSlot
  <1>6. SharedLedger'
    <2> SUFFICES ASSUME NEW x \in Pointers, NEW y \in Pointers, x # y,
                        sessions'[x] = sessions'[y], sessions'[x] \in Uids \ {0}
                 PROVE  sessions'[x] \in shared'
      BY DEF SharedLedger
    <2>1. CASE x = p
      BY <1>1, <1>3, <2>1
    <2>2. CASE y = p
      BY <1>1, <1>3, <2>2
    <2>3. CASE x # p /\ y # p
      BY <1>1, <1>3, <2>3 DEF WInv, SharedLedger
    <2> QED BY <2>1, <2>2, <2>3
  <1>7. PresenceLedger'
    <2> SUFFICES ASSUME NEW u \in Uids \ {0}
                 PROVE  /\ players'[u] = "Online" /\ u \notin abandoned' =>
                              \E y \in Pointers : sessions'[y] = u
                        /\ (\E y \in Pointers : sessions'[y] = u) /\ u \notin shared' =>
                              players'[u] = "Online"
      BY DEF PresenceLedger
    <2>1. CASE u = m.uid
      BY <2>1, <1>3, <1>4
    <2>2. CASE u # m.uid
      <3>1. /\ players[u] = "Online" /\ u \notin abandoned =>
                  \E y \in Pointers : sessions[y] = u
            /\ (\E y \in Pointers : sessions[y] = u) /\ u \notin shared =>
                  players[u] = "Online"
        BY DEF WInv, PresenceLedger
      <3>2. players'[u] = players[u]
        BY <2>2, <1>4
      <3>3. u \notin abandoned' => u \notin abandoned /\ u # sessions[p]
        BY <2>2, <1>1
      <3>4. (\E y \in Pointers : sessions'[y] = u) => (\E y \in Pointers : sessions[y] = u)
        BY <2>2, <1>3
      <3>5. u # sessions[p] /\ (\E y \in Pointers : sessions[y] = u) =>
               \E y \in Pointers : sessions'[y] = u
        BY <1>3
      <3>6. u \notin shared' => u \notin shared
        BY <1>1
      <3> QED BY <3>1, <3>2, <3>3, <3>4, <3>5, <3>6
    <2> QED BY <2>1, <2>2
  <1>8. \A u \in Uids : players[u] = "Online" => players'[u] = "Online"
    BY <1>4
  <1> QED BY <1>1, <1>5, <1>6, <1>7, <1>8 DEF WInv, NoNullSession

\* handle_hello() changes nothing but, perhaps, the life of the process.
LEMMA HelloKeeps ==
    ASSUME IInv, WInv, NEW p \in Pointers, NEW m, HandleHello(p, m), broken = "none",
           UNCHANGED <<status, outward>>, fault' = "none" => fault = "none"
    PROVE  WInv' /\ players' = players
  <1>1. broken' \in {"none", "member"} /\ UNCHANGED <<sessions, players, abandoned, shared>>
    BY DEF HandleHello, sessionVars
  <1> QED BY <1>1 DEF WInv, WanTypeOK, SessionMatchesSlot, NoNullSession, SharedLedger,
                      PresenceLedger

\* A handled packet keeps the invariant and takes nobody offline.
LEMMA HandledKeeps ==
    ASSUME IInv, WInv, broken = "none", NEW p \in Pointers, Handled(p)
    PROVE  /\ WInv'
           /\ \A u \in Uids : players[u] = "Online" => players'[u] = "Online"
  <1> USE DEF setupVars, linkVars, opVars
  <1>1. fault = "none" /\ current = p /\ UNCHANGED <<status, outward, fault>>
    BY DEF Handled, ParseHandled
  <1>2. sessions[p] # NoSession
    BY <1>1, HandlerHasSession
  <1> QED BY <1>1, <1>2, EnterKeeps, HelloKeeps DEF Handled

\* The same of a packet whose handler never gets its reply written.
LEMMA ReplyingKeeps ==
    ASSUME IInv, WInv, broken = "none", NEW p \in Pointers, Replying(p)
    PROVE  /\ WInv'
           /\ \A u \in Uids : players[u] = "Online" => players'[u] = "Online"
  <1> USE DEF setupVars, linkVars, opVars
  <1>1. fault = "none" /\ current = p /\ UNCHANGED <<status, outward>>
    BY DEF Replying, SendAborts
  <1>2. sessions[p] # NoSession
    BY <1>1, HandlerHasSession
  <1> QED BY <1>1, <1>2, EnterKeeps, HelloKeeps DEF Replying

\* The worker's other steps: a session's slot is connected and stays so.
LEMMA WorkerKeeps ==
    ASSUME IInv, WInv, broken = "none", UNCHANGED <<sessionVars, broken>>,
           Engine \/ \E p \in Pointers : WorkerOnly(p)
    PROVE  WInv'
  <1> USE DEF setupVars, linkVars, opVars, dataVars
  <1>1. TypeOK /\ UNCHANGED <<sessions, players, abandoned, shared, broken>>
    BY DEF IInv, sessionVars
  <1>2. outward' = {}
    BY DEF WInv, Engine, Open, OpenFailed, Shoot, WorkerOnly, AcceptFailed, AcceptAborts,
           PeerGone, SendAborts, ReadData, ParseDone
  <1>3. SessionMatchesSlot'
    <2> SUFFICES ASSUME fault' = "none", NEW x \in Pointers
                 PROVE  fault = "none" /\ (status'[x] = "CONNECTED" <=> status[x] = "CONNECTED")
      BY <1>1 DEF WInv, SessionMatchesSlot
    <2>1. ASSUME NEW so, NEW ops, StartAccept(status, so, ops)
          PROVE  status'[x] = "CONNECTED" <=> status[x] = "CONNECTED"
      <3>1. PICK q \in Pointers : /\ status[q] = "UNCONNECT"
                                  /\ status' = [status EXCEPT ![q] = "WAITING"]
        BY <2>1, StartAcceptPops
      <3> QED BY <3>1, <1>1, Counters
    <2>2. CASE Open
      <3>1. fault = "none"
        BY <2>2 DEF Open, IInv, OnlyListenersAccept
      <3> QED BY <2>1, <2>2, <3>1 DEF Open
    <2>3. CASE OpenFailed \/ Shoot
      BY <2>3 DEF OpenFailed, Shoot
    <2>4. ASSUME NEW p \in Pointers, AcceptFailed(p)
          PROVE  fault = "none" /\ (status'[x] = "CONNECTED" <=> status[x] = "CONNECTED")
      BY <2>1, <2>4 DEF AcceptFailed, Idle
    <2>5. ASSUME NEW p \in Pointers,
                 \/ AcceptAborts(p) \/ PeerGone(p) \/ SendAborts(p)
                 \/ \E new \in Batches, t \in Cuts : ReadData(p, new, t)
                 \/ ParseDone(p)
          PROVE  fault = "none" /\ (status'[x] = "CONNECTED" <=> status[x] = "CONNECTED")
      BY <2>5 DEF AcceptAborts, PeerGone, SendAborts, ReadData, Receive, ParseDone, Idle
    <2> QED BY <2>2, <2>3, <2>4, <2>5 DEF Engine, WorkerOnly
  <1> QED BY <1>1, <1>2, <1>3
          DEF WInv, WanTypeOK, NoNullSession, SharedLedger, PresenceLedger

\* The invariant holds at first: no session, nobody online.
LEMMA WInvInit == WanInit => WInv
  BY ZeroIsNoSession
     DEF WanInit, Init, PlayersInit, WInv, WanTypeOK, PlayerStates, SessionMatchesSlot,
         NoNullSession, SharedLedger, PresenceLedger

\* Every step of the server keeps the invariant.
LEMMA WInvStep == IInv /\ WInv /\ [WanNext]_allVars => WInv'
  <1> SUFFICES ASSUME IInv, WInv, [WanNext]_allVars PROVE WInv'
    OBVIOUS
  <1>1. CASE broken = "none" /\ Engine
    BY <1>1, WorkerKeeps DEF Engine
  <1>2. ASSUME NEW p \in Pointers, WanStep(p) PROVE WInv'
    <2>1. CASE WorkerOnly(p)
      BY <1>2, <2>1, WorkerKeeps DEF WanStep, WorkerOnly
    <2> QED BY <1>2, <2>1, ConnectedKeeps, DisconnectedKeeps, HandledKeeps, ReplyingKeeps
             DEF WanStep
  <1>3. CASE Stopped \/ UNCHANGED allVars
    <2>1. UNCHANGED <<sessions, players, abandoned, shared, broken, status, outward, fault>>
      BY <1>3 DEF Stopped, allVars, sessionVars, vars, setupVars, linkVars
    <2> QED BY <2>1 DEF WInv, WanTypeOK, SessionMatchesSlot, NoNullSession,
                        SharedLedger, PresenceLedger
  <1> QED BY <1>1, <1>2, <1>3 DEF WanNext

\* The invariant of the server holds throughout.
THEOREM WInvHolds == WanSpec => []WInv
  BY WInvInit, WInvStep, WanIInv, PTL DEF WanSpec

-----------------------------------------------------------------------------
\* WanTypeOK: sessions have uids, players states, and only two things break the process
\* (wan_server.h:37, player_mgr.h:36-41).
THEOREM WanTypeCorrect == WanSpec => []WanTypeOK
  <1>1. WInv => WanTypeOK
    BY DEF WInv
  <1> QED BY WInvHolds, <1>1, PTL

\* A slot has a session exactly while it is connected
\* (wan_server.cpp:28-37, 70-84).
THEOREM SessionMatchesSlotCorrect == WanSpec => []SessionMatchesSlot
  <1>1. WInv => SessionMatchesSlot
    BY DEF WInv
  <1> QED BY <1>1, WInvHolds, PTL

\* No handler ever dereferences a session that is not there
\* (wan_server.cpp:53, 78).
THEOREM NoNullSessionCorrect == WanSpec => []NoNullSession
  <1>1. WInv => NoNullSession
    BY DEF WInv
  <1> QED BY <1>1, WInvHolds, PTL

\* Who is online, and the two ways the code lets that go wrong
\* (wan_server.cpp:46-56, 76-84).
THEOREM PresenceLedgerCorrect == WanSpec => []PresenceLedger
  <1>1. WInv => PresenceLedger
    BY DEF WInv
  <1> QED BY <1>1, WInvHolds, PTL

\* A player goes offline only by the end of a connection that has its uid
\* (wan_server.cpp:76-84).
THEOREM OfflineByCloseCorrect == WanSpec => OfflineByClose
  <1>1. ASSUME IInv, WInv, [WanNext]_allVars
        PROVE  [\A u \in Uids :
                  players[u] = "Online" /\ players'[u] = "Offline" =>
                    \E p \in Pointers : /\ sessions[p] = u /\ sessions'[p] = NoSession
                                        /\ status'[p] = "UNCONNECT"]_allVars
    <2> SUFFICES ASSUME WanNext, NEW u \in Uids, players[u] = "Online",
                        players'[u] = "Offline"
                 PROVE  \E p \in Pointers : /\ sessions[p] = u /\ sessions'[p] = NoSession
                                            /\ status'[p] = "UNCONNECT"
      BY <1>1
    <2>1. CASE Engine \/ Stopped
      BY <2>1 DEF Engine, Stopped, allVars, sessionVars
    <2>2. ASSUME NEW p \in Pointers, WanStep(p), players'[u] # players[u]
          PROVE  Disconnected(p) /\ broken = "none"
      <3>1. broken = "none"
        BY <2>2 DEF WanStep
      <3>2. ~ Connected(p) /\ ~ WorkerOnly(p)
        BY <2>2 DEF Connected, AddSession, WorkerOnly, sessionVars
      <3>3. ~ Handled(p) /\ ~ Replying(p)
        BY <1>1, <3>1, HandledKeeps, ReplyingKeeps, <2>2 DEF PlayerStates
      <3> QED BY <2>2, <3>1, <3>2, <3>3 DEF WanStep
    <2>3. ASSUME NEW p \in Pointers, Disconnected(p), broken = "none"
          PROVE  /\ sessions[p] = u /\ sessions'[p] = NoSession
                 /\ status'[p] = "UNCONNECT"
      BY <1>1, <2>3, DisconnectedKeeps
    <2> QED BY <2>1, <2>2, <2>3 DEF WanNext
  <1> QED BY <1>1, WanIInv, WInvHolds, PTL DEF WanSpec, OfflineByClose
=============================================================================
