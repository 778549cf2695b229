----------------------------- MODULE PlayerMgr -----------------------------
(***************************************************************************)
(* player_mgr (server/player_mgr.cpp): the players the server has seen and *)
(* whether each is online.  A player is never removed.  A uid travels as   *)
(* int32 -> uint32 -> int32, which gives it back unchanged.                *)
(***************************************************************************)
CONSTANT Uids       \* the uids clients enter with

VARIABLE players    \* "absent", or the m_state of the player with that uid

PlayerStates == {"absent", "Online", "Offline"}

PlayersInit == players = [u \in Uids |-> "absent"]

\* enter() makes the player or brings it back online.
Enter(u) == players' = [players EXCEPT ![u] = "Online"]

\* A faulty variant of leave(), not part of the specification.
M_LeaveForgetsState(u) == players' = [players EXCEPT ![u] = "None"]

\* leave() does nothing for a uid it does not know.
Leave(u) ==
    players' = IF players[u] = "absent" THEN players
               ELSE [players EXCEPT ![u] = "Offline"]
=============================================================================
