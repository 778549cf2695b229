------------------------------ MODULE MCNetMgr ------------------------------
(* A small instance of NetMgr for TLC. *)
EXTENDS NetMgr

TwoConnections == {1, 2}
AllMessages == {}
=============================================================================
