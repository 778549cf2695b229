-------------------------- MODULE MCAccountServer --------------------------
(* A small instance of AccountServer for TLC. *)
EXTENDS AccountServer
=============================================================================
