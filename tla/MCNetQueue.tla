----------------------------- MODULE MCNetQueue -----------------------------
(* A small instance of NetQueue for TLC. *)
EXTENDS NetQueue
=============================================================================
