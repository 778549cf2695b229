---------------------------- MODULE MCNetWorker ----------------------------
(* Small instances of NetWorker for TLC. *)
EXTENDS NetWorker, TLC

\* The slots are interchangeable: pop_pointer() may take any valid one.
SlotSymmetry == Permutations(Pointers)
=============================================================================
