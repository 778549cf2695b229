---------------------------- MODULE MCWanServer ----------------------------
(* Small instances of WanServer for TLC. *)
EXTENDS WanServer, TLC

SlotSymmetry == Permutations(Pointers)

Enter1 == [cmd |-> "C2S_Enter", uid |-> 1]
Enter2 == [cmd |-> "C2S_Enter", uid |-> 2]
Enter0 == [cmd |-> "C2S_Enter", uid |-> 0]
HelloEmpty == [cmd |-> "C2S_Hello", members |-> 0]
Unknown == [cmd |-> "unknown"]

\* Clients that log in and out and change uids.
LoginPackets == {Enter1, Enter2}
\* One real player, the uid 0, a message without members, one that is refused.
EdgePackets == {Enter0, Enter1, HelloEmpty, Unknown}
EdgeRefused == {Unknown}
=============================================================================
