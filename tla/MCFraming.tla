----------------------------- MODULE MCFraming -----------------------------
(* A small instance of FramingWorker for TLC: bytes 0 and 1, words 0..3. *)
EXTENDS FramingWorker

Msg(i, b) == [id |-> i, body |-> b]

\* An empty body, the longest a header can announce, one that is cut from 9 bytes to 1,
\* and a message nobody handles.
SomeMessages == {Msg(1, <<>>), Msg(1, <<0, 1, 1>>), Msg(3, <<1, 0, 0, 1, 1, 0, 1, 1, 0>>), Msg(2, <<1>>)}

\* What parse_msg() accepts: the bodies of messages 1 and 3.
AcceptedPackets == {Msg(i, b) : i \in {1, 3}, b \in UNION {[1..n -> Bytes] : n \in 0..3}}
=============================================================================
