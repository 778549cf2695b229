--------------------------- MODULE FramingWorker ---------------------------
(***************************************************************************)
(* That NetWorker's packets stand for the bytes of Framing: each step on   *)
(* the bytes is, seen through Split and StumpOf, a step of NetWorker for a *)
(* program with one outward link, but for a memcpy that does harm.         *)
(***************************************************************************)
EXTENDS Framing

Slot == "slot"

\* Whole(b): the complete packets of b; Stump(b): the incomplete one behind.
Verdict(b) == [msg |-> IF First(b) \in Accepts THEN "ok" ELSE "bad",
               by  |-> b[1].by]

Split(b) ==
    LET f[n \in 0..Len(b)] ==   \* b from its byte n + 1 on
          LET r == SubSeq(b, n + 1, Len(b))
          IN  IF Complete(r)
              THEN LET s == f[n + PackageSize(r)]
                   IN  [whole |-> <<Verdict(r)>> \o s.whole, stump |-> s.stump]
              ELSE [whole |-> <<>>, stump |-> r]
    IN  f[0]

StumpOf(r) ==
    IF r = <<>> THEN [kind |-> "none", by |-> 0]
    ELSE [kind |-> IF Len(r) < HeaderSize THEN "stub" ELSE "part", by |-> r[1].by]

On(v) == [p \in {Slot} |-> v]
One(b) == On(IF b THEN 1 ELSE 0)

StatusOf ==
    CASE link = "free" -> "UNCONNECT"
      [] link = "connected" -> "CONNECTED"
      [] OTHER -> "WAITING"

Worker == INSTANCE NetWorker WITH
    Pointers <- {Slot}, NoPointer <- "none", Bullets <- 1, Listens <- FALSE,
    Ws <- FALSE, Packets <- {"ok", "bad"}, Refused <- {"bad"},
    Tails <- {"stub", "part"}, Abrupt <- TRUE,
    MaxBatch <- MaxRecv \div HeaderSize,
    phase <- IF link \in {"free", "pushed"} THEN "setup" ELSE "run",
    listening <- FALSE,
    outward <- IF link = "free" THEN {} ELSE {Slot},
    status <- On(StatusOf),
    sock <- IF link \in {"connecting", "connected"} THEN {Slot} ELSE {},
    stream <- On(0),
    epoch <- On(life),
    acceptOps <- On(0),
    connectOps <- One(link = "connecting"),
    waitOps <- One(link = "waiting"),
    readOps <- One(link = "connected" /\ ~ parsing),
    current <- IF parsing THEN Slot ELSE "none",
    buffer <- On(Split(buf).whole),
    tail <- On(StumpOf(Split(buf).stump)),
    gone <- IF gone THEN {Slot} ELSE {},
    lost <- {},
    short <- IF short THEN {Slot} ELSE {},
    fault <- "none"

\* memcpy() gives the bytes behind a handled packet another order.
Garbled == Handle /\ buf' # Behind(buf)

\* The byte level implements the packet level: whatever is sent, however reads
\* cut it, whatever an earlier connection left in the buffer, and again after an
\* overlapping memcpy() has done harm, which is the only step of the bytes that no
\* step of packets stands for (net_worker.hpp:130-208).
PacketsStandForBytes ==
    Worker!Init /\ [][[Worker!Next]_(Worker!vars) \/ Garbled]_vars
=============================================================================
