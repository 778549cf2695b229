-------------------------- MODULE NetWorker_proofs --------------------------
(***************************************************************************)
(* Theorems about NetWorker, for any number of slots, bullets, packets and *)
(* connections.                                                            *)
(*                                                                         *)
(* OneContinuation, AcceptChain and PoolLedger are not inductive by        *)
(* themselves.  IInv joins them with what they lean on: nothing is         *)
(* connected before the loop runs, a slot whose accept failed stays        *)
(* WAITING and inbound, and only a listening worker accepts.  The results  *)
(* on sockets, streams and buffers are then inductive relative to IInv.    *)
(***************************************************************************)
EXTENDS NetWorker, TLAPS

\* No slot is connected before io_context::run().
NoneConnectedYet ==
    phase # "run" => \A p \in Pointers : status[p] # "CONNECTED"

\* A slot whose accept failed stays WAITING and is never an outward one.
LostStaysWaiting ==
    fault = "none" => \A p \in lost : status[p] = "WAITING" /\ p \notin outward

\* Before open() nothing listens and nothing has failed; without a listening
\* socket no accept is outstanding.
OnlyListenersAccept ==
    /\ phase = "setup" => ~listening /\ fault = "none"
    /\ ~listening /\ fault = "none" => \A p \in Pointers : acceptOps[p] = 0

\* The inductive invariant.
IInv ==
    /\ TypeOK
    /\ OneContinuation /\ NoneConnectedYet /\ LostStaysWaiting
    /\ OnlyListenersAccept /\ AcceptChain /\ PoolLedger

-----------------------------------------------------------------------------
\* The types.  A batch is a sequence of packets, so what Receive leaves in a
\* buffer is a sequence of packets with the life each belongs to.
LEMMA BatchIsSeq ==
    ASSUME NEW new \in Batches PROVE new \in Seq(Packets)
  <1>1. PICK n \in 0..MaxBatch : new \in [1..n -> Packets]
    BY DEF Batches
  <1>2. n \in Nat
    BY <1>1, NetWorkerAssumption
  <1> QED BY <1>1, <1>2

\* The packets a read completes, each with its life, are entries of a buffer.
LEMMA MarkedType ==
    ASSUME TypeOK, NEW p \in Pointers, NEW new \in Batches
    PROVE  Marked(p, new) \in Seq(Entries)
  <1> DEFINE Mark(i) == [msg |-> new[i],
               by |-> IF i = 1 /\ tail[p].kind # "none" THEN tail[p].by ELSE epoch[p]]
  <1>1. new \in Seq(Packets)
    BY BatchIsSeq
  <1>2. \A i \in DOMAIN new : new[i] \in Packets
    BY <1>1
  <1>3. tail[p].by \in Nat /\ epoch[p] \in Nat
    BY DEF TypeOK, Stumps
  <1>4. \A i \in DOMAIN new : Mark(i) \in Entries
    BY <1>2, <1>3 DEF Entries
  <1>5. DOMAIN new = 1..Len(new) /\ Len(new) \in Nat
    BY <1>1
  <1>6. Marked(p, new) = [i \in DOMAIN new |-> Mark(i)]
    BY DEF Marked
  <1> HIDE DEF Mark
  <1> QED BY <1>4, <1>5, <1>6

\* What is buffered after a read is again a sequence of entries.
LEMMA JoinedType ==
    ASSUME TypeOK, NEW p \in Pointers, NEW new \in Batches
    PROVE  Joined(p, new) \in Seq(Entries)
  <1>1. buffer[p] \in Seq(Entries)
    BY DEF TypeOK
  <1> QED BY <1>1, MarkedType DEF Joined

\* Counting an operation up or down leaves the counters natural numbers.
LEMMA CountUp ==
    ASSUME NEW f \in [Pointers -> Nat], NEW q \in Pointers
    PROVE  [f EXCEPT ![q] = @ + 1] \in [Pointers -> Nat]
  OBVIOUS

\* And counting one down that was there.
LEMMA CountDown ==
    ASSUME NEW f \in [Pointers -> Nat], NEW q \in Pointers, f[q] > 0
    PROVE  [f EXCEPT ![q] = @ - 1] \in [Pointers -> Nat]
  OBVIOUS

\* start_accept() keeps the types of what it writes, called on typed arguments.
LEMMA StartAcceptType ==
    ASSUME TypeOK,
           NEW st \in [Pointers -> Statuses], NEW so \in SUBSET Pointers,
           NEW ops \in [Pointers -> Nat], StartAccept(st, so, ops)
    PROVE  /\ status' \in [Pointers -> Statuses] /\ sock' \in SUBSET Pointers
           /\ acceptOps' \in [Pointers -> Nat] /\ fault' \in Faults
  <1>1. CASE Valid(st) = {}
    BY <1>1 DEF StartAccept, Faults
  <1>2. CASE Valid(st) # {}
    <2>1. PICK q \in Pointers :
             /\ status' = [st EXCEPT ![q] = "WAITING"]
             /\ sock' = so \ {q}
             /\ acceptOps' = [ops EXCEPT ![q] = @ + 1]
             /\ UNCHANGED fault
      BY <1>2 DEF StartAccept, Valid
    <2>2. status' \in [Pointers -> Statuses]
      BY <2>1 DEF Statuses
    <2>3. acceptOps' \in [Pointers -> Nat]
      BY <2>1, CountUp
    <2>4. sock' \in SUBSET Pointers
      BY <2>1
    <2>5. fault' \in Faults
      BY <2>1 DEF TypeOK
    <2> QED BY <2>2, <2>3, <2>4, <2>5
  <1> QED BY <1>1, <1>2

\* close() keeps the types of what it writes, on either branch.
LEMMA CloseType ==
    ASSUME TypeOK, NEW p \in Pointers, Close(p)
    PROVE  /\ status' \in [Pointers -> Statuses] /\ sock' \in SUBSET Pointers
           /\ stream' \in [Pointers -> Nat] /\ waitOps' \in [Pointers -> Nat]
  <1>1. /\ status \in [Pointers -> Statuses] /\ sock \in SUBSET Pointers
        /\ stream \in [Pointers -> Nat] /\ waitOps \in [Pointers -> Nat]
    BY DEF TypeOK
  <1>2. CASE p \in outward
    <2>1. /\ status' = [status EXCEPT ![p] = "WAITING"] /\ sock' = sock \ {p}
          /\ waitOps' = [waitOps EXCEPT ![p] = 1] /\ stream' = stream
      BY <1>2 DEF Close, CloseOutward
    <2>2. waitOps' \in [Pointers -> Nat]
      BY <1>1, <2>1
    <2>3. status' \in [Pointers -> Statuses]
      BY <1>1, <2>1 DEF Statuses
    <2> QED BY <1>1, <2>1, <2>2, <2>3
  <1>3. CASE p \notin outward
    <2>1. /\ status' = [status EXCEPT ![p] = "UNCONNECT"] /\ sock' = sock \ {p}
          /\ stream' = IF p \in sock THEN [stream EXCEPT ![p] = 0] ELSE stream
          /\ waitOps' = waitOps
      BY <1>3 DEF Close, CloseInbound
    <2>2. stream' \in [Pointers -> Nat]
      BY <1>1, <2>1
    <2>3. status' \in [Pointers -> Statuses]
      BY <1>1, <2>1 DEF Statuses
    <2> QED BY <1>1, <2>1, <2>2, <2>3
  <1> QED BY <1>2, <1>3

\* Starting a connection keeps the types of what it counts.
LEMMA BeginLifeType ==
    ASSUME TypeOK, NEW p \in Pointers, BeginLife(p)
    PROVE  epoch' \in [Pointers -> Nat] /\ readOps' \in [Pointers -> Nat]
  <1>1. /\ epoch \in [Pointers -> Nat] /\ readOps \in [Pointers -> Nat]
        /\ epoch' = [epoch EXCEPT ![p] = @ + 1]
        /\ readOps' = [readOps EXCEPT ![p] = @ + 1]
    BY DEF TypeOK, BeginLife
  <1> QED BY <1>1, CountUp

\* A read keeps the types of the buffer and of what is left over.
LEMMA ReceiveType ==
    ASSUME TypeOK, NEW p \in Pointers, NEW new \in Batches, NEW t \in Cuts,
           Receive(p, new, t)
    PROVE  /\ readOps' \in [Pointers -> Nat]
           /\ buffer' \in [Pointers -> Seq(Entries)]
           /\ tail' \in [Pointers -> Stumps]
  <1>1. readOps' \in [Pointers -> Nat]
    <2>1. /\ readOps[p] > 0 /\ readOps \in [Pointers -> Nat]
          /\ readOps' = [readOps EXCEPT ![p] = @ - 1]
      BY DEF TypeOK, Receive
    <2> QED BY <2>1, CountDown
  <1>2. buffer' \in [Pointers -> Seq(Entries)]
    BY JoinedType DEF TypeOK, Receive
  <1>3. LeftOver(p, new, t) \in Stumps
    <2>1. t \in {"none", "stub", "part"}
      BY NetWorkerAssumption DEF Cuts
    <2>2. tail[p].by \in Nat /\ epoch[p] \in Nat
      BY DEF TypeOK, Stumps
    <2> QED BY <2>1, <2>2 DEF LeftOver, NoTail, Stumps
  <1>4. tail' \in [Pointers -> Stumps]
    BY <1>3 DEF TypeOK, Receive
  <1> QED BY <1>1, <1>2, <1>4

\* The initial state is typed.
LEMMA TypeInit == Init => TypeOK
  <1> SUFFICES ASSUME Init PROVE TypeOK
    OBVIOUS
  <1>1. <<>> \in Seq(Entries)
    OBVIOUS
  <1>2. NoTail \in Stumps
    BY DEF NoTail, Stumps
  <1> QED BY <1>1, <1>2 DEF Init, TypeOK, Statuses, Faults

\* Every step keeps the types.
LEMMA TypeStep == TypeOK /\ [Next]_vars => TypeOK'
  <1> SUFFICES ASSUME TypeOK, [Next]_vars PROVE TypeOK'
    OBVIOUS
  <1> USE DEF setupVars, linkVars, opVars, dataVars
  <1>1. ASSUME NEW p \in Pointers, PushBullet(p) PROVE TypeOK'
    BY <1>1 DEF PushBullet, TypeOK, Statuses
  <1>2. CASE Open
    <2>1. /\ status' \in [Pointers -> Statuses] /\ sock' \in SUBSET Pointers
          /\ acceptOps' \in [Pointers -> Nat] /\ fault' \in Faults
      BY <1>2, StartAcceptType DEF Open, TypeOK
    <2> QED BY <1>2, <2>1 DEF Open, TypeOK
  <1>3. CASE OpenFailed
    BY <1>3 DEF OpenFailed, TypeOK
  <1>4. CASE Shoot
    <2>1. connectOps \in [Pointers -> Nat]
      BY DEF TypeOK
    <2>2. connectOps' = [p \in Pointers |->
                            connectOps[p] + (IF p \in outward THEN 1 ELSE 0)]
      BY <1>4 DEF Shoot
    <2>3. connectOps' \in [Pointers -> Nat]
      BY <2>1, <2>2
    <2> QED BY <1>4, <2>3 DEF Shoot, TypeOK
  <1>5. ASSUME NEW p \in Pointers, AcceptOk(p) PROVE TypeOK'
    <2> DEFINE st == [status EXCEPT ![p] = "CONNECTED"]
               so == IF Ws THEN sock \ {p} ELSE sock \cup {p}
               ops == [acceptOps EXCEPT ![p] = @ - 1]
    <2>1. st \in [Pointers -> Statuses] /\ so \in SUBSET Pointers
      BY DEF TypeOK, Statuses
    <2>2. ops \in [Pointers -> Nat]
      <3>1. acceptOps \in [Pointers -> Nat] /\ acceptOps[p] > 0
        BY <1>5 DEF AcceptOk, TypeOK
      <3> QED BY <3>1, CountDown
    <2>3. StartAccept(st, so, ops)
      BY <1>5 DEF AcceptOk
    <2> HIDE DEF st, so, ops
    <2>4. /\ status' \in [Pointers -> Statuses] /\ sock' \in SUBSET Pointers
          /\ acceptOps' \in [Pointers -> Nat] /\ fault' \in Faults
      BY <2>1, <2>2, <2>3, StartAcceptType
    <2>5. /\ stream \in [Pointers -> Nat] /\ epoch \in [Pointers -> Nat]
          /\ stream' = IF Ws THEN [stream EXCEPT ![p] = epoch[p] + 1] ELSE stream
      BY <1>5 DEF AcceptOk, TypeOK
    <2>6. epoch[p] + 1 \in Nat
      BY <2>5
    <2>7. stream' \in [Pointers -> Nat]
      BY <2>5, <2>6
    <2>8. epoch' \in [Pointers -> Nat] /\ readOps' \in [Pointers -> Nat]
      BY <1>5, BeginLifeType DEF AcceptOk
    <2> QED BY <1>5, <2>4, <2>7, <2>8 DEF AcceptOk, BeginLife, TypeOK
  <1>6. ASSUME NEW p \in Pointers, AcceptFailed(p) PROVE TypeOK'
    <2> DEFINE ops == [acceptOps EXCEPT ![p] = @ - 1]
    <2>1. ops \in [Pointers -> Nat]
      <3>1. acceptOps \in [Pointers -> Nat] /\ acceptOps[p] > 0
        BY <1>6 DEF AcceptFailed, TypeOK
      <3> QED BY <3>1, CountDown
    <2>2. StartAccept(status, sock, ops)
      BY <1>6 DEF AcceptFailed
    <2> HIDE DEF ops
    <2>3. /\ status' \in [Pointers -> Statuses] /\ sock' \in SUBSET Pointers
          /\ acceptOps' \in [Pointers -> Nat] /\ fault' \in Faults
      BY <2>1, <2>2, StartAcceptType DEF TypeOK
    <2> QED BY <1>6, <2>3 DEF AcceptFailed, TypeOK
  <1>7. ASSUME NEW p \in Pointers, AcceptAborts(p) PROVE TypeOK'
    BY <1>7 DEF AcceptAborts, TypeOK, Faults
  <1>8. ASSUME NEW p \in Pointers, ConnectOk(p) PROVE TypeOK'
    <2>1. connectOps' \in [Pointers -> Nat]
      <3>1. /\ connectOps \in [Pointers -> Nat] /\ connectOps[p] > 0
            /\ connectOps' = [connectOps EXCEPT ![p] = @ - 1]
        BY <1>8 DEF ConnectOk, TypeOK
      <3> QED BY <3>1, CountDown
    <2>2. epoch' \in [Pointers -> Nat] /\ readOps' \in [Pointers -> Nat]
      BY <1>8, BeginLifeType DEF ConnectOk
    <2>3. status' \in [Pointers -> Statuses]
      BY <1>8 DEF ConnectOk, TypeOK, Statuses
    <2> QED BY <1>8, <2>1, <2>2, <2>3 DEF ConnectOk, BeginLife, TypeOK
  <1>9. ASSUME NEW p \in Pointers, ConnectFailed(p) PROVE TypeOK'
    <2>1. connectOps' \in [Pointers -> Nat]
      <3>1. /\ connectOps \in [Pointers -> Nat] /\ connectOps[p] > 0
            /\ connectOps' = [connectOps EXCEPT ![p] = @ - 1]
        BY <1>9 DEF ConnectFailed, TypeOK
      <3> QED BY <3>1, CountDown
    <2>2. /\ status' \in [Pointers -> Statuses] /\ sock' \in SUBSET Pointers
          /\ stream' \in [Pointers -> Nat] /\ waitOps' \in [Pointers -> Nat]
      BY <1>9, CloseType DEF ConnectFailed
    <2> QED BY <1>9, <2>1, <2>2 DEF ConnectFailed, TypeOK
  <1>10. ASSUME NEW p \in Pointers, HandleReconnect(p) PROVE TypeOK'
    <2>1. /\ connectOps \in [Pointers -> Nat] /\ waitOps \in [Pointers -> Nat]
          /\ connectOps' = [connectOps EXCEPT ![p] = @ + 1]
          /\ waitOps' = [waitOps EXCEPT ![p] = 0]
      BY <1>10 DEF HandleReconnect, TypeOK
    <2>2. connectOps' \in [Pointers -> Nat] /\ waitOps' \in [Pointers -> Nat]
      BY <2>1, CountUp
    <2> QED BY <1>10, <2>2 DEF HandleReconnect, TypeOK
  <1>11. ASSUME NEW p \in Pointers, PeerGone(p) PROVE TypeOK'
    BY <1>11 DEF PeerGone, TypeOK
  <1>12. ASSUME NEW p \in Pointers, ReadFailed(p) PROVE TypeOK'
    <2>1. readOps' \in [Pointers -> Nat]
      <3>1. /\ readOps \in [Pointers -> Nat] /\ readOps[p] > 0
            /\ readOps' = [readOps EXCEPT ![p] = @ - 1]
        BY <1>12 DEF ReadFailed, TypeOK
      <3> QED BY <3>1, CountDown
    <2>2. /\ status' \in [Pointers -> Statuses] /\ sock' \in SUBSET Pointers
          /\ stream' \in [Pointers -> Nat] /\ waitOps' \in [Pointers -> Nat]
      BY <1>12, CloseType DEF ReadFailed
    <2> QED BY <1>12, <2>1, <2>2 DEF ReadFailed, TypeOK
  <1>13. ASSUME NEW p \in Pointers, NEW new \in Batches, NEW t \in Cuts,
                ReadData(p, new, t)
         PROVE TypeOK'
    <2>1. /\ readOps' \in [Pointers -> Nat]
          /\ buffer' \in [Pointers -> Seq(Entries)]
          /\ tail' \in [Pointers -> Stumps]
      BY <1>13, ReceiveType DEF ReadData
    <2> QED BY <1>13, <2>1 DEF ReadData, TypeOK
  <1>14. ASSUME NEW p \in Pointers, NEW new \in Batches, NEW t \in Cuts,
                ReadShort(p, new, t)
         PROVE TypeOK'
    <2>1. /\ readOps' \in [Pointers -> Nat]
          /\ buffer' \in [Pointers -> Seq(Entries)]
          /\ tail' \in [Pointers -> Stumps]
      BY <1>14, ReceiveType DEF ReadShort
    <2>2. /\ status' \in [Pointers -> Statuses] /\ sock' \in SUBSET Pointers
          /\ stream' \in [Pointers -> Nat] /\ waitOps' \in [Pointers -> Nat]
      BY <1>14, CloseType DEF ReadShort
    <2> QED BY <1>14, <2>1, <2>2 DEF ReadShort, TypeOK
  <1>15. ASSUME NEW p \in Pointers, ParseHandled(p) PROVE TypeOK'
    <2>1. buffer[p] \in Seq(Entries) /\ buffer[p] # <<>>
      BY <1>15 DEF ParseHandled, TypeOK
    <2>2. Tail(buffer[p]) \in Seq(Entries)
      BY <2>1
    <2>3. buffer' \in [Pointers -> Seq(Entries)]
      BY <1>15, <2>2 DEF ParseHandled, TypeOK
    <2> QED BY <1>15, <2>3 DEF ParseHandled, TypeOK
  <1>16. ASSUME NEW p \in Pointers, ParseRefused(p) PROVE TypeOK'
    <2>1. /\ status' \in [Pointers -> Statuses] /\ sock' \in SUBSET Pointers
          /\ stream' \in [Pointers -> Nat] /\ waitOps' \in [Pointers -> Nat]
      BY <1>16, CloseType DEF ParseRefused
    <2> QED BY <1>16, <2>1 DEF ParseRefused, TypeOK
  <1>17. ASSUME NEW p \in Pointers, ParseDone(p) PROVE TypeOK'
    <2>1. readOps \in [Pointers -> Nat] /\ readOps' = [readOps EXCEPT ![p] = @ + 1]
      BY <1>17 DEF ParseDone, TypeOK
    <2>2. readOps' \in [Pointers -> Nat]
      BY <2>1, CountUp
    <2> QED BY <1>17, <2>2 DEF ParseDone, TypeOK
  <1>18. ASSUME NEW p \in Pointers, SendAborts(p) PROVE TypeOK'
    BY <1>18 DEF SendAborts, TypeOK, Faults
  <1>19. CASE UNCHANGED vars
    BY <1>19 DEF vars, TypeOK
  <1> QED
    BY <1>1, <1>2, <1>3, <1>4, <1>5, <1>6, <1>7, <1>8, <1>9, <1>10, <1>11, <1>12,
       <1>13, <1>14, <1>15, <1>16, <1>17, <1>18, <1>19
    DEF Next, Setup, Reading, Rest
-----------------------------------------------------------------------------
\* One continuation per slot.
Slot(x) ==
    FreeSlotIdle(x) /\ ConnectedSlotReads(x) /\ LinkRetries(x) /\ WaitingSlotAccepts(x)

\* The part of TypeOK the slot arguments need, without the buffers.
LEMMA Counters ==
    ASSUME TypeOK
    PROVE  /\ status \in [Pointers -> Statuses]
           /\ acceptOps \in [Pointers -> Nat] /\ connectOps \in [Pointers -> Nat]
           /\ waitOps \in [Pointers -> Nat] /\ readOps \in [Pointers -> Nat]
           /\ current \in Pointers \cup {NoPointer} /\ outward \subseteq Pointers
           /\ lost \subseteq Pointers /\ listening \in BOOLEAN
           /\ phase \in {"setup", "opened", "run"}
  BY DEF TypeOK

\* What start_accept() does when the process survives it.
LEMMA StartAcceptPops ==
    ASSUME NEW st, NEW so, NEW ops, StartAccept(st, so, ops), fault' # "pool"
    PROVE  \E q \in Pointers :
              /\ st[q] = "UNCONNECT"
              /\ status' = [st EXCEPT ![q] = "WAITING"]
              /\ acceptOps' = [ops EXCEPT ![q] = @ + 1]
              /\ fault' = fault
  BY DEF StartAccept, Valid

\* Every step gives each slot the one operation its new status calls for.  Steps
\* <1>c, <1>d and <1>e are what the three ways of closing have in common.
LEMMA ContinuationStep == IInv /\ [Next]_vars => OneContinuation'
  <1> SUFFICES ASSUME IInv, [Next]_vars, fault' = "none", NEW x \in Pointers
               PROVE  Slot(x)'
    BY DEF OneContinuation, Slot
  <1> USE DEF setupVars, linkVars, opVars, dataVars
  <1>a. TypeOK /\ NoneConnectedYet /\ LostStaysWaiting /\ OnlyListenersAccept
    BY DEF IInv
  <1>b. fault = "none" => \A y \in Pointers : Slot(y)
    BY DEF IInv, OneContinuation, Slot
  <1> USE DEF Slot, FreeSlotIdle, ConnectedSlotReads, LinkRetries, WaitingSlotAccepts
  <1>n. NoPointer \notin Pointers
    BY NetWorkerAssumption
  <1>1. ASSUME NEW p \in Pointers, PushBullet(p) PROVE Slot(x)'
    <2>1. fault = "none" /\ status[p] = "UNCONNECT"
      BY <1>1 DEF PushBullet, Valid
    <2> QED BY <1>1, <1>a, <1>b, <2>1, Counters DEF PushBullet
  <1>2. CASE Open
    <2>1. PICK q \in Pointers :
             /\ status[q] = "UNCONNECT"
             /\ status' = [status EXCEPT ![q] = "WAITING"]
             /\ acceptOps' = [acceptOps EXCEPT ![q] = @ + 1]
             /\ fault' = fault
      BY <1>2, StartAcceptPops DEF Open
    <2>2. q \notin lost
      BY <1>a, <2>1 DEF LostStaysWaiting
    <2>3. phase = "setup" /\ phase' = "opened"
      BY <1>2 DEF Open
    <2> QED BY <1>2, <1>b, <1>a, <2>1, <2>2, <2>3, Counters DEF Open
  <1>3. CASE OpenFailed
    BY <1>3, <1>b, Counters, <1>a DEF OpenFailed
  <1>4. CASE Shoot
    <2>1. phase # "run" /\ phase' = "run"
      BY <1>4 DEF Shoot
    <2>2. \A y \in Pointers : status[y] # "CONNECTED"
      BY <1>a, <2>1 DEF NoneConnectedYet
    <2>3. connectOps'[x] = connectOps[x] + (IF x \in outward THEN 1 ELSE 0)
      BY <1>4 DEF Shoot
    <2> QED BY <1>4, <1>b, <2>1, <2>2, <2>3, Counters, <1>a DEF Shoot
  <1>5. ASSUME NEW p \in Pointers, AcceptOk(p) PROVE Slot(x)'
    <2>1. PICK q \in Pointers :
             /\ [status EXCEPT ![p] = "CONNECTED"][q] = "UNCONNECT"
             /\ status' = [[status EXCEPT ![p] = "CONNECTED"] EXCEPT ![q] = "WAITING"]
             /\ acceptOps' = [[acceptOps EXCEPT ![p] = @ - 1] EXCEPT ![q] = @ + 1]
             /\ fault' = fault
      BY <1>5, StartAcceptPops DEF AcceptOk
    <2>2. q # p /\ status[q] = "UNCONNECT"
      BY <2>1, <1>a, Counters
    <2>3. q \notin lost
      BY <1>a, <2>1, <2>2 DEF LostStaysWaiting
    <2>4. /\ fault = "none" /\ current = NoPointer /\ phase = "run"
          /\ acceptOps[p] > 0
      BY <1>5 DEF AcceptOk, Idle
    <2>5. Slot(p) /\ Slot(q) /\ Slot(x)
      BY <1>b, <2>4
    <2>6. status[p] = "WAITING" /\ acceptOps[p] = 1 /\ p \notin outward
      BY <2>5, <2>4, <1>a, Counters DEF Statuses
    <2>7. readOps' = [readOps EXCEPT ![p] = @ + 1]
      BY <1>5 DEF AcceptOk, BeginLife
    <2>8. UNCHANGED <<phase, outward, lost, connectOps, waitOps, current>>
      BY <1>5 DEF AcceptOk
    <2> QED BY <1>n, <1>a, <2>1, <2>2, <2>3, <2>4, <2>5, <2>6, <2>7, <2>8, Counters
  <1>6. ASSUME NEW p \in Pointers, AcceptFailed(p) PROVE Slot(x)'
    <2>1. PICK q \in Pointers :
             /\ status[q] = "UNCONNECT"
             /\ status' = [status EXCEPT ![q] = "WAITING"]
             /\ acceptOps' = [[acceptOps EXCEPT ![p] = @ - 1] EXCEPT ![q] = @ + 1]
             /\ fault' = fault
      BY <1>6, StartAcceptPops DEF AcceptFailed
    <2>2. /\ fault = "none" /\ current = NoPointer /\ phase = "run"
          /\ acceptOps[p] > 0 /\ lost' = lost \cup {p}
      BY <1>6 DEF AcceptFailed, Idle
    <2>3. Slot(p) /\ Slot(q) /\ Slot(x)
      BY <1>b, <2>2
    <2>4. status[p] = "WAITING" /\ acceptOps[p] = 1 /\ p \notin outward
      BY <2>3, <2>2, <1>a, Counters DEF Statuses
    <2>5. q # p /\ q \notin lost
      BY <2>1, <2>4, <1>a, <2>2 DEF LostStaysWaiting
    <2>6. UNCHANGED <<phase, outward, readOps, connectOps, waitOps, current>>
      BY <1>6 DEF AcceptFailed
    <2> QED BY <1>n, <1>a, <2>1, <2>2, <2>3, <2>4, <2>5, <2>6, Counters
  <1>7. ASSUME NEW p \in Pointers, AcceptAborts(p) PROVE Slot(x)'
    BY <1>7 DEF AcceptAborts
  <1>8. ASSUME NEW p \in Pointers, ConnectOk(p) PROVE Slot(x)'
    <2>1. /\ fault = "none" /\ current = NoPointer /\ phase = "run"
          /\ connectOps[p] > 0
      BY <1>8 DEF ConnectOk, Idle
    <2>2. Slot(p) /\ Slot(x)
      BY <1>b, <2>1
    <2>3. /\ status[p] = "WAITING" /\ p \in outward
          /\ connectOps[p] = 1 /\ waitOps[p] = 0
      BY <2>1, <2>2, <1>a, Counters DEF Statuses
    <2> QED BY <1>8, <1>n, <1>a, <2>1, <2>2, <2>3, Counters DEF ConnectOk, BeginLife
  <1>9. ASSUME NEW p \in Pointers, ConnectFailed(p) PROVE Slot(x)'
    <2>1. /\ fault = "none" /\ current = NoPointer /\ phase = "run"
          /\ connectOps[p] > 0
      BY <1>9 DEF ConnectFailed, Idle
    <2>2. Slot(p) /\ Slot(x)
      BY <1>b, <2>1
    <2>3. /\ status[p] = "WAITING" /\ p \in outward
          /\ connectOps[p] = 1 /\ waitOps[p] = 0
      BY <2>1, <2>2, <1>a, Counters DEF Statuses
    <2> QED BY <1>9, <1>n, <1>a, <2>1, <2>2, <2>3, Counters
            DEF ConnectFailed, Close, CloseOutward
  <1>10. ASSUME NEW p \in Pointers, HandleReconnect(p) PROVE Slot(x)'
    <2>1. /\ fault = "none" /\ current = NoPointer /\ phase = "run"
          /\ waitOps[p] > 0
      BY <1>10 DEF HandleReconnect, Idle
    <2>2. Slot(p) /\ Slot(x)
      BY <1>b, <2>1
    <2>3. /\ status[p] = "WAITING" /\ p \in outward
          /\ connectOps[p] = 0 /\ waitOps[p] = 1
      BY <2>1, <2>2, <1>a, Counters DEF Statuses
    <2> QED BY <1>10, <1>n, <1>a, <2>1, <2>2, <2>3, Counters DEF HandleReconnect
  <1>11. ASSUME NEW p \in Pointers, PeerGone(p) PROVE Slot(x)'
    BY <1>11, <1>b DEF PeerGone
  <1>c. ASSUME NEW p \in Pointers, fault = "none", phase = "run", phase' = "run",
               status[p] = "CONNECTED", Close(p), current' = NoPointer,
               IF current = p THEN readOps' = readOps
                 ELSE current = NoPointer /\ readOps' = [readOps EXCEPT ![p] = @ - 1],
               UNCHANGED <<outward, lost, acceptOps, connectOps>>
        PROVE  Slot(x)'
    <2>1. Slot(p) /\ Slot(x)
      BY <1>b, <1>c
    <2>2. readOps'[p] = 0 /\ (x # p => readOps'[x] = readOps[x])
      BY <1>c, <2>1, <1>a, Counters
    <2>3. CASE p \in outward
      <3>1. /\ status' = [status EXCEPT ![p] = "WAITING"]
            /\ waitOps' = [waitOps EXCEPT ![p] = 1]
        BY <1>c, <2>3 DEF Close, CloseOutward
      <3> QED BY <1>c, <1>n, <1>a, <2>1, <2>2, <2>3, <3>1, Counters
    <2>4. CASE p \notin outward
      <3>1. status' = [status EXCEPT ![p] = "UNCONNECT"] /\ waitOps' = waitOps
        BY <1>c, <2>4 DEF Close, CloseInbound
      <3> QED BY <1>c, <1>n, <1>a, <2>1, <2>2, <2>4, <3>1, Counters
    <2> QED BY <2>3, <2>4
  <1>d. ASSUME NEW p \in Pointers, Idle, readOps[p] > 0
        PROVE  status[p] = "CONNECTED" /\ readOps[p] = 1 /\ current # p
    <2>1. Slot(p) /\ current = NoPointer
      BY <1>b, <1>d DEF Idle
    <2> QED BY <1>d, <2>1, <1>n, <1>a, Counters DEF Statuses
  <1>12. ASSUME NEW p \in Pointers, ReadFailed(p) PROVE Slot(x)'
    <2>1. Idle /\ readOps[p] > 0 /\ Close(p)
      BY <1>12 DEF ReadFailed
    <2> QED BY <1>12, <1>n, <2>1, <1>c, <1>d DEF ReadFailed, Idle
  <1>13. ASSUME NEW p \in Pointers, NEW new \in Batches, NEW t \in Cuts,
                ReadData(p, new, t)
         PROVE Slot(x)'
    <2>1. Idle /\ readOps[p] > 0 /\ readOps' = [readOps EXCEPT ![p] = @ - 1]
      BY <1>13 DEF ReadData, Receive
    <2>2. status[p] = "CONNECTED" /\ readOps[p] = 1
      BY <1>d, <2>1
    <2>3. Slot(p) /\ Slot(x)
      BY <1>b, <2>1 DEF Idle
    <2>4. /\ current = NoPointer /\ current' = p
          /\ UNCHANGED <<phase, status, outward, lost, acceptOps, connectOps, waitOps>>
      BY <1>13, <2>1 DEF ReadData, Idle
    <2> QED BY <1>n, <1>a, <2>1, <2>2, <2>3, <2>4, Counters
  <1>14. ASSUME NEW p \in Pointers, NEW new \in Batches, NEW t \in Cuts,
                ReadShort(p, new, t)
         PROVE Slot(x)'
    <2>1. /\ Idle /\ readOps[p] > 0 /\ Close(p)
          /\ readOps' = [readOps EXCEPT ![p] = @ - 1]
      BY <1>14 DEF ReadShort, Receive
    <2> QED BY <1>14, <1>n, <2>1, <1>c, <1>d DEF ReadShort, Idle
  <1>15. ASSUME NEW p \in Pointers, ParseHandled(p) PROVE Slot(x)'
    BY <1>15, <1>b DEF ParseHandled
  <1>e. ASSUME NEW p \in Pointers, fault = "none", current = p
        PROVE  status[p] = "CONNECTED" /\ phase = "run"
    <2>1. Slot(p)
      BY <1>b, <1>e
    <2>2. status[p] = "CONNECTED"
      BY <2>1, <1>e, <1>a, Counters DEF Statuses
    <2> QED BY <2>2, <1>a DEF NoneConnectedYet
  <1>16. ASSUME NEW p \in Pointers, ParseRefused(p) PROVE Slot(x)'
    <2>1. fault = "none" /\ current = p /\ Close(p)
      BY <1>16 DEF ParseRefused
    <2>2. status[p] = "CONNECTED" /\ phase = "run"
      BY <1>e, <2>1
    <2> QED BY <1>16, <2>1, <2>2, <1>c DEF ParseRefused
  <1>17. ASSUME NEW p \in Pointers, ParseDone(p) PROVE Slot(x)'
    <2>1. /\ fault = "none" /\ current = p /\ current' = NoPointer
          /\ readOps' = [readOps EXCEPT ![p] = @ + 1]
          /\ UNCHANGED <<phase, status, outward, lost, acceptOps, connectOps, waitOps>>
      BY <1>17 DEF ParseDone
    <2>2. status[p] = "CONNECTED"
      BY <1>e, <2>1
    <2>3. Slot(p) /\ Slot(x)
      BY <1>b, <2>1
    <2> QED BY <1>n, <1>a, <2>1, <2>2, <2>3, Counters
  <1>18. ASSUME NEW p \in Pointers, SendAborts(p) PROVE Slot(x)'
    BY <1>18 DEF SendAborts
  <1>19. CASE UNCHANGED vars
    BY <1>19, <1>b DEF vars
  <1> QED
    BY <1>1, <1>2, <1>3, <1>4, <1>5, <1>6, <1>7, <1>8, <1>9, <1>10, <1>11, <1>12,
       <1>13, <1>14, <1>15, <1>16, <1>17, <1>18, <1>19
    DEF Next, Setup, Reading, Rest
-----------------------------------------------------------------------------
\* Which statuses a step can change, and how: the facts about Close and about
\* handlers that the smaller invariants rest on.
LEMMA Handlers ==
    ASSUME IInv, fault = "none"
    PROVE  /\ \A p \in Pointers : acceptOps[p] > 0 =>
                 /\ status[p] = "WAITING" /\ p \notin outward /\ p \notin lost
           /\ \A p \in Pointers : connectOps[p] > 0 \/ waitOps[p] > 0 =>
                 status[p] = "WAITING" /\ p \in outward
           /\ \A p \in Pointers : readOps[p] > 0 \/ current = p =>
                 status[p] = "CONNECTED" /\ phase = "run"
           /\ \A p \in Pointers : acceptOps[p] \in {0, 1}
  <1>1. TypeOK /\ NoneConnectedYet
    BY DEF IInv
  <1>2. SUFFICES ASSUME NEW p \in Pointers
        PROVE /\ acceptOps[p] > 0 =>
                   status[p] = "WAITING" /\ p \notin outward /\ p \notin lost
              /\ connectOps[p] > 0 \/ waitOps[p] > 0 =>
                   status[p] = "WAITING" /\ p \in outward
              /\ readOps[p] > 0 \/ current = p => status[p] = "CONNECTED"
              /\ acceptOps[p] \in {0, 1}
    BY <1>1 DEF NoneConnectedYet
  <1>3. Slot(p)
    BY DEF IInv, OneContinuation, Slot
  <1> QED BY <1>1, <1>3, Counters
          DEF Slot, FreeSlotIdle, ConnectedSlotReads, LinkRetries,
              WaitingSlotAccepts, Statuses

\* close(p) changes the status of p alone, by the role of the slot.
LEMMA CloseStatus ==
    ASSUME TypeOK, NEW p \in Pointers, Close(p)
    PROVE  \A x \in Pointers :
              status'[x] = IF x # p THEN status[x]
                           ELSE IF p \in outward THEN "WAITING" ELSE "UNCONNECT"
  BY Counters DEF Close, CloseOutward, CloseInbound

\* Before the loop runs no handler does, so nothing becomes connected.
LEMMA NoneConnectedYetStep == IInv /\ [Next]_vars => NoneConnectedYet'
  <1> SUFFICES ASSUME IInv, [Next]_vars, phase' # "run", NEW x \in Pointers
               PROVE  status'[x] # "CONNECTED"
    BY DEF NoneConnectedYet
  <1> USE DEF setupVars
  <1>1. TypeOK /\ NoneConnectedYet
    BY DEF IInv
  <1>2. CASE Setup
    <2>1. phase # "run"
      BY <1>2 DEF Setup, PushBullet, Open, OpenFailed, Shoot
    <2>2. status[x] # "CONNECTED"
      BY <1>1, <2>1 DEF NoneConnectedYet
    <2>3. ASSUME NEW p \in Pointers, PushBullet(p) PROVE status'[x] # "CONNECTED"
      BY <2>3, <2>2, <1>1, Counters DEF PushBullet
    <2>4. CASE Open
      <3>1. StartAccept(status, sock, acceptOps)
        BY <2>4 DEF Open
      <3>2. status' = status \/ \E q \in Pointers : status' = [status EXCEPT ![q] = "WAITING"]
        BY <3>1 DEF StartAccept, Valid
      <3> QED BY <3>2, <2>2, <1>1, Counters
    <2> QED BY <1>2, <2>2, <2>3, <2>4 DEF Setup, OpenFailed, Shoot, linkVars
  <1>3. ASSUME NEW p \in Pointers,
               AcceptOk(p) \/ AcceptFailed(p) \/ AcceptAborts(p) \/ ConnectOk(p)
                 \/ ConnectFailed(p) \/ HandleReconnect(p) \/ PeerGone(p)
                 \/ SendAborts(p)
        PROVE FALSE
    BY <1>3 DEF AcceptOk, AcceptFailed, AcceptAborts, ConnectOk, ConnectFailed,
                HandleReconnect, PeerGone, SendAborts, Idle
  <1>4. ASSUME NEW p \in Pointers, Reading(p) PROVE FALSE
    <2>1. CASE ParseHandled(p) \/ ParseRefused(p) \/ ParseDone(p)
      <3>1. fault = "none" /\ current = p /\ phase' = phase
        BY <2>1 DEF ParseHandled, ParseRefused, ParseDone
      <3> QED BY <3>1, Handlers
    <2>2. CASE ~ (ParseHandled(p) \/ ParseRefused(p) \/ ParseDone(p))
      BY <1>4, <2>2 DEF Reading, ReadFailed, ReadData, ReadShort, Receive, Idle
    <2> QED BY <2>1, <2>2
  <1>5. CASE UNCHANGED vars
    BY <1>5, <1>1 DEF vars, linkVars, NoneConnectedYet
  <1> QED BY <1>2, <1>3, <1>4, <1>5 DEF Next, Rest

\* Nothing frees or connects a slot whose accept failed.
LEMMA LostStaysWaitingStep == IInv /\ [Next]_vars => LostStaysWaiting'
  <1> SUFFICES ASSUME IInv, [Next]_vars, fault' = "none", NEW x \in lost'
               PROVE  status'[x] = "WAITING" /\ x \notin outward'
    BY DEF LostStaysWaiting
  <1> USE DEF setupVars, linkVars
  <1>1. TypeOK /\ LostStaysWaiting
    BY DEF IInv
  <1>2. fault = "none" /\ x \in lost => /\ status[x] = "WAITING"
                                        /\ x \notin outward /\ x \in Pointers
    BY <1>1, Counters DEF LostStaysWaiting
  <1>3. ASSUME NEW p \in Pointers, PushBullet(p)
        PROVE  status'[x] = "WAITING" /\ x \notin outward'
    <2>1. phase = "setup" /\ status[p] = "UNCONNECT"
      BY <1>3 DEF PushBullet, Valid
    <2>2. fault = "none"
      BY <2>1 DEF IInv, OnlyListenersAccept
    <2> QED BY <1>3, <1>1, <1>2, <2>1, <2>2, Counters DEF PushBullet
  <1>4. ASSUME NEW st, NEW so, NEW ops, StartAccept(st, so, ops), st[x] = "WAITING",
               x \in Pointers, st \in [Pointers -> Statuses]
        PROVE  status'[x] = "WAITING" /\ fault = "none"
    <2>1. \E q \in Pointers : /\ st[q] = "UNCONNECT" /\ fault' = fault
                              /\ status' = [st EXCEPT ![q] = "WAITING"]
      BY <1>4, StartAcceptPops
    <2> QED BY <2>1, <1>4
  <1>5. CASE Open
    <2>1. fault = "none"
      BY <1>5 DEF Open, IInv, OnlyListenersAccept
    <2> QED BY <1>5, <1>2, <1>4, <2>1, <1>1, Counters DEF Open
  <1>6. ASSUME NEW p \in Pointers, AcceptOk(p)
        PROVE  status'[x] = "WAITING" /\ x \notin outward'
    <2> DEFINE st == [status EXCEPT ![p] = "CONNECTED"]
    <2>1. /\ fault = "none" /\ acceptOps[p] > 0 /\ lost' = lost /\ outward' = outward
          /\ StartAccept(st, IF Ws THEN sock \ {p} ELSE sock \cup {p},
                         [acceptOps EXCEPT ![p] = @ - 1])
      BY <1>6 DEF AcceptOk, Idle
    <2>2. x # p /\ x \in Pointers /\ status[x] = "WAITING" /\ x \notin outward
      BY <2>1, <1>2, Handlers
    <2>3. st[x] = "WAITING" /\ st \in [Pointers -> Statuses]
      BY <2>2, <1>1, Counters DEF Statuses
    <2> QED BY <2>1, <2>2, <2>3, <1>4
  <1>7. ASSUME NEW p \in Pointers, AcceptFailed(p)
        PROVE  status'[x] = "WAITING" /\ x \notin outward'
    <2>1. /\ fault = "none" /\ acceptOps[p] > 0 /\ lost' = lost \cup {p}
          /\ outward' = outward
          /\ StartAccept(status, sock, [acceptOps EXCEPT ![p] = @ - 1])
      BY <1>7 DEF AcceptFailed, Idle
    <2>2. x \in Pointers /\ status[x] = "WAITING" /\ x \notin outward
      BY <2>1, <1>2, Handlers
    <2> QED BY <2>1, <2>2, <1>4, <1>1, Counters
  <1>8. ASSUME NEW p \in Pointers, ConnectOk(p)
        PROVE  status'[x] = "WAITING" /\ x \notin outward'
    <2>1. fault = "none" /\ connectOps[p] > 0
      BY <1>8 DEF ConnectOk, Idle
    <2> QED BY <1>8, <2>1, <1>1, <1>2, Handlers, Counters DEF ConnectOk
  <1>9. ASSUME NEW p \in Pointers, fault = "none", Close(p),
               connectOps[p] > 0 \/ readOps[p] > 0 \/ current = p,
               UNCHANGED <<lost, outward>>
        PROVE  status'[x] = "WAITING" /\ x \notin outward'
    <2>1. p \notin lost
      BY <1>9, <1>1, Handlers DEF LostStaysWaiting
    <2> QED BY <1>9, <2>1, <1>1, <1>2, CloseStatus
  <1>10. ASSUME NEW p \in Pointers, ConnectFailed(p)
         PROVE  status'[x] = "WAITING" /\ x \notin outward'
    BY <1>10, <1>9 DEF ConnectFailed, Idle
  <1>11. ASSUME NEW p \in Pointers, Reading(p)
         PROVE  status'[x] = "WAITING" /\ x \notin outward'
    <2>1. CASE \/ ReadFailed(p) \/ ParseRefused(p)
               \/ \E new \in Batches, t \in Cuts : ReadShort(p, new, t)
      BY <2>1, <1>9 DEF ReadFailed, ReadShort, Receive, ParseRefused, Idle
    <2>2. CASE \/ ParseHandled(p) \/ ParseDone(p)
               \/ \E new \in Batches, t \in Cuts : ReadData(p, new, t)
      BY <2>2, <1>2 DEF ReadData, Receive, ParseHandled, ParseDone, Idle
    <2> QED BY <1>11, <2>1, <2>2 DEF Reading
  <1>12. ASSUME NEW p \in Pointers,
                AcceptAborts(p) \/ HandleReconnect(p) \/ PeerGone(p) \/ SendAborts(p)
         PROVE  status'[x] = "WAITING" /\ x \notin outward'
    BY <1>12, <1>2 DEF AcceptAborts, HandleReconnect, PeerGone, SendAborts, Idle
  <1>13. CASE OpenFailed \/ Shoot \/ UNCHANGED vars
    BY <1>13, <1>2 DEF OpenFailed, Shoot, vars
  <1> QED BY <1>3, <1>5, <1>6, <1>7, <1>8, <1>10, <1>11, <1>12, <1>13
          DEF Next, Setup, Rest
-----------------------------------------------------------------------------
\* The accept chain and the pool.
LEMMA OnlyListenersAcceptStep == IInv /\ [Next]_vars => OnlyListenersAccept'
  <1> SUFFICES ASSUME IInv, [Next]_vars PROVE OnlyListenersAccept'
    OBVIOUS
  <1> USE DEF setupVars, linkVars, opVars, dataVars, OnlyListenersAccept
  <1>1. OnlyListenersAccept /\ TypeOK /\ NoneConnectedYet
    BY DEF IInv
  <1>2. ASSUME NEW p \in Pointers, PushBullet(p) PROVE OnlyListenersAccept'
    BY <1>2, <1>1 DEF PushBullet
  <1>3. CASE Open \/ OpenFailed \/ Shoot
    BY <1>3, <1>1, Counters DEF Open, OpenFailed, Shoot
  <1>4. ASSUME NEW p \in Pointers, AcceptOk(p) \/ AcceptFailed(p)
        PROVE  OnlyListenersAccept'
    <2>1. /\ phase = "run" /\ fault = "none" /\ acceptOps[p] > 0
          /\ UNCHANGED <<phase, listening>>
      BY <1>4 DEF AcceptOk, AcceptFailed, Idle
    <2>2. listening
      BY <2>1, <1>1
    <2> QED BY <2>1, <2>2
  <1>5. ASSUME NEW p \in Pointers,
               AcceptAborts(p) \/ ConnectOk(p) \/ ConnectFailed(p)
                 \/ HandleReconnect(p) \/ PeerGone(p) \/ SendAborts(p)
        PROVE  OnlyListenersAccept'
    BY <1>5, <1>1 DEF AcceptAborts, ConnectOk, ConnectFailed, HandleReconnect,
                      PeerGone, SendAborts, Idle
  <1>6. ASSUME NEW p \in Pointers, Reading(p) PROVE OnlyListenersAccept'
    BY <1>6, <1>1 DEF Reading, ReadFailed, ReadData, ReadShort, Receive,
                      ParseHandled, ParseRefused, ParseDone
  <1>7. CASE UNCHANGED vars
    BY <1>7, <1>1 DEF vars
  <1> QED BY <1>2, <1>3, <1>4, <1>5, <1>6, <1>7 DEF Next, Setup, Rest

\* start_accept() when no accept is outstanding: the slot it pops has the only
\* one, or the pool was dry.
LEMMA Popped ==
    ASSUME NEW st \in [Pointers -> Statuses], NEW so,
           NEW ops \in [Pointers -> Nat], \A p \in Pointers : ops[p] = 0,
           StartAccept(st, so, ops), fault = "none",
           \A p \in outward : st[p] # "UNCONNECT", outward' = outward
    PROVE  /\ AcceptChain'
           /\ fault' \in {"none", "pool"}
           /\ fault' = "pool" =>
                 status' = st /\ \A p \in Pointers : st[p] # "UNCONNECT"
  <1>1. CASE Valid(st) = {}
    BY <1>1 DEF StartAccept, Valid, AcceptChain
  <1>2. CASE Valid(st) # {}
    <2>1. PICK q \in Pointers :
             /\ st[q] = "UNCONNECT" /\ fault' = fault
             /\ status' = [st EXCEPT ![q] = "WAITING"]
             /\ acceptOps' = [ops EXCEPT ![q] = @ + 1]
      BY <1>2 DEF StartAccept, Valid
    <2>2. acceptOps'[q] = 1 /\ status'[q] = "WAITING" /\ q \notin outward'
      BY <2>1
    <2>3. \A p \in Pointers \ {q} : acceptOps'[p] = 0
      BY <2>1
    <2> QED BY <2>1, <2>2, <2>3 DEF AcceptChain
  <1> QED BY <1>1, <1>2

\* An accept ends the chain only to start it again on a popped slot; a dry pool
\* then means that no slot was free and none but the failed ones was waiting.
LEMMA ChainAndPoolStep == IInv /\ [Next]_vars => AcceptChain' /\ PoolLedger'
  <1> SUFFICES ASSUME IInv, [Next]_vars PROVE AcceptChain' /\ PoolLedger'
    OBVIOUS
  <1> USE DEF setupVars, linkVars, opVars, dataVars
  <1>1. /\ TypeOK /\ AcceptChain /\ PoolLedger /\ OnlyListenersAccept
        /\ NoneConnectedYet
    BY DEF IInv
  <1>2. fault = "none" => \A p \in outward : status[p] # "UNCONNECT"
    <2> SUFFICES ASSUME fault = "none", NEW p \in outward, status[p] = "UNCONNECT"
                 PROVE  FALSE
      OBVIOUS
    <2>1. p \in Pointers
      BY <1>1, Counters
    <2> QED BY <2>1 DEF IInv, OneContinuation, FreeSlotIdle
  <1>3. ASSUME NEW p \in Pointers, PushBullet(p) PROVE AcceptChain' /\ PoolLedger'
    <2>1. ~listening /\ fault = "none" /\ UNCHANGED <<listening, fault>>
      BY <1>3, <1>1 DEF PushBullet, OnlyListenersAccept
    <2> QED BY <2>1 DEF AcceptChain, PoolLedger
  <1>4. CASE Open
    <2>1. /\ StartAccept(status, sock, acceptOps) /\ UNCHANGED <<outward, lost>>
          /\ fault = "none" /\ \A p \in Pointers : acceptOps[p] = 0
      BY <1>4, <1>1 DEF Open, OnlyListenersAccept
    <2>2. /\ AcceptChain'
          /\ fault' \in {"none", "pool"}
          /\ fault' = "pool" => status' = status /\ \A p \in Pointers : status[p] # "UNCONNECT"
      BY <2>1, <1>2, <1>1, Counters, Popped
    <2>3. ASSUME fault' = "pool", NEW p \in Pointers \ outward
          PROVE  status'[p] = "CONNECTED" \/ p \in lost'
      <3>1. WaitingSlotAccepts(p)
        BY <2>1 DEF IInv, OneContinuation
      <3> QED BY <2>1, <2>2, <2>3, <3>1, <1>1, Counters DEF WaitingSlotAccepts, Statuses
    <2> QED BY <2>1, <2>2, <2>3 DEF PoolLedger
  <1>5. ASSUME NEW p \in Pointers, fault = "none", acceptOps[p] > 0
        PROVE  /\ [acceptOps EXCEPT ![p] = @ - 1] \in [Pointers -> Nat]
               /\ \A x \in Pointers : [acceptOps EXCEPT ![p] = @ - 1][x] = 0
               /\ \A x \in Pointers \ {p} : acceptOps[x] = 0
    <2>1. listening
      BY <1>5, <1>1 DEF OnlyListenersAccept
    <2>2. \E y \in Pointers : acceptOps[y] = 1 /\ \A q \in Pointers \ {y} : acceptOps[q] = 0
      BY <2>1, <1>5, <1>1 DEF AcceptChain
    <2>3. acceptOps[p] = 1 /\ \A q \in Pointers \ {p} : acceptOps[q] = 0
      BY <2>2, <1>5
    <2> QED BY <2>3, <1>1, Counters
  <1>6. ASSUME NEW x \in Pointers, fault = "none", status[x] = "WAITING",
               x \notin outward, acceptOps[x] = 0
        PROVE  x \in lost
    BY <1>6 DEF IInv, OneContinuation, WaitingSlotAccepts
  <1>7. ASSUME NEW p \in Pointers, AcceptOk(p) PROVE AcceptChain' /\ PoolLedger'
    <2> DEFINE st == [status EXCEPT ![p] = "CONNECTED"]
               so == IF Ws THEN sock \ {p} ELSE sock \cup {p}
               ops == [acceptOps EXCEPT ![p] = @ - 1]
    <2>1. /\ StartAccept(st, so, ops) /\ UNCHANGED <<outward, lost>>
          /\ fault = "none" /\ acceptOps[p] > 0
      BY <1>7 DEF AcceptOk, Idle
    <2>2. st \in [Pointers -> Statuses] /\ \A y \in outward : st[y] # "UNCONNECT"
      BY <1>1, <1>2, <2>1, Counters DEF Statuses
    <2>3. ops \in [Pointers -> Nat] /\ \A y \in Pointers : ops[y] = 0
      BY <2>1, <1>5
    <2>4. \A y \in Pointers : st[y] = IF y = p THEN "CONNECTED" ELSE status[y]
      BY <1>1, Counters
    <2> HIDE DEF st, so, ops
    <2>5. /\ AcceptChain'
          /\ fault' \in {"none", "pool"}
          /\ fault' = "pool" => status' = st /\ \A y \in Pointers : st[y] # "UNCONNECT"
      BY <2>1, <2>2, <2>3, Popped
    <2>6. ASSUME fault' = "pool", NEW y \in Pointers \ outward
          PROVE  status'[y] = "CONNECTED" \/ y \in lost'
      <3>1. CASE y = p
        BY <3>1, <2>4, <2>5, <2>6
      <3>2. CASE y # p
        <4>1. acceptOps[y] = 0 /\ status[y] \in {"WAITING", "CONNECTED"} /\ status'[y] = status[y]
          BY <3>2, <2>1, <2>4, <2>5, <2>6, <1>5, <1>1, Counters DEF Statuses
        <4> QED BY <4>1, <1>6, <2>1
      <3> QED BY <3>1, <3>2
    <2> QED BY <2>1, <2>5, <2>6 DEF PoolLedger
  <1>8. ASSUME NEW p \in Pointers, AcceptFailed(p) PROVE AcceptChain' /\ PoolLedger'
    <2>1. /\ StartAccept(status, sock, [acceptOps EXCEPT ![p] = @ - 1])
          /\ outward' = outward /\ lost' = lost \cup {p}
          /\ fault = "none" /\ acceptOps[p] > 0
      BY <1>8 DEF AcceptFailed, Idle
    <2>2. /\ AcceptChain'
          /\ fault' \in {"none", "pool"}
          /\ fault' = "pool" => status' = status /\ \A y \in Pointers : status[y] # "UNCONNECT"
      BY <2>1, <1>2, <1>1, <1>5, Counters, Popped
    <2>3. ASSUME fault' = "pool", NEW y \in Pointers \ outward
          PROVE  status'[y] = "CONNECTED" \/ y \in lost'
      <3>1. CASE y # p
        <4>1. acceptOps[y] = 0 /\ status[y] \in {"WAITING", "CONNECTED"} /\ status'[y] = status[y]
          BY <3>1, <2>1, <2>2, <2>3, <1>5, <1>1, Counters DEF Statuses
        <4> QED BY <4>1, <1>6, <2>1
      <3> QED BY <3>1, <2>1
    <2> QED BY <2>1, <2>2, <2>3 DEF PoolLedger
  <1>9. ASSUME fault' # "pool",
               listening' = listening, acceptOps' = acceptOps, outward' = outward,
               fault' = "none" => fault = "none",
               \A x \in Pointers : acceptOps[x] > 0 => status'[x] = status[x]
        PROVE  AcceptChain' /\ PoolLedger'
    BY <1>9, <1>1 DEF AcceptChain, PoolLedger
  <1>10. ASSUME NEW p \in Pointers, fault = "none",
                connectOps[p] > 0 \/ readOps[p] > 0 \/ current = p
         PROVE  acceptOps[p] = 0
    BY <1>10, <1>1, Handlers, Counters
  <1>11. ASSUME NEW p \in Pointers, fault = "none", fault' = fault, Close(p),
                connectOps[p] > 0 \/ readOps[p] > 0 \/ current = p,
                UNCHANGED <<listening, acceptOps, outward>>
         PROVE  AcceptChain' /\ PoolLedger'
    BY <1>9, <1>10, <1>11, <1>1, CloseStatus
  <1>12. ASSUME NEW p \in Pointers, ConnectOk(p) PROVE AcceptChain' /\ PoolLedger'
    <2>1. /\ fault = "none" /\ connectOps[p] > 0
          /\ status' = [status EXCEPT ![p] = "CONNECTED"]
          /\ UNCHANGED <<listening, acceptOps, outward, fault>>
      BY <1>12 DEF ConnectOk, Idle
    <2> QED BY <2>1, <1>9, <1>10, <1>1, Counters
  <1>13. ASSUME NEW p \in Pointers, ConnectFailed(p) PROVE AcceptChain' /\ PoolLedger'
    BY <1>13, <1>11 DEF ConnectFailed, Idle
  <1>14. ASSUME NEW p \in Pointers, Reading(p) PROVE AcceptChain' /\ PoolLedger'
    <2>1. CASE \/ ReadFailed(p) \/ ParseRefused(p)
               \/ \E new \in Batches, t \in Cuts : ReadShort(p, new, t)
      BY <2>1, <1>11 DEF ReadFailed, ReadShort, Receive, ParseRefused, Idle
    <2>2. CASE \/ ParseHandled(p) \/ ParseDone(p)
               \/ \E new \in Batches, t \in Cuts : ReadData(p, new, t)
      BY <2>2, <1>9 DEF ReadData, Receive, ParseHandled, ParseDone, Idle
    <2> QED BY <1>14, <2>1, <2>2 DEF Reading
  <1>15. ASSUME NEW p \in Pointers,
                AcceptAborts(p) \/ HandleReconnect(p) \/ PeerGone(p) \/ SendAborts(p)
         PROVE  AcceptChain' /\ PoolLedger'
    BY <1>15, <1>9 DEF AcceptAborts, HandleReconnect, PeerGone, SendAborts, Idle
  <1>16. CASE OpenFailed
    BY <1>16, <1>1 DEF OpenFailed, OnlyListenersAccept, AcceptChain, PoolLedger
  <1>17. CASE Shoot
    BY <1>17, <1>9 DEF Shoot
  <1>18. CASE UNCHANGED vars
    BY <1>18, <1>1 DEF vars, AcceptChain, PoolLedger
  <1> QED BY <1>3, <1>4, <1>7, <1>8, <1>12, <1>13, <1>14, <1>15, <1>16, <1>17, <1>18
          DEF Next, Setup, Rest

-----------------------------------------------------------------------------
\* The inductive invariant holds at first.
LEMMA IInvInit == Init => IInv
  BY TypeInit, NetWorkerAssumption
     DEF Init, IInv, OneContinuation, FreeSlotIdle, ConnectedSlotReads, LinkRetries,
         WaitingSlotAccepts, NoneConnectedYet, LostStaysWaiting,
         OnlyListenersAccept, AcceptChain, PoolLedger

\* Every step keeps the inductive invariant.
LEMMA IInvStep == IInv /\ [Next]_vars => IInv'
  BY TypeStep, ContinuationStep, NoneConnectedYetStep, LostStaysWaitingStep,
     OnlyListenersAcceptStep, ChainAndPoolStep DEF IInv

\* The inductive invariant holds throughout: the strengthening of OneContinuation
\* that every other result rests on.
THEOREM IInvHolds == Spec => []IInv
  BY IInvInit, IInvStep, PTL DEF Spec

\* Every variable of the worker always has its type.
THEOREM TypeCorrect == Spec => []TypeOK
  <1>1. IInv => TypeOK
    BY DEF IInv
  <1> QED BY <1>1, IInvHolds, PTL

\* Every slot always has the one outstanding operation its status calls for,
\* whatever the number of slots and the order in which accepts, connects, reads,
\* timers and closes meet (net_worker.hpp:130-169, 315-330, 369-417).
THEOREM ContinuationCorrect == Spec => []OneContinuation
  <1>1. IInv => OneContinuation
    BY DEF IInv
  <1> QED BY <1>1, IInvHolds, PTL

\* The accept chain neither ends nor forks while the process lives
\* (net_worker.hpp:369-388).
THEOREM AcceptChainCorrect == Spec => []AcceptChain
  <1>1. IInv => AcceptChain
    BY DEF IInv
  <1> QED BY <1>1, IInvHolds, PTL

\* The pool runs dry only when all its slots are in use or were lost by failed
\* accepts (net_worker.hpp:315-330, 382-386, 419-430).
THEOREM PoolLedgerCorrect == Spec => []PoolLedger
  <1>1. IInv => PoolLedger
    BY DEF IInv
  <1> QED BY <1>1, IInvHolds, PTL
-----------------------------------------------------------------------------
\* Sockets.  ReleasedSlot is inductive with TypeOK alone.
LEMMA CloseSocket ==
    ASSUME NEW p \in Pointers, Close(p) PROVE sock' = sock \ {p}
  BY DEF Close, CloseOutward, CloseInbound

\* Every step that leaves CONNECTED, or ends a connect, closes the socket.
LEMMA ReleasedStep == IInv /\ ReleasedSlot /\ [Next]_vars => ReleasedSlot'
  <1> SUFFICES ASSUME IInv, ReleasedSlot, [Next]_vars PROVE ReleasedSlot'
    OBVIOUS
  <1> USE DEF setupVars, linkVars, opVars, dataVars
  <1>1. TypeOK
    BY DEF IInv
  <1>2. CASE Setup
    <2>1. ASSUME NEW p \in Pointers, PushBullet(p) PROVE ReleasedSlot'
      BY <2>1, <1>1, Counters DEF PushBullet, Valid, ReleasedSlot
    <2>2. CASE Open
      BY <2>2, <1>1, Counters DEF Open, StartAccept, Valid, ReleasedSlot
    <2>3. CASE OpenFailed
      BY <2>3 DEF OpenFailed, ReleasedSlot
    <2>4. CASE Shoot
      BY <2>4, <1>1, Counters DEF Shoot, ReleasedSlot
    <2> QED BY <1>2, <2>1, <2>2, <2>3, <2>4 DEF Setup
  <1>3. ASSUME NEW p \in Pointers, AcceptOk(p) PROVE ReleasedSlot'
    <2>1. \/ /\ status' = [status EXCEPT ![p] = "CONNECTED"]
             /\ sock' \subseteq sock \cup {p}
          \/ \E q \in Pointers :
                /\ [status EXCEPT ![p] = "CONNECTED"][q] = "UNCONNECT"
                /\ status' = [[status EXCEPT ![p] = "CONNECTED"] EXCEPT ![q] = "WAITING"]
                /\ sock' \subseteq (sock \cup {p}) \ {q}
      BY <1>3 DEF AcceptOk, StartAccept, Valid
    <2>2. connectOps' = connectOps
      BY <1>3 DEF AcceptOk
    <2> QED BY <2>1, <2>2, <1>1, Counters DEF ReleasedSlot
  <1>4. ASSUME NEW p \in Pointers, AcceptFailed(p) PROVE ReleasedSlot'
    BY <1>4, <1>1, Counters DEF AcceptFailed, StartAccept, Valid, ReleasedSlot
  <1>5. ASSUME NEW p \in Pointers, ConnectOk(p) PROVE ReleasedSlot'
    BY <1>5, <1>1, Counters DEF ConnectOk, ReleasedSlot
  <1>6. ASSUME NEW p \in Pointers, Close(p),
               \A x \in Pointers \ {p} : connectOps'[x] = connectOps[x]
        PROVE  ReleasedSlot'
    BY <1>6, <1>1, CloseSocket, CloseStatus DEF ReleasedSlot
  <1>7. ASSUME NEW p \in Pointers, ConnectFailed(p) PROVE ReleasedSlot'
    BY <1>7, <1>6, <1>1, Counters DEF ConnectFailed
  <1>8. ASSUME NEW p \in Pointers, HandleReconnect(p) PROVE ReleasedSlot'
    BY <1>8, <1>1, Counters DEF HandleReconnect, ReleasedSlot
  <1>9. ASSUME NEW p \in Pointers, Reading(p) PROVE ReleasedSlot'
    <2>1. CASE \/ ReadFailed(p) \/ ParseRefused(p)
               \/ \E new \in Batches, t \in Cuts : ReadShort(p, new, t)
      BY <2>1, <1>6 DEF ReadFailed, ReadShort, ParseRefused
    <2>2. CASE \/ ParseHandled(p) \/ ParseDone(p)
               \/ \E new \in Batches, t \in Cuts : ReadData(p, new, t)
      BY <2>2 DEF ReadData, ParseHandled, ParseDone, ReleasedSlot
    <2> QED BY <1>9, <2>1, <2>2 DEF Reading
  <1>10. ASSUME NEW p \in Pointers, AcceptAborts(p) \/ PeerGone(p) \/ SendAborts(p)
         PROVE  ReleasedSlot'
    BY <1>10 DEF AcceptAborts, PeerGone, SendAborts, ReleasedSlot
  <1>11. CASE UNCHANGED vars
    BY <1>11 DEF vars, ReleasedSlot
  <1> QED BY <1>2, <1>3, <1>4, <1>5, <1>7, <1>8, <1>9, <1>10, <1>11 DEF Next, Rest

\* No slot that is free or waiting for a client or its timer keeps a socket open
\* (net_worker.hpp:74-95).
THEOREM ReleasedCorrect == Spec => []ReleasedSlot
  <1>1. Init => ReleasedSlot
    BY DEF Init, ReleasedSlot
  <1> QED BY <1>1, ReleasedStep, IInvHolds, PTL DEF Spec

\* async_connect always finds the socket closed (net_worker.hpp:74-81, 390-407).
THEOREM ConnectsFreshSocketCorrect == Spec => ConnectsFreshSocket
  <1>1. ASSUME IInv, ReleasedSlot, [Next]_vars
        PROVE  [\A p \in Pointers : connectOps'[p] > connectOps[p] => p \notin sock]_vars
    <2> SUFFICES ASSUME Next, NEW x \in Pointers, connectOps'[x] > connectOps[x]
                 PROVE  x \notin sock
      BY <1>1
    <2> USE DEF setupVars, linkVars, opVars, dataVars
    <2>1. TypeOK /\ OneContinuation /\ NoneConnectedYet
      BY <1>1 DEF IInv
    <2>2. CASE Shoot
      <3>1. x \in outward /\ fault = "none" /\ phase # "run"
        BY <2>1, <2>2, Counters DEF Shoot
      <3>2. status[x] = "WAITING" /\ connectOps[x] = 0
        BY <2>1, <3>1, Counters DEF OneContinuation, FreeSlotIdle, LinkRetries,
                                    NoneConnectedYet, Statuses
      <3> QED BY <1>1, <3>2 DEF ReleasedSlot
    <2>3. ASSUME NEW p \in Pointers, HandleReconnect(p) PROVE x \notin sock
      <3>1. x = p /\ waitOps[p] > 0 /\ fault = "none"
        BY <2>1, <2>3, Counters DEF HandleReconnect, Idle
      <3>2. status[x] = "WAITING" /\ x \in outward
        BY <1>1, <3>1, Handlers
      <3>3. connectOps[x] = 0
        BY <2>1, <3>1, <3>2, Counters DEF OneContinuation, LinkRetries
      <3> QED BY <1>1, <3>2, <3>3 DEF ReleasedSlot
    <2>4. ASSUME NEW p \in Pointers, ConnectOk(p) \/ ConnectFailed(p) PROVE FALSE
      <3>1. connectOps' = [connectOps EXCEPT ![p] = @ - 1]
        BY <2>4 DEF ConnectOk, ConnectFailed
      <3> QED BY <2>1, <3>1, Counters
    <2>5. CASE connectOps' = connectOps
      BY <2>1, <2>5, Counters
    <2> QED BY ZenonT(30), <2>2, <2>3, <2>4, <2>5
            DEF Next, Setup, Reading, Rest, vars, PushBullet, Open, OpenFailed,
                AcceptOk, AcceptFailed, AcceptAborts, PeerGone, ReadFailed, ReadData,
                ReadShort, ParseHandled, ParseRefused, ParseDone, SendAborts
  <1> QED BY <1>1, IInvHolds, ReleasedCorrect, PTL DEF Spec, ConnectsFreshSocket
-----------------------------------------------------------------------------
\* WebSocket streams.
LEMMA StreamStep ==
    ASSUME Ws PROVE IInv /\ StreamIsCurrent /\ [Next]_vars => StreamIsCurrent'
  <1> SUFFICES ASSUME IInv, StreamIsCurrent, [Next]_vars, NEW x \in Pointers,
                      x \notin outward', status'[x] = "CONNECTED"
               PROVE  stream'[x] = epoch'[x] /\ x \notin sock'
    BY DEF StreamIsCurrent
  <1> USE DEF setupVars, linkVars, opVars, dataVars
  <1>1. /\ TypeOK /\ stream \in [Pointers -> Nat] /\ epoch \in [Pointers -> Nat]
        /\ status \in [Pointers -> Statuses] /\ sock \subseteq Pointers
    BY DEF IInv, TypeOK
  <1>2. x \notin outward /\ status[x] = "CONNECTED" =>
             stream[x] = epoch[x] /\ x \notin sock
    BY DEF StreamIsCurrent
  <1>3. CASE Setup
    <2>1. ASSUME NEW p \in Pointers, PushBullet(p)
          PROVE  stream'[x] = epoch'[x] /\ x \notin sock'
      BY <2>1, <1>1, <1>2 DEF PushBullet
    <2>2. CASE Open
      BY <2>2, <1>1, <1>2 DEF Open, StartAccept, Valid
    <2>3. CASE OpenFailed \/ Shoot
      BY <2>3, <1>1, <1>2 DEF OpenFailed, Shoot
    <2> QED BY <1>3, <2>1, <2>2, <2>3 DEF Setup
  <1>4. ASSUME NEW p \in Pointers, AcceptOk(p)
        PROVE  stream'[x] = epoch'[x] /\ x \notin sock'
    <2>1. /\ stream' = [stream EXCEPT ![p] = epoch[p] + 1]
          /\ epoch' = [epoch EXCEPT ![p] = @ + 1] /\ outward' = outward
          /\ StartAccept([status EXCEPT ![p] = "CONNECTED"], sock \ {p},
                         [acceptOps EXCEPT ![p] = @ - 1])
      BY <1>4 DEF AcceptOk, BeginLife
    <2>2. /\ sock' \subseteq sock \ {p}
          /\ \/ status' = [status EXCEPT ![p] = "CONNECTED"]
             \/ \E q \in Pointers : status' =
                   [[status EXCEPT ![p] = "CONNECTED"] EXCEPT ![q] = "WAITING"]
      BY <2>1 DEF StartAccept, Valid
    <2>3. CASE x = p
      BY <2>1, <2>2, <2>3, <1>1
    <2>4. CASE x # p
      <3>1. status[x] = "CONNECTED"
        BY <2>2, <2>4, <1>1
      <3> QED BY <3>1, <2>1, <2>2, <2>4, <1>1, <1>2
    <2> QED BY <2>3, <2>4
  <1>5. ASSUME NEW p \in Pointers, AcceptFailed(p)
        PROVE  stream'[x] = epoch'[x] /\ x \notin sock'
    BY <1>5, <1>1, <1>2 DEF AcceptFailed, StartAccept, Valid
  <1>6. ASSUME NEW p \in Pointers, ConnectOk(p)
        PROVE  stream'[x] = epoch'[x] /\ x \notin sock'
    <2>1. p \in outward /\ outward' = outward
      BY <1>6, Handlers DEF ConnectOk, Idle
    <2> QED BY <1>6, <2>1, <1>1, <1>2 DEF ConnectOk, BeginLife
  <1>7. ASSUME NEW p \in Pointers, HandleReconnect(p)
        PROVE  stream'[x] = epoch'[x] /\ x \notin sock'
    <2>1. p \in outward /\ outward' = outward
      BY <1>7, Handlers DEF HandleReconnect, Idle
    <2> QED BY <1>7, <2>1, <1>1, <1>2 DEF HandleReconnect
  <1>8. ASSUME NEW p \in Pointers, Close(p), outward' = outward, epoch' = epoch
        PROVE  stream'[x] = epoch'[x] /\ x \notin sock'
    <2>1. x # p /\ status[x] = "CONNECTED" /\ sock' = sock \ {p}
      BY <1>8, <1>1, CloseStatus, CloseSocket
    <2>2. stream'[x] = stream[x]
      BY <1>8, <2>1, <1>1 DEF Close, CloseOutward, CloseInbound
    <2> QED BY <2>1, <2>2, <1>2, <1>8
  <1>9. ASSUME NEW p \in Pointers, Reading(p) \/ ConnectFailed(p)
        PROVE  stream'[x] = epoch'[x] /\ x \notin sock'
    <2>1. CASE \/ ConnectFailed(p) \/ ReadFailed(p) \/ ParseRefused(p)
               \/ \E new \in Batches, t \in Cuts : ReadShort(p, new, t)
      BY <2>1, <1>8 DEF ConnectFailed, ReadFailed, ReadShort, ParseRefused
    <2>2. CASE \/ ParseHandled(p) \/ ParseDone(p)
               \/ \E new \in Batches, t \in Cuts : ReadData(p, new, t)
      BY <2>2, <1>2 DEF ReadData, ParseHandled, ParseDone
    <2> QED BY <1>9, <2>1, <2>2 DEF Reading
  <1>10. ASSUME NEW p \in Pointers, AcceptAborts(p) \/ PeerGone(p) \/ SendAborts(p)
         PROVE  stream'[x] = epoch'[x] /\ x \notin sock'
    BY <1>10, <1>2 DEF AcceptAborts, PeerGone, SendAborts
  <1>11. CASE UNCHANGED vars
    BY <1>11, <1>2 DEF vars
  <1> QED BY <1>3, <1>4, <1>5, <1>6, <1>7, <1>9, <1>10, <1>11 DEF Next, Rest

\* A connected slot of a WebSocket server always reads from and writes to the
\* stream of its own connection, although close() never deletes a stream
\* (net_worker.hpp:51-67, 83-95).
THEOREM StreamCorrect ==
    ASSUME Ws PROVE Spec => []StreamIsCurrent
  <1>1. Init => StreamIsCurrent
    BY DEF Init, StreamIsCurrent
  <1>2. IInv /\ StreamIsCurrent /\ [Next]_vars => StreamIsCurrent'
    BY StreamStep
  <1> QED BY <1>1, <1>2, IInvHolds, PTL DEF Spec

-----------------------------------------------------------------------------
\* The receive buffer.
LEMMA JoinedHead ==
    ASSUME TypeOK, NEW p \in Pointers, NEW new \in Batches, buffer[p] # <<>>
    PROVE  Joined(p, new) # <<>> /\ Head(Joined(p, new)) = Head(buffer[p])
  <1>1. buffer[p] \in Seq(Entries) /\ Marked(p, new) \in Seq(Entries)
    BY MarkedType DEF TypeOK
  <1>2. Len(buffer[p]) \in Nat /\ Len(buffer[p]) >= 1
    BY <1>1
  <1> QED BY <1>1, <1>2 DEF Joined

\* A slot jammed by a refused packet stays jammed through every later connection
\* (net_worker.hpp:195-201).
THEOREM JamIsForeverCorrect == Spec => JamIsForever
  <1>1. ASSUME IInv, [Next]_vars
        PROVE  [\A p \in Pointers : Jammed(p) =>
                  /\ buffer'[p] # <<>> /\ Head(buffer'[p]) = Head(buffer[p])]_vars
    <2> SUFFICES ASSUME Next, NEW x \in Pointers, Jammed(x)
                 PROVE  buffer'[x] # <<>> /\ Head(buffer'[x]) = Head(buffer[x])
      BY <1>1
    <2> USE DEF setupVars, linkVars, opVars, dataVars
    <2>1. TypeOK /\ DOMAIN buffer = Pointers
      BY <1>1 DEF IInv, TypeOK
    <2>2. buffer[x] # <<>> /\ current # x
      BY DEF Jammed
    <2>3. ASSUME NEW p \in Pointers, NEW new \in Batches, NEW t \in Cuts,
                 Receive(p, new, t)
          PROVE  buffer'[x] # <<>> /\ Head(buffer'[x]) = Head(buffer[x])
      <3>1. buffer' = [buffer EXCEPT ![p] = Joined(p, new)]
        BY <2>3 DEF Receive
      <3>2. CASE x = p
        BY <3>1, <3>2, <2>1, <2>2, JoinedHead
      <3>3. CASE x # p
        BY <3>1, <3>3, <2>1, <2>2
      <3> QED BY <3>2, <3>3
    <2>4. ASSUME NEW p \in Pointers, ParseHandled(p)
          PROVE  buffer'[x] # <<>> /\ Head(buffer'[x]) = Head(buffer[x])
      BY <2>4, <2>1, <2>2 DEF ParseHandled
    <2>5. CASE buffer' = buffer
      BY <2>5, <2>2
    <2> QED BY ZenonT(30), <2>3, <2>4, <2>5
            DEF Next, Setup, Reading, Rest, vars, PushBullet, Open, OpenFailed, Shoot,
                AcceptOk, AcceptFailed, AcceptAborts, BeginLife, ConnectOk,
                ConnectFailed, HandleReconnect, PeerGone, ReadFailed, ReadData,
                ReadShort, ParseRefused, ParseDone, SendAborts
  <1> QED BY <1>1, IInvHolds, PTL DEF Spec, JamIsForever

-----------------------------------------------------------------------------
\* Clients that send nothing the server refuses and leave between packets.
Clean == ~Abrupt

\* On a slot without a short read the buffer holds no complete packet between two
\* handlers, and never one that is refused; a connection that is over or whose
\* client has gone has left nothing incomplete.
TidySlot(p) ==
    /\ current # p => buffer[p] = <<>>
    /\ \A i \in DOMAIN buffer[p] : buffer[p][i].msg \notin Refused
    /\ p \in gone \/ status[p] # "CONNECTED" => tail[p].kind = "none"

Tidy == \A p \in Pointers \ short : TidySlot(p)

\* With clean clients a handler leaves its buffer without complete packets, and a
\* connection ends without an incomplete one.
LEMMA TidyStep ==
    ASSUME Clean PROVE IInv /\ Tidy /\ NoMixing /\ [Next]_vars => Tidy' /\ NoMixing'
  <1> SUFFICES ASSUME IInv, Tidy, NoMixing, [Next]_vars, NEW x \in Pointers
               PROVE  x \notin short' =>
                  /\ current' # x => buffer'[x] = <<>>
                  /\ \A i \in DOMAIN buffer'[x] : buffer'[x][i].msg \notin Refused
                  /\ x \in gone' \/ status'[x] # "CONNECTED" => tail'[x].kind = "none"
                  /\ status'[x] = "CONNECTED" =>
                       /\ \A i \in DOMAIN buffer'[x] : buffer'[x][i].by = epoch'[x]
                       /\ tail'[x].kind # "none" => tail'[x].by = epoch'[x]
    BY DEF Tidy, TidySlot, NoMixing
  <1> DEFINE Goal ==
        x \notin short' =>
          /\ current' # x => buffer'[x] = <<>>
          /\ \A i \in DOMAIN buffer'[x] : buffer'[x][i].msg \notin Refused
          /\ x \in gone' \/ status'[x] # "CONNECTED" => tail'[x].kind = "none"
          /\ status'[x] = "CONNECTED" =>
               /\ \A i \in DOMAIN buffer'[x] : buffer'[x][i].by = epoch'[x]
               /\ tail'[x].kind # "none" => tail'[x].by = epoch'[x]
  <1> USE DEF setupVars, linkVars, opVars, dataVars
  <1>1. /\ TypeOK /\ NoPointer \notin Pointers
        /\ status \in [Pointers -> Statuses] /\ epoch \in [Pointers -> Nat]
        /\ buffer \in [Pointers -> Seq(Entries)] /\ tail \in [Pointers -> Stumps]
    BY NetWorkerAssumption DEF IInv, TypeOK
  <1>2. x \notin short =>
          /\ current # x => buffer[x] = <<>>
          /\ \A i \in DOMAIN buffer[x] : buffer[x][i].msg \notin Refused
          /\ x \in gone \/ status[x] # "CONNECTED" => tail[x].kind = "none"
          /\ status[x] = "CONNECTED" =>
               /\ \A i \in DOMAIN buffer[x] : buffer[x][i].by = epoch[x]
               /\ tail[x].kind # "none" => tail[x].by = epoch[x]
    BY DEF Tidy, TidySlot, NoMixing
  <1>3. ASSUME UNCHANGED <<buffer, tail, current, gone, epoch, short>>,
               \/ status'[x] = status[x]
               \/ x \notin short => tail[x].kind = "none" /\ status'[x] # "CONNECTED"
        PROVE  Goal
    BY <1>3, <1>2
  <1>4. ASSUME NEW p \in Pointers, PushBullet(p) PROVE Goal
    BY <1>4, <1>3, <1>2, <1>1 DEF PushBullet, Valid
  <1>5. ASSUME NEW st \in [Pointers -> Statuses], NEW so, NEW ops, StartAccept(st, so, ops)
        PROVE  \/ status'[x] = st[x]
               \/ st[x] = "UNCONNECT" /\ status'[x] = "WAITING"
    <2>1. status' = st \/ \E q \in Pointers : /\ st[q] = "UNCONNECT"
                                            /\ status' = [st EXCEPT ![q] = "WAITING"]
      BY <1>5 DEF StartAccept, Valid
    <2> QED BY <2>1, <1>5
  <1>6. CASE Open
    <2>1. StartAccept(status, sock, acceptOps) /\ UNCHANGED <<buffer, tail, current, gone, epoch, short>>
      BY <1>6 DEF Open
    <2>2. \/ status'[x] = status[x]
          \/ status[x] = "UNCONNECT" /\ status'[x] = "WAITING"
      BY <2>1, <1>5, <1>1
    <2> QED BY <2>1, <2>2, <1>3, <1>2
  <1>7. CASE OpenFailed \/ Shoot
    <2>1. UNCHANGED <<buffer, tail, current, gone, epoch, short>> /\ status' = status
      BY <1>7 DEF OpenFailed, Shoot
    <2> QED BY <2>1, <1>3
  <1>8. ASSUME NEW p \in Pointers, BeginLife(p), status[p] # "CONNECTED",
               current = NoPointer, current' = current, short' = short,
               x # p => \/ status'[x] = status[x]
                        \/ status[x] = "UNCONNECT" /\ status'[x] = "WAITING"
        PROVE  Goal
    <2>1. buffer' = buffer /\ tail' = tail /\ (x \notin short => buffer[x] = <<>>) /\ current' # x
      BY <1>8, <1>2, <1>1 DEF BeginLife
    <2>2. x # p => epoch'[x] = epoch[x] /\ (x \in gone' => x \in gone)
      BY <1>8, <1>1 DEF BeginLife
    <2>3. x = p /\ x \notin short => tail[x].kind = "none"
      BY <1>8, <1>2
    <2> QED BY <2>1, <2>2, <2>3, <1>2, <1>8
  <1>9. ASSUME NEW p \in Pointers, AcceptOk(p) PROVE Goal
    <2> DEFINE st == [status EXCEPT ![p] = "CONNECTED"]
    <2>1. /\ BeginLife(p) /\ current = NoPointer /\ current' = current /\ short' = short
          /\ fault = "none" /\ acceptOps[p] > 0
          /\ StartAccept(st, IF Ws THEN sock \ {p} ELSE sock \cup {p},
                         [acceptOps EXCEPT ![p] = @ - 1])
      BY <1>9 DEF AcceptOk, Idle
    <2>2. status[p] = "WAITING"
      BY <2>1, Handlers
    <2>3. st \in [Pointers -> Statuses] /\ (x # p => st[x] = status[x])
      BY <1>1 DEF Statuses
    <2>4. \/ status'[x] = st[x]
          \/ st[x] = "UNCONNECT" /\ status'[x] = "WAITING"
      BY <2>1, <2>3, <1>5
    <2> HIDE DEF st
    <2> QED BY <2>1, <2>2, <2>3, <2>4, <1>8
  <1>10. ASSUME NEW p \in Pointers, AcceptFailed(p) PROVE Goal
    <2>1. /\ StartAccept(status, sock, [acceptOps EXCEPT ![p] = @ - 1])
          /\ UNCHANGED <<buffer, tail, current, gone, epoch, short>>
      BY <1>10 DEF AcceptFailed
    <2>2. \/ status'[x] = status[x]
          \/ status[x] = "UNCONNECT" /\ status'[x] = "WAITING"
      BY <2>1, <1>5, <1>1
    <2> QED BY <2>1, <2>2, <1>3, <1>2
  <1>11. ASSUME NEW p \in Pointers, ConnectOk(p) PROVE Goal
    <2>1. status[p] = "WAITING"
      BY <1>11, Handlers DEF ConnectOk, Idle
    <2> QED BY <1>11, <2>1, <1>8, <1>1 DEF ConnectOk, Idle
  <1>12. ASSUME NEW p \in Pointers, ConnectFailed(p) PROVE Goal
    <2>1. status[p] = "WAITING" /\ Close(p) /\ UNCHANGED <<buffer, tail, current, gone, epoch, short>>
      BY <1>12, Handlers DEF ConnectFailed, Idle
    <2> QED BY <2>1, <1>3, <1>2, <1>1, CloseStatus
  <1>13. ASSUME NEW p \in Pointers, PeerGone(p) PROVE Goal
    <2>1. (p \notin short => tail[p].kind = "none") /\ gone' = gone \cup {p} /\ short' = short
      BY <1>13 DEF PeerGone, Loose, Clean
    <2> QED BY <1>13, <2>1, <1>2 DEF PeerGone
  <1>14. ASSUME NEW p \in Pointers, ReadFailed(p) PROVE Goal
    <2>1. /\ Close(p) /\ UNCHANGED <<buffer, tail, current, gone, epoch, short>>
          /\ NothingRead(p) /\ current = NoPointer
      BY <1>14 DEF ReadFailed, Idle
    <2>2. x = p /\ x \notin short => tail[x].kind = "none"
      BY <2>1, <1>2, <1>1 DEF NothingRead, Loose, Clean
    <2> QED BY <2>1, <2>2, <1>3, <1>2, <1>1, CloseStatus
  <1>15. ASSUME NEW p \in Pointers, NEW new \in Batches, NEW t \in Cuts,
                ReadData(p, new, t)
         PROVE Goal
    <2>1. /\ Receive(p, new, t) /\ current' = p /\ current = NoPointer
          /\ fault = "none" /\ readOps[p] > 0 /\ p \notin gone
          /\ UNCHANGED <<status, epoch, gone, short>>
      BY <1>15 DEF ReadData, Receive, Idle
    <2>2. status[p] = "CONNECTED"
      BY <2>1, Handlers
    <2>3. CASE x # p
      <3>1. buffer'[x] = buffer[x] /\ tail'[x] = tail[x]
        BY <2>1, <2>3, <1>1 DEF Receive
      <3> QED BY <2>1, <2>3, <3>1, <1>2, <1>1
    <2>4. CASE x = p
      <3>1. buffer'[x] = Joined(p, new) /\ tail'[x] = LeftOver(p, new, t)
        BY <2>1, <2>4, <1>1 DEF Receive
      <3>2. x \notin short => /\ buffer[p] = <<>>
                              /\ tail[p].kind # "none" => tail[p].by = epoch[p]
        BY <2>1, <2>2, <2>4, <1>1, <1>2
      <3>3. x \notin short => \A i \in DOMAIN Marked(p, new) :
                /\ Marked(p, new)[i].by = epoch[p]
                /\ Marked(p, new)[i].msg \notin Refused
        BY <3>2, <2>1, <2>4 DEF Marked, Receive, Loose, Clean
      <3>4. x \notin short => Joined(p, new) = Marked(p, new)
        BY <3>2, <1>1, MarkedType DEF Joined
      <3>5. x \notin short =>
              (LeftOver(p, new, t).kind # "none" => LeftOver(p, new, t).by = epoch[p])
        BY <3>2 DEF LeftOver, NoTail
      <3> QED BY <2>1, <2>2, <2>4, <3>1, <3>3, <3>4, <3>5
    <2> QED BY <2>3, <2>4
  <1>16. ASSUME NEW p \in Pointers, NEW new \in Batches, NEW t \in Cuts,
                ReadShort(p, new, t)
         PROVE Goal
    <2>1. /\ Receive(p, new, t) /\ Close(p) /\ short' = short \cup {p}
          /\ UNCHANGED <<current, epoch, gone>>
      BY <1>16 DEF ReadShort
    <2>2. x # p => buffer'[x] = buffer[x] /\ tail'[x] = tail[x] /\ status'[x] = status[x]
      BY <2>1, <1>1, CloseStatus DEF Receive
    <2> QED BY <2>1, <2>2, <1>2
  <1>17. ASSUME NEW p \in Pointers, ParseHandled(p) PROVE Goal
    <2>1. /\ current = p /\ current' = p /\ buffer[p] # <<>>
          /\ buffer' = [buffer EXCEPT ![p] = Tail(@)]
          /\ UNCHANGED <<status, epoch, gone, tail, short>>
      BY <1>17 DEF ParseHandled
    <2>2. \A i \in DOMAIN Tail(buffer[p]) :
             i + 1 \in DOMAIN buffer[p] /\ Tail(buffer[p])[i] = buffer[p][i + 1]
      BY <2>1, <1>1
    <2>3. x # p => buffer'[x] = buffer[x]
      BY <2>1, <1>1
    <2>4. x = p => buffer'[x] = Tail(buffer[x])
      BY <2>1, <1>1
    <2> QED BY <2>1, <2>2, <2>3, <2>4, <1>2
  <1>18. ASSUME NEW p \in Pointers, ParseRefused(p) PROVE Goal
    <2>1. /\ current = p /\ buffer[p] # <<>> /\ Head(buffer[p]).msg \in Refused
          /\ Close(p) /\ current' = NoPointer
          /\ UNCHANGED <<buffer, tail, epoch, gone, short>>
      BY <1>18 DEF ParseRefused
    <2>2. x = p => x \in short
      <3>1. 1 \in DOMAIN buffer[p] /\ buffer[p][1].msg \in Refused
        BY <2>1, <1>1
      <3> QED BY <3>1, <1>2
    <2>3. x # p => status'[x] = status[x] /\ current # x
      BY <2>1, <1>1, CloseStatus
    <2> QED BY <2>1, <2>2, <2>3, <1>2
  <1>19. ASSUME NEW p \in Pointers, ParseDone(p) PROVE Goal
    BY <1>19, <1>2, <1>1 DEF ParseDone
  <1>20. ASSUME NEW p \in Pointers, AcceptAborts(p) \/ HandleReconnect(p) \/ SendAborts(p)
         PROVE  Goal
    <2>1. UNCHANGED <<buffer, tail, current, gone, epoch, short>> /\ status' = status
      BY <1>20 DEF AcceptAborts, HandleReconnect, SendAborts
    <2> QED BY <2>1, <1>3
  <1>21. CASE UNCHANGED vars
    <2>1. UNCHANGED <<buffer, tail, current, gone, epoch, short>> /\ status' = status
      BY <1>21 DEF vars
    <2> QED BY <2>1, <1>3
  <1> QED
    BY <1>4, <1>6, <1>7, <1>9, <1>10, <1>11, <1>12, <1>13, <1>14, <1>15, <1>16, <1>17,
       <1>18, <1>19, <1>20, <1>21
    DEF Next, Setup, Reading, Rest

\* Among clean clients, and where no read ended within a header, no packet is put
\* together from the bytes of two connections, though the receive buffer passes
\* from one to the next (net_worker.hpp:130-208).
THEOREM NoMixingCorrect ==
    ASSUME Clean PROVE Spec => []NoMixing
  <1>1. Init => Tidy /\ NoMixing
    BY DEF Init, Tidy, TidySlot, NoMixing, NoTail
  <1>2. IInv /\ Tidy /\ NoMixing /\ [Next]_vars => Tidy' /\ NoMixing'
    BY TidyStep
  <1> QED BY <1>1, <1>2, IInvHolds, PTL DEF Spec
=============================================================================
