----------------------------- MODULE NetWorker -----------------------------
(***************************************************************************)
(* net_worker (source/net_worker.hpp): a fixed pool of connection slots    *)
(* ("pointers") driven by one boost::asio io_context.  Inbound slots are   *)
(* filled by a chain of async_accept calls, outward slots ("bullets") keep *)
(* one link to a remote server alive by reconnecting after every loss.     *)
(*                                                                         *)
(* The io_context has one thread, so a completion handler runs to its end  *)
(* before another starts: each handler is one action, except the packet    *)
(* loop of parse_data, whose iterations are actions of their own because   *)
(* each calls out to the application; while `current` names the slot being *)
(* parsed no other handler of the worker runs.                             *)
(*                                                                         *)
(* Data is abstracted to packets: `buffer[p]` holds the complete packets   *)
(* of m_recv_buf_ptr[0 .. m_recv_size), `tail[p]` says whether an          *)
(* incomplete one follows them.  Module Framing has the bytes, and says    *)
(* when a packet step stands for what happens to them: whenever memcpy()   *)
(* moves what is left in the buffer unharmed, which it need not do where   *)
(* source and destination overlap.                                         *)
(***************************************************************************)
EXTENDS Naturals, Sequences, FiniteSets

CONSTANTS
    Pointers,   \* the slots made by init(): ids 1 .. pointer_num
    NoPointer,  \* no slot
    Bullets,    \* how many times main calls push_bullet()
    Listens,    \* does main call open()?
    Ws,         \* the ws argument of open(): inbound links are WebSockets
    Packets,    \* what a complete packet may say
    Refused,    \* the packets parse_msg() returns false for
    Tails,      \* how a read may cut a packet: "stub" (under 4 bytes), "part"
    Abrupt,     \* does a peer leave, or send nothing, in the middle of a packet,
                \* or send what is refused?
    MaxBatch,   \* bound: complete packets one read brings
    MaxLives    \* bound: connections a slot carries one after the other

ASSUME NetWorkerAssumption ==
    /\ NoPointer \notin Pointers
    /\ IsFiniteSet(Pointers) /\ Bullets <= Cardinality(Pointers)
    /\ Bullets \in Nat /\ MaxBatch \in Nat /\ MaxLives \in Nat
    /\ Listens \in BOOLEAN /\ Ws \in BOOLEAN /\ Abrupt \in BOOLEAN
    /\ Refused \subseteq Packets
    /\ Tails \subseteq {"stub", "part"}

VARIABLES
    phase,      \* how far main has come: "setup", "opened", "run"
    listening,  \* open() succeeded and started the accept chain
    outward,    \* keys of m_outward_ptr_umap
    status,     \* m_status of each slot
    sock,       \* slots whose m_socket.is_open()
    stream,     \* m_ws_ptr: 0 is null, else the life whose connection it holds
    epoch,      \* history: the number of connections the slot has carried
    acceptOps,  \* outstanding async_accept calls, per slot they fill
    connectOps, \* outstanding async_connect calls
    waitOps,    \* outstanding waits of the reconnect timer
    readOps,    \* outstanding async_read_some calls
    current,    \* the slot whose parse_data() is running
    buffer,     \* complete packets in the receive buffer
    tail,       \* the incomplete packet behind them
    gone,       \* slots whose peer has closed or reset the connection
    lost,       \* history: slots whose async_accept failed
    short,      \* history: slots closed because a read ended within a header
    fault       \* why the event loop has stopped; "none" while it runs

setupVars == <<phase, listening, outward>>
linkVars  == <<status, sock, stream, epoch, gone, lost, short>>
opVars    == <<acceptOps, connectOps, waitOps, readOps>>
dataVars  == <<buffer, tail>>
vars == <<setupVars, linkVars, opVars, dataVars, current, fault>>

Statuses == {"UNCONNECT", "WAITING", "CONNECTED"}

\* What can end the event loop: pop_pointer() found no slot and its 0 is
\* dereferenced; remote_endpoint() or the WebSocket handshake throws out of the
\* accept handler, or that handshake blocks for ever; a blocking write throws out
\* of a destructor, or blocks for ever.
Faults == {"none", "pool", "endpoint", "handshake", "stall", "write"}

\* A complete packet in a buffer, an incomplete one behind them, or none.
Entries == [msg : Packets, by : Nat]
Stumps == [kind : {"none", "stub", "part"}, by : Nat]
NoTail == [kind |-> "none", by |-> 0]

\* A handler runs only when the event loop is between two handlers.
Idle == phase = "run" /\ fault = "none" /\ current = NoPointer

Init ==
    /\ phase = "setup" /\ listening = FALSE /\ outward = {}
    /\ status = [p \in Pointers |-> "UNCONNECT"]
    /\ sock = {}
    /\ stream = [p \in Pointers |-> 0]
    /\ epoch = [p \in Pointers |-> 0]
    /\ acceptOps = [p \in Pointers |-> 0]
    /\ connectOps = [p \in Pointers |-> 0]
    /\ waitOps = [p \in Pointers |-> 0]
    /\ readOps = [p \in Pointers |-> 0]
    /\ current = NoPointer
    /\ buffer = [p \in Pointers |-> <<>>]
    /\ tail = [p \in Pointers |-> NoTail]
    /\ gone = {} /\ lost = {} /\ short = {}
    /\ fault = "none"

-----------------------------------------------------------------------------
\* The slots pop_pointer() may return.  It takes the first valid one in the
\* iteration order of an unordered_map, which the language leaves open.
Valid(st) == {p \in Pointers : st[p] = "UNCONNECT"}

\* start_accept(), called when the slots' statuses are st and the open sockets
\* so: pop a slot, set it waiting, accept into its socket.
StartAccept(st, so, ops) ==
    IF Valid(st) = {}
    THEN /\ fault' = "pool"
         /\ status' = st /\ sock' = so /\ acceptOps' = ops
    ELSE \E q \in Valid(st) :
         /\ status' = [st EXCEPT ![q] = "WAITING"]
         /\ sock' = so \ {q}
         /\ acceptOps' = [ops EXCEPT ![q] = @ + 1]
         /\ UNCHANGED fault

\* Faulty variants, M_..., each the mistake its name tells; they are not part of
\* the specification and stand before the definition they replace.
M_CloseWithoutTimer(p) ==
    /\ status' = [status EXCEPT ![p] = "WAITING"]
    /\ sock' = sock \ {p}
    /\ UNCHANGED <<waitOps, stream>>

M_CloseKeepsLinkSocket(p) ==
    /\ status' = [status EXCEPT ![p] = "WAITING"]
    /\ waitOps' = [waitOps EXCEPT ![p] = 1]
    /\ UNCHANGED <<sock, stream>>

M_CloseKeepsSlot(p) ==
    /\ status' = [status EXCEPT ![p] = "WAITING"]
    /\ sock' = sock \ {p}
    /\ UNCHANGED <<waitOps, stream>>

M_CloseKeepsSocket(p) ==
    /\ status' = [status EXCEPT ![p] = "UNCONNECT"]
    /\ UNCHANGED <<sock, waitOps, stream>>

\* close(p) up to the m_disconnect_handler call: an outward slot waits for its
\* reconnect timer (expires_from_now aborts an earlier wait, whose handler then
\* returns at once), an inbound slot returns to the pool.  set_unconnect()
\* deletes the WebSocket stream only inside `if (m_socket.is_open())`.
CloseOutward(p) ==
    /\ status' = [status EXCEPT ![p] = "WAITING"]
    /\ sock' = sock \ {p}
    /\ waitOps' = [waitOps EXCEPT ![p] = 1]
    /\ UNCHANGED stream

CloseInbound(p) ==
    /\ status' = [status EXCEPT ![p] = "UNCONNECT"]
    /\ sock' = sock \ {p}
    /\ stream' = IF p \in sock THEN [stream EXCEPT ![p] = 0] ELSE stream
    /\ UNCHANGED waitOps

Close(p) == IF p \in outward THEN CloseOutward(p) ELSE CloseInbound(p)

M_BeginLifeResetsBuffer(p) ==
    /\ epoch[p] < MaxLives
    /\ epoch' = [epoch EXCEPT ![p] = @ + 1]
    /\ gone' = gone \ {p}
    /\ readOps' = [readOps EXCEPT ![p] = @ + 1]
    /\ buffer' = [buffer EXCEPT ![p] = <<>>]
    /\ UNCHANGED tail

\* A new connection is in place on slot p; read_start() posts its first read.
\* Neither m_recv_size nor the buffer is touched.
BeginLife(p) ==
    /\ epoch[p] < MaxLives
    /\ epoch' = [epoch EXCEPT ![p] = @ + 1]
    /\ gone' = gone \ {p}
    /\ readOps' = [readOps EXCEPT ![p] = @ + 1]
    /\ UNCHANGED <<buffer, tail>>

-----------------------------------------------------------------------------
(* Before io_context::run(): what main does with the worker.               *)

PushBullet(p) ==
    /\ phase = "setup" /\ Cardinality(outward) < Bullets
    /\ p \in Valid(status)
    /\ status' = [status EXCEPT ![p] = "WAITING"]
    /\ outward' = outward \cup {p}
    /\ UNCHANGED <<phase, listening, sock, stream, epoch, gone, lost, short, opVars,
                   dataVars, current, fault>>

Open ==
    /\ phase = "setup" /\ Listens /\ Cardinality(outward) = Bullets
    /\ phase' = "opened" /\ listening' = TRUE
    /\ StartAccept(status, sock, acceptOps)
    /\ UNCHANGED <<outward, stream, epoch, gone, lost, short, connectOps, waitOps,
                   readOps, dataVars, current>>

\* The port cannot be opened, bound or listened on: open() returns and the
\* program goes on without an accept chain.
OpenFailed ==
    /\ phase = "setup" /\ Listens /\ Cardinality(outward) = Bullets
    /\ phase' = "opened"
    /\ UNCHANGED <<listening, outward, linkVars, opVars, dataVars, current, fault>>

\* start_connect() for every bullet; async_connect opens the closed socket.
Shoot ==
    /\ phase = IF Listens THEN "opened" ELSE "setup"
    /\ Cardinality(outward) = Bullets /\ fault = "none"
    /\ phase' = "run"
    /\ sock' = sock \cup outward
    /\ connectOps' = [p \in Pointers |->
                        connectOps[p] + (IF p \in outward THEN 1 ELSE 0)]
    /\ UNCHANGED <<listening, outward, status, stream, epoch, gone, lost, short,
                   acceptOps, waitOps, readOps, dataVars, current, fault>>

-----------------------------------------------------------------------------
(* The accept chain.                                                       *)

M_AcceptKeepsOldStream(p) ==
    /\ Idle /\ acceptOps[p] > 0
    /\ BeginLife(p)
    /\ stream' = IF Ws /\ stream[p] = 0 THEN [stream EXCEPT ![p] = epoch[p] + 1]
                 ELSE stream
    /\ StartAccept([status EXCEPT ![p] = "CONNECTED"],
                   IF Ws THEN sock \ {p} ELSE sock \cup {p},
                   [acceptOps EXCEPT ![p] = @ - 1])
    /\ UNCHANGED <<setupVars, lost, short, connectOps, waitOps, current>>

\* The accept handler, without error: start(ws) moves m_socket into a new
\* stream when ws is set, posts the first read, the application's connect
\* handler runs, and the next accept is started.
AcceptOk(p) ==
    /\ Idle /\ acceptOps[p] > 0
    /\ BeginLife(p)
    /\ stream' = IF Ws THEN [stream EXCEPT ![p] = epoch[p] + 1] ELSE stream
    /\ StartAccept([status EXCEPT ![p] = "CONNECTED"],
                   IF Ws THEN sock \ {p} ELSE sock \cup {p},
                   [acceptOps EXCEPT ![p] = @ - 1])
    /\ UNCHANGED <<setupVars, lost, short, connectOps, waitOps, current>>

M_AcceptFailedReturns(p) ==
    /\ Idle /\ acceptOps[p] > 0
    /\ lost' = lost \cup {p}
    /\ acceptOps' = [acceptOps EXCEPT ![p] = @ - 1]
    /\ UNCHANGED <<setupVars, status, sock, stream, epoch, gone, short, connectOps, waitOps,
                   readOps, dataVars, current, fault>>

\* The accept handler, with an error: the slot stays WAITING for ever and the
\* next accept takes another one.
AcceptFailed(p) ==
    /\ Idle /\ acceptOps[p] > 0
    /\ lost' = lost \cup {p}
    /\ StartAccept(status, sock, [acceptOps EXCEPT ![p] = @ - 1])
    /\ UNCHANGED <<setupVars, stream, epoch, gone, short, connectOps, waitOps, readOps,
                   dataVars, current>>

\* The accept handler does not come to its end: an exception leaves it because
\* the peer has already gone when its address is asked for, or because the
\* WebSocket handshake fails; or the handshake, a blocking call, waits for a
\* client that says nothing and the loop runs no other handler.
AcceptAborts(p) ==
    /\ Idle /\ acceptOps[p] > 0
    /\ fault' \in {"endpoint"} \cup (IF Ws THEN {"handshake", "stall"} ELSE {})
    /\ UNCHANGED <<setupVars, linkVars, opVars, dataVars, current>>

-----------------------------------------------------------------------------
(* Outward links.                                                          *)

ConnectOk(p) ==
    /\ Idle /\ connectOps[p] > 0
    /\ BeginLife(p)
    /\ connectOps' = [connectOps EXCEPT ![p] = @ - 1]
    /\ status' = [status EXCEPT ![p] = "CONNECTED"]
    /\ UNCHANGED <<setupVars, sock, stream, lost, short, acceptOps, waitOps, current, fault>>

ConnectFailed(p) ==
    /\ Idle /\ connectOps[p] > 0
    /\ connectOps' = [connectOps EXCEPT ![p] = @ - 1]
    /\ Close(p)
    /\ UNCHANGED <<setupVars, epoch, gone, lost, short, acceptOps, readOps, dataVars,
                   current, fault>>

M_ReconnectWaitsAgain(p) ==
    Idle /\ waitOps[p] > 0 /\ UNCHANGED vars

\* handle_reconnect() after m_reconnect_interval seconds.
HandleReconnect(p) ==
    /\ Idle /\ waitOps[p] > 0
    /\ waitOps' = [waitOps EXCEPT ![p] = 0]
    /\ connectOps' = [connectOps EXCEPT ![p] = @ + 1]
    /\ sock' = sock \cup {p}
    /\ UNCHANGED <<setupVars, status, stream, epoch, gone, lost, short, acceptOps,
                   readOps, dataVars, current, fault>>

-----------------------------------------------------------------------------
(* Reading.                                                                *)

\* What the peer of p does need not end with its packets: it is abrupt, or its
\* bytes stand behind some of an earlier connection.
Loose(p) == Abrupt \/ p \in short

\* Environment: the peer closes or resets the connection.
PeerGone(p) ==
    /\ phase = "run" /\ fault = "none"
    /\ status[p] = "CONNECTED" /\ p \notin gone
    /\ Loose(p) \/ tail[p].kind = "none"
    /\ gone' = gone \cup {p}
    /\ UNCHANGED <<setupVars, status, sock, stream, epoch, lost, short, opVars,
                   dataVars, current, fault>>

\* A read completes with an error or without bytes: the peer has gone; the
\* buffer has no room behind the packets it is left with; or the client of a
\* WebSocket sends an empty message.
NothingRead(p) ==
    \/ p \in gone
    \/ buffer[p] # <<>>
    \/ stream[p] # 0 /\ (Loose(p) \/ tail[p].kind = "none")

M_ReadFailedRetries(p) ==
    Idle /\ readOps[p] > 0 /\ NothingRead(p) /\ UNCHANGED vars

M_ReadFailedCancelsRead(p) ==
    /\ Idle /\ readOps[p] > 0 /\ NothingRead(p)
    /\ readOps' = [readOps EXCEPT ![p] = @ - 2]
    /\ Close(p)
    /\ UNCHANGED <<setupVars, epoch, gone, lost, short, acceptOps, connectOps, dataVars,
                   current, fault>>

\* The read handler with an error or no bytes.
ReadFailed(p) ==
    /\ Idle /\ readOps[p] > 0 /\ NothingRead(p)
    /\ readOps' = [readOps EXCEPT ![p] = @ - 1]
    /\ Close(p)
    /\ UNCHANGED <<setupVars, epoch, gone, lost, short, acceptOps, connectOps, dataVars,
                   current, fault>>

\* The bytes of one read behind those already buffered: they complete the
\* packets `new` and leave an incomplete one of kind t.  A packet belongs to
\* the life (`by`) that sent its first byte.
Marked(p, new) ==
    [i \in DOMAIN new |->
        [msg |-> new[i],
         by  |-> IF i = 1 /\ tail[p].kind # "none" THEN tail[p].by ELSE epoch[p]]]

Joined(p, new) == buffer[p] \o Marked(p, new)

LeftOver(p, new, t) ==
    IF t = "none" THEN NoTail
    ELSE [kind |-> t,
          by   |-> IF new = <<>> /\ tail[p].kind # "none"
                   THEN tail[p].by ELSE epoch[p]]

Receive(p, new, t) ==
    /\ Idle /\ readOps[p] > 0 /\ p \notin gone
    /\ new = <<>> => t # "none" /\ (tail[p].kind = "part" => t = "part")
    /\ Loose(p) \/ \A i \in DOMAIN new : new[i] \notin Refused
    /\ readOps' = [readOps EXCEPT ![p] = @ - 1]
    /\ buffer' = [buffer EXCEPT ![p] = Joined(p, new)]
    /\ tail' = [tail EXCEPT ![p] = LeftOver(p, new, t)]

\* The read handler with bytes, up to the packet loop of parse_data().
ReadData(p, new, t) ==
    /\ Receive(p, new, t)
    /\ ~ (Joined(p, new) = <<>> /\ t = "stub")
    /\ current' = p
    /\ UNCHANGED <<setupVars, linkVars, acceptOps, connectOps, waitOps, fault>>

\* Fewer than 4 bytes in the buffer: parse_data() closes the slot, then falls
\* through into the packet loop, which finds nothing; read_start() sees the new
\* status and posts no read.  The bytes stay in the buffer.
ReadShort(p, new, t) ==
    /\ Receive(p, new, t)
    /\ Joined(p, new) = <<>> /\ t = "stub"
    /\ Close(p)
    /\ short' = short \cup {p}
    /\ UNCHANGED <<setupVars, epoch, gone, lost, acceptOps, connectOps, current, fault>>

\* One iteration of the loop: parse_msg() accepts the first packet.
ParseHandled(p) ==
    /\ fault = "none" /\ current = p /\ buffer[p] # <<>>
    /\ Head(buffer[p]).msg \notin Refused
    /\ buffer' = [buffer EXCEPT ![p] = Tail(@)]
    /\ UNCHANGED <<setupVars, linkVars, opVars, tail, current, fault>>

M_ParseRefusedReadsOn(p) ==
    /\ fault = "none" /\ current = p /\ buffer[p] # <<>>
    /\ Head(buffer[p]).msg \in Refused
    /\ Close(p)
    /\ current' = NoPointer
    /\ readOps' = [readOps EXCEPT ![p] = @ + 1]
    /\ UNCHANGED <<setupVars, epoch, gone, lost, short, acceptOps, connectOps, dataVars, fault>>

\* parse_msg() refuses it: the slot is closed and parse_data() returns without
\* removing the packet; read_start() posts no read.
ParseRefused(p) ==
    /\ fault = "none" /\ current = p /\ buffer[p] # <<>>
    /\ Head(buffer[p]).msg \in Refused
    /\ Close(p)
    /\ current' = NoPointer
    /\ UNCHANGED <<setupVars, epoch, gone, lost, short, acceptOps, connectOps, readOps,
                   dataVars, fault>>

M_ParseOnePerRead(p) ==
    /\ fault = "none" /\ current = p
    /\ current' = NoPointer
    /\ readOps' = [readOps EXCEPT ![p] = @ + 1]
    /\ UNCHANGED <<setupVars, linkVars, acceptOps, connectOps, waitOps, dataVars, fault>>

\* No complete packet is left: read_start() posts the next read.
ParseDone(p) ==
    /\ fault = "none" /\ current = p /\ buffer[p] = <<>>
    /\ current' = NoPointer
    /\ readOps' = [readOps EXCEPT ![p] = @ + 1]
    /\ UNCHANGED <<setupVars, linkVars, acceptOps, connectOps, waitOps, dataVars, fault>>

\* send() checks m_status and writes with the throwing overload of a blocking
\* write; the reply of a handler and the console command "hello" write from the
\* destructor of msg_send_guard.  The exception ends the process; a peer that does
\* not read lets the write, and the only thread of the loop, wait for ever.  A
\* send that succeeds changes nothing here.
SendAborts(p) ==
    /\ phase = "run" /\ fault = "none"
    /\ \/ current = NoPointer
       \/ current = p /\ buffer[p] # <<>> /\ Head(buffer[p]).msg \notin Refused
    /\ status[p] = "CONNECTED"
    /\ fault' \in {"stall"} \cup {f \in {"write"} : p \in gone}
    /\ UNCHANGED <<setupVars, linkVars, opVars, dataVars, current>>

\* Nothing more happens: the loop has stopped, or open() failed in a program
\* without bullets and only its tick timer is left.
Rest ==
    /\ \/ fault # "none"
       \/ phase = "run" /\ ~ listening /\ outward = {}
    /\ UNCHANGED vars

-----------------------------------------------------------------------------
\* What one read can bring.
Batches == UNION {[1..n -> Packets] : n \in 0..MaxBatch}
Cuts    == Tails \cup {"none"}

Setup == Open \/ OpenFailed \/ Shoot \/ \E p \in Pointers : PushBullet(p)

Reading(p) ==
    \/ ReadFailed(p)
    \/ \E new \in Batches, t \in Cuts : ReadData(p, new, t) \/ ReadShort(p, new, t)
    \/ ParseHandled(p) \/ ParseRefused(p) \/ ParseDone(p)

Next ==
    \/ Setup
    \/ \E p \in Pointers :
          \/ AcceptOk(p) \/ AcceptFailed(p) \/ AcceptAborts(p)
          \/ ConnectOk(p) \/ ConnectFailed(p) \/ HandleReconnect(p)
          \/ PeerGone(p) \/ Reading(p) \/ SendAborts(p)
    \/ Rest

\* The io_context queues ready handlers in order, so a handler that is ready
\* again and again is run: strong fairness where another handler's parse loop
\* may hold the loop in between.  Packets, peers leaving and accepts are the
\* network's business and not fair; an async_connect always completes.
Fairness ==
    /\ WF_vars(Setup)
    /\ \A p \in Pointers :
          /\ SF_vars(ConnectOk(p) \/ ConnectFailed(p))
          /\ SF_vars(HandleReconnect(p))
          /\ SF_vars(p \in gone /\ ReadFailed(p))
          /\ WF_vars(ParseHandled(p) \/ ParseRefused(p) \/ ParseDone(p))

Spec == Init /\ [][Next]_vars
FairSpec == Spec /\ Fairness
-----------------------------------------------------------------------------
(* Properties.                                                             *)

\* Every variable has its type (m_status, the maps and the buffers of
\* net_worker.hpp:210-217 and 432-440).
TypeOK ==
    /\ phase \in {"setup", "opened", "run"}
    /\ listening \in BOOLEAN
    /\ outward \subseteq Pointers
    /\ status \in [Pointers -> Statuses]
    /\ sock \subseteq Pointers
    /\ stream \in [Pointers -> Nat]
    /\ epoch \in [Pointers -> Nat]
    /\ acceptOps \in [Pointers -> Nat]
    /\ connectOps \in [Pointers -> Nat]
    /\ waitOps \in [Pointers -> Nat]
    /\ readOps \in [Pointers -> Nat]
    /\ current \in Pointers \cup {NoPointer}
    /\ buffer \in [Pointers -> Seq(Entries)]
    /\ tail \in [Pointers -> Stumps]
    /\ gone \subseteq Pointers
    /\ lost \subseteq Pointers /\ short \subseteq Pointers
    /\ fault \in Faults

Running == phase = "run" /\ fault = "none"

\* The four pieces of "one continuation per slot", by m_status and role.
FreeSlotIdle(p) ==
    status[p] = "UNCONNECT" =>
        /\ acceptOps[p] = 0 /\ connectOps[p] = 0 /\ waitOps[p] = 0 /\ readOps[p] = 0
        /\ current # p /\ p \notin outward

ConnectedSlotReads(p) ==
    status[p] = "CONNECTED" =>
        /\ acceptOps[p] = 0 /\ connectOps[p] = 0 /\ waitOps[p] = 0
        /\ readOps[p] = (IF current = p THEN 0 ELSE 1)

LinkRetries(p) ==
    status[p] = "WAITING" /\ p \in outward =>
        /\ acceptOps[p] = 0 /\ readOps[p] = 0 /\ current # p
        /\ connectOps[p] + waitOps[p] = (IF phase = "run" THEN 1 ELSE 0)

WaitingSlotAccepts(p) ==
    status[p] = "WAITING" /\ p \notin outward =>
        /\ connectOps[p] = 0 /\ waitOps[p] = 0 /\ readOps[p] = 0 /\ current # p
        /\ acceptOps[p] = (IF p \in lost THEN 0 ELSE 1)

\* While the process lives, every slot has exactly the one outstanding
\* operation its status calls for: a connected slot one read (or its parse
\* loop), a broken outward link one connect or one timer wait, an accepting
\* slot one accept, a free slot nothing.  So no handler runs for a slot that
\* has moved on, no read is posted twice into the same buffer, and no link is
\* left without anything that would ever wake it (net_worker.hpp:130-169,
\* 315-330, 369-417).
OneContinuation ==
    fault = "none" =>
        \A p \in Pointers :
            /\ FreeSlotIdle(p) /\ ConnectedSlotReads(p)
            /\ LinkRetries(p) /\ WaitingSlotAccepts(p)

\* A server that listens has one and only one accept outstanding, on a slot
\* that is WAITING and not outward: however accepts, failures and closes
\* interleave, the chain started by open() neither ends nor forks
\* (net_worker.hpp:369-388).
AcceptChain ==
    listening /\ fault = "none" =>
        \E p \in Pointers :
            /\ acceptOps[p] = 1 /\ status[p] = "WAITING" /\ p \notin outward
            /\ \A q \in Pointers \ {p} : acceptOps[q] = 0

\* pop_pointer() finds the pool empty only when every slot it could give is
\* carrying a client or was lost to a failed accept: no sequence of closes,
\* refusals and short reads leaks one (net_worker.hpp:83-95, 325-329, 382-386,
\* 419-430).
PoolLedger ==
    fault = "pool" =>
        \A p \in Pointers \ outward : status[p] = "CONNECTED" \/ p \in lost

\* A slot that is free, or waits for a client or for its timer, holds no open
\* socket: the descriptor of every connection that ended is released.  True of
\* plain TCP, where close() finds the socket in m_socket (net_worker.hpp:74-95).
ReleasedSlot ==
    \A p \in Pointers :
        status[p] # "CONNECTED" /\ connectOps[p] = 0 => p \notin sock

\* On a WebSocket server close() finds m_socket moved away and keeps m_ws_ptr.
\* Still, what a connected slot reads from and sends to is the stream of its
\* own connection, never the one a previous client left behind
\* (net_worker.hpp:51-67, 118-125, 139).
StreamIsCurrent ==
    \A p \in Pointers \ outward :
        status[p] = "CONNECTED" => stream[p] = epoch[p] /\ p \notin sock

\* If peers only leave between packets and send nothing the server refuses, then
\* on a slot that was never closed over a read of fewer than 4 bytes each packet
\* handed to the application was sent, from its first byte, over the connection
\* the slot carries now (net_worker.hpp:171-208: the buffer outlives the connection
\* and must be empty when it ends).  The exception is no fault of the peers: TCP
\* may cut a read within a header, and parse_data() then closes the slot and
\* leaves the bytes to the next client.
NoMixing ==
    \A p \in Pointers :
        status[p] = "CONNECTED" /\ p \notin short =>
            /\ \A i \in DOMAIN buffer[p] : buffer[p][i].by = epoch[p]
            /\ tail[p].kind # "none" => tail[p].by = epoch[p]

Jammed(p) == buffer[p] # <<>> /\ Head(buffer[p]).msg \in Refused /\ current # p

\* A slot closed over a refused packet keeps it at the front of its buffer, and
\* so never hands a packet to the application again: each later connection on
\* it is closed at its first read, by bytes of an earlier one
\* (net_worker.hpp:195-201 returns before the buffer is moved up).
JamIsForever ==
    [][\A p \in Pointers : Jammed(p) =>
          /\ buffer'[p] # <<>> /\ Head(buffer'[p]) = Head(buffer[p])]_vars

\* async_connect is only ever started on a closed socket, which it opens: a
\* socket that failed or was shut down is not connected again
\* (net_worker.hpp:74-81, 390-395, 404-405).
ConnectsFreshSocket ==
    [][\A p \in Pointers : connectOps'[p] > connectOps[p] => p \notin sock]_vars

\* An outward link that is down is always tried again, whichever way it broke
\* (net_worker.hpp:315-324, 409-417).
RetriesForever ==
    \A p \in Pointers :
        (p \in outward /\ status[p] # "CONNECTED")
            ~> (connectOps[p] > 0 \/ status[p] = "CONNECTED" \/ fault # "none")

\* A connection whose peer has gone is closed in the end, so its slot is freed
\* or its link retried (net_worker.hpp:144-148, 159-163).
GoneIsNoticed ==
    \A p \in Pointers :
        (status[p] = "CONNECTED" /\ p \in gone)
            ~> (status[p] # "CONNECTED" \/ fault # "none")
=============================================================================
