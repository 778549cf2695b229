------------------------------- MODULE NetMgr -------------------------------
(***************************************************************************)
(* The connections of the old network layer (0old/server/net_mgr/          *)
(* net_mgr.cpp).  Socket threads run the handlers: of each chain of        *)
(* accepts, which always takes an unused connection for the next client,   *)
(* and of each connection's reads, which a strand keeps apart.  Worker     *)
(* threads handle what the handlers posted and write the replies.  All of  *)
(* them may close a connection.  Posts and the workers' turns are those of *)
(* SessionQueue, which NetQueue implements; a connection is a session.     *)
(*                                                                         *)
(* A call on a socket is one step.  What bytes a read brings is open: any  *)
(* number of messages and a part of one, or a header that announces too    *)
(* much; of the bytes kept between two reads only whose they are counts.   *)
(* A message may carry the identifier of one of the layer's own events.    *)
(***************************************************************************)
EXTENDS SessionQueue, FiniteSets

CONSTANTS
    Threads,    \* how many socket threads there are
    Chains,     \* the chains of accepts, one for each of these threads; one that no
                \* client reaches may be left out
    MaxClients, \* bound: clients that connect
    MaxData     \* bound: messages that arrive

Kinds == {"connect", "data", "write", "error", "disconnect"}

ASSUME NetMgrAssumption ==
    /\ Sessions \subseteq Nat /\ IsFiniteSet(Sessions) /\ IsFiniteSet(Chains)
    /\ Null \notin Sessions \cup [kind : Kinds, of : Nat]
    /\ Threads \in Nat /\ MaxClients \in Nat /\ MaxData \in Nat

VARIABLES
    status,     \* m_status of each connection
    open,       \* m_socket.is_open()
    reads,      \* pending reads: for which client (history), of which one's
                \* socket or 0 if it was closed, and whether it got something
    strand,     \* the read handler that is running, if any
    rest,       \* the client whose bytes stand first in m_recv_buf_ptr, or 0 if
                \* m_recv_size is 0
    chain,      \* each chain: where it is, and with which connection
    closing,    \* a worker in _close(): "no", "close", "tell"
    fault,      \* "pool" once _add_pconnection() has returned nullptr, "member" once
                \* on_message() has read a member that is not there
    client,     \* history: the number of the client a connection has, or had last
    left,       \* history: this client has gone
    clients,    \* history: clients so far
    data,       \* history: messages that have arrived so far
    heard,      \* history: the client the application believes connected, or 0
    broken,     \* history: a write failed on the open socket, a header was too big, or
                \* a client sent a message with the identifier of a connect or disconnect
    overtaken,  \* history: used again while something of the last client was left
    mixed       \* history: used again with bytes of the last client in the buffer

clientVars == <<client, left, clients, data>>
socketVars == <<open, reads, clientVars>>
noteVars == <<heard, broken, overtaken, mixed>>
vars == <<queueVars, status, socketVars, strand, rest, chain, closing, fault, noteVars>>

\* A message, and the client on whose behalf it was pushed (history).
Msg(kind, of) == [kind |-> kind, of |-> of]

Idle == [at |-> "idle", of |-> 0, more |-> FALSE]

Init ==
    /\ QueueInit
    /\ status = [c \in Sessions |-> "useless"]
    /\ open = [c \in Sessions |-> FALSE]
    /\ reads = [c \in Sessions |-> <<>>]
    /\ strand = [c \in Sessions |-> Idle]
    /\ chain = [a \in Chains |-> [at |-> "startup", conn |-> Null]]
    /\ closing = [w \in Workers |-> "no"]
    /\ fault = "none"
    /\ client = [c \in Sessions |-> 0]
    /\ left = [c \in Sessions |-> FALSE]
    /\ clients = 0 /\ data = 0
    /\ heard = [c \in Sessions |-> 0]
    /\ broken = [c \in Sessions |-> FALSE]
    /\ overtaken = [c \in Sessions |-> FALSE]
    /\ mixed = [c \in Sessions |-> FALSE]
    /\ rest = [c \in Sessions |-> 0]

\* push_msg.
Push(c, msgs) == mail' = [mail EXCEPT ![c] = @ \o msgs]

\* A handler can begin: one of the socket threads runs none.
ThreadFree ==
    Cardinality({c \in Sessions : strand[c].at # "idle"})
        + Cardinality({a \in Chains :
              chain[a].at \notin {"startup", "wait", "refused", "ended"}})
    < Threads

-----------------------------------------------------------------------------
(* Accepting.                                                              *)

\* Something of the last client is left: a read, a handler, a message.
Held(c) ==
    \/ reads[c] # <<>> \/ strand[c].at # "idle"
    \/ mail[c] # <<>> \/ Served(c)
    \/ \E a \in Chains : chain[a].conn = c

\* Faulty variants, M_..., each the mistake its name tells; they are not part of
\* the specification and stand before the definition they replace.
M_AcceptPostStopped(a) ==
    /\ chain[a].at \in {"startup", "post"}
    /\ LET free == {c \in Sessions : status[c] # "start"} IN
          IF free = {}
          THEN /\ fault' = "pool"
               /\ UNCHANGED <<status, chain, overtaken, mixed>>
          ELSE LET c == CHOOSE c \in free : \A d \in free : c <= d IN
               /\ status' = [status EXCEPT ![c] = "start"]
               /\ chain' = [chain EXCEPT
                     ![a] = [at |-> IF open[c] THEN "refused" ELSE "wait", conn |-> c]]
               /\ overtaken' = [overtaken EXCEPT ![c] = @ \/ Held(c)]
               /\ mixed' = [mixed EXCEPT ![c] = @ \/ rest[c] # 0]
               /\ UNCHANGED fault
    /\ UNCHANGED <<queueVars, socketVars, strand, rest, closing, heard, broken>>

\* _accept_post(): the first unused connection; a socket that is open refuses.
AcceptPost(a) ==
    /\ chain[a].at \in {"startup", "post"}
    /\ LET free == {c \in Sessions : status[c] = "useless"} IN
          IF free = {}
          THEN /\ fault' = "pool"
               /\ UNCHANGED <<status, chain, overtaken, mixed>>
          ELSE LET c == CHOOSE c \in free : \A d \in free : c <= d IN
               /\ status' = [status EXCEPT ![c] = "start"]
               /\ chain' = [chain EXCEPT
                     ![a] = [at |-> IF open[c] THEN "refused" ELSE "wait", conn |-> c]]
               /\ overtaken' = [overtaken EXCEPT ![c] = @ \/ Held(c)]
               /\ mixed' = [mixed EXCEPT ![c] = @ \/ rest[c] # 0]
               /\ UNCHANGED fault
    /\ UNCHANGED <<queueVars, socketVars, strand, rest, closing, heard, broken>>

\* A client has connected.
Accepted(a) ==
    LET c == chain[a].conn IN
    /\ chain[a].at = "wait" /\ ThreadFree
    /\ ~open[c] /\ clients < MaxClients
    /\ open' = [open EXCEPT ![c] = TRUE]
    /\ client' = [client EXCEPT ![c] = clients + 1]
    /\ clients' = clients + 1
    /\ left' = [left EXCEPT ![c] = FALSE]
    /\ chain' = [chain EXCEPT ![a].at = "connect"]
    /\ UNCHANGED <<queueVars, status, reads, data, strand, rest, closing, fault, noteVars>>

\* The accept failed, or found its socket open: disconnected(), and the chain
\* is not continued.  The connection stays as it is.
AcceptFailed(a) ==
    LET c == chain[a].conn IN
    /\ chain[a].at \in {"wait", "refused"} /\ ThreadFree
    /\ chain' = [chain EXCEPT ![a] = IF open[c] THEN [at |-> "close", conn |-> c]
                                     ELSE [at |-> "ended", conn |-> Null]]
    /\ UNCHANGED <<queueVars, status, socketVars, strand, rest, closing, fault, noteVars>>

\* connected(): a client that has gone by now has no address, and is announced
\* after an error.
Connected(a) ==
    LET c == chain[a].conn IN
    /\ chain[a].at = "connect"
    /\ \E e \in {<<>>, <<Msg("error", client[c])>>} : Push(c, e \o <<Msg("connect", client[c])>>)
    /\ chain' = [chain EXCEPT ![a].at = "read"]
    /\ UNCHANGED <<serving, hand, status, socketVars, strand, rest, closing, fault, noteVars>>

\* _read_post().
ReadPosted(c, of) ==
    reads' = [reads EXCEPT ![c] =
        Append(@, [of |-> of, on |-> IF open[c] THEN client[c] ELSE 0, got |-> FALSE])]

\* connected() ends with it, and _accept_post() is next.
FirstRead(a) ==
    /\ chain[a].at = "read"
    /\ ReadPosted(chain[a].conn, client[chain[a].conn])
    /\ chain' = [chain EXCEPT ![a] = [at |-> "post", conn |-> Null]]
    /\ UNCHANGED <<queueVars, status, open, clientVars, strand, rest, closing, fault, noteVars>>

\* _close() after is_open(): close(), then the disconnect.
ChainClose(a) ==
    /\ chain[a].at = "close"
    /\ open' = [open EXCEPT ![chain[a].conn] = FALSE]
    /\ chain' = [chain EXCEPT ![a].at = "tell"]
    /\ UNCHANGED <<queueVars, status, reads, clientVars, strand, rest, closing, fault, noteVars>>

ChainTell(a) ==
    LET c == chain[a].conn IN
    /\ chain[a].at = "tell"
    /\ Push(c, <<Msg("disconnect", client[c])>>)
    /\ chain' = [chain EXCEPT ![a] = [at |-> "ended", conn |-> Null]]
    /\ UNCHANGED <<serving, hand, status, socketVars, strand, rest, closing, fault, noteVars>>

-----------------------------------------------------------------------------
(* Reading.                                                                *)

Without(s, i) == SubSeq(s, 1, i - 1) \o SubSeq(s, i + 1, Len(s))

\* The client leaves.
PeerGone(c) ==
    /\ open[c] /\ ~left[c]
    /\ left' = [left EXCEPT ![c] = TRUE]
    /\ UNCHANGED <<queueVars, status, open, reads, client, clients, data, strand, rest, chain,
                   closing, fault, noteVars>>

\* A read gets bytes of the client whose socket it was posted on; its handler
\* runs later.
ReadArrives(c, i) ==
    /\ open[c] /\ ~left[c] /\ reads[c][i].on = client[c] /\ ~reads[c][i].got
    /\ reads' = [reads EXCEPT ![c][i].got = TRUE]
    /\ UNCHANGED <<queueVars, status, open, clientVars, strand, rest, chain, closing, fault, noteVars>>

ReadData(c, i) ==
    /\ strand[c].at = "idle" /\ ThreadFree
    /\ reads[c][i].got
    /\ strand' = [strand EXCEPT
          ![c] = [at |-> "parse", of |-> reads[c][i].on, more |-> TRUE]]
    /\ rest' = [rest EXCEPT ![c] = IF @ = 0 THEN reads[c][i].on ELSE @]
    /\ reads' = [reads EXCEPT ![c] = Without(@, i)]
    /\ UNCHANGED <<queueVars, status, open, clientVars, chain, closing, fault, noteVars>>

\* A message of _parse_msg(), which takes it from the front of the buffer, with any
\* identifier: the workers take those of the events for the events.
Parsed(c) ==
    /\ strand[c].at = "parse" /\ data < MaxData
    /\ data' = data + 1
    /\ \E kind \in {"data", "connect", "disconnect", "error"} :
          /\ Push(c, <<Msg(kind, rest[c])>>)
          /\ broken' = [broken EXCEPT ![c] = @ \/ kind \in {"connect", "disconnect"}]
    /\ UNCHANGED <<serving, hand, status, open, reads, client, left, clients, strand, rest, chain,
                   closing, fault, heard, overtaken, mixed>>

\* What follows is_open() in _close().
Closing(c, more) ==
    IF open[c] THEN [strand[c] EXCEPT !.at = "close", !.more = more]
    ELSE IF more THEN [strand[c] EXCEPT !.at = "post"] ELSE Idle

\* A header that announces too much ends the loop after _close(), not the handler.
ParsedTooBig(c) ==
    /\ strand[c].at = "parse"
    /\ Push(c, <<Msg("error", strand[c].of)>>)
    /\ strand' = [strand EXCEPT ![c] = Closing(c, TRUE)]
    /\ broken' = [broken EXCEPT ![c] = TRUE]
    /\ UNCHANGED <<serving, hand, status, socketVars, rest, chain, closing, fault, heard,
                   overtaken, mixed>>

M_ParsedAllEnds(c) ==
    /\ strand[c].at = "parse"
    /\ strand' = [strand EXCEPT ![c] = Idle]
    /\ \/ rest' = [rest EXCEPT ![c] = 0]
       \/ UNCHANGED rest
    /\ UNCHANGED <<queueVars, status, socketVars, chain, closing, fault, noteVars>>

\* Nothing is left, or less than a message.
ParsedAll(c) ==
    /\ strand[c].at = "parse"
    /\ strand' = [strand EXCEPT ![c].at = "post"]
    /\ \/ rest' = [rest EXCEPT ![c] = 0]
       \/ UNCHANGED rest
    /\ UNCHANGED <<queueVars, status, socketVars, chain, closing, fault, noteVars>>

NextRead(c) ==
    /\ strand[c].at = "post"
    /\ ReadPosted(c, strand[c].of)
    /\ strand' = [strand EXCEPT ![c] = Idle]
    /\ UNCHANGED <<queueVars, status, open, clientVars, rest, chain, closing, fault, noteVars>>

FailsNow(c, i) ==
    /\ ~reads[c][i].got
    /\ open[c] /\ reads[c][i].on = client[c] => left[c]

\* A read fails, or brings nothing: the client has left, or the socket it was
\* posted on is closed.  What is closed then is the socket as it is now.
ReadFailed(c, i) ==
    /\ strand[c].at = "idle" /\ ThreadFree
    /\ FailsNow(c, i)
    /\ Push(c, <<Msg("error", reads[c][i].of)>>)
    /\ strand' = [strand EXCEPT ![c] =
          IF open[c] THEN [at |-> "close", of |-> reads[c][i].of, more |-> FALSE] ELSE Idle]
    /\ reads' = [reads EXCEPT ![c] = Without(@, i)]
    /\ UNCHANGED <<serving, hand, status, open, clientVars, rest, chain, closing, fault, noteVars>>

M_StrandCloseTells(c) ==
    /\ strand[c].at = "close"
    /\ open' = [open EXCEPT ![c] = FALSE]
    /\ strand' = [strand EXCEPT ![c].at = "tell"]
    /\ Push(c, <<Msg("disconnect", strand[c].of)>>)
    /\ UNCHANGED <<serving, hand, status, reads, clientVars, rest, chain, closing, fault, noteVars>>

StrandClose(c) ==
    /\ strand[c].at = "close"
    /\ open' = [open EXCEPT ![c] = FALSE]
    /\ strand' = [strand EXCEPT ![c].at = "tell"]
    /\ UNCHANGED <<queueVars, status, reads, clientVars, rest, chain, closing, fault, noteVars>>

StrandTell(c) ==
    /\ strand[c].at = "tell"
    /\ Push(c, <<Msg("disconnect", strand[c].of)>>)
    /\ strand' = [strand EXCEPT
          ![c] = IF strand[c].more THEN [@ EXCEPT !.at = "post"] ELSE Idle]
    /\ UNCHANGED <<serving, hand, status, socketVars, rest, chain, closing, fault, noteVars>>

-----------------------------------------------------------------------------
(* The workers: _work_handler() and write_msg().                           *)

workerOnly == <<socketVars, strand, rest, chain, fault>>

ServeNext(w, c) == Serve(w, c) /\ UNCHANGED <<status, workerOnly, closing, noteVars>>

TakeMessage(w) == Receive(w) /\ UNCHANGED <<status, workerOnly, closing, noteVars>>

Handling(w, kinds) == hand[w] # Null /\ closing[w] = "no" /\ hand[w].kind \in kinds

HandleConnect(w) ==
    /\ Handling(w, {"connect"})
    /\ heard' = [heard EXCEPT ![serving[w]] = hand[w].of]
    /\ Release(w)
    /\ UNCHANGED <<status, workerOnly, closing, broken, overtaken, mixed>>

HandleDisconnect(w) ==
    /\ Handling(w, {"disconnect"})
    /\ status' = [status EXCEPT ![serving[w]] = "stop"]
    /\ heard' = [heard EXCEPT ![serving[w]] = 0]
    /\ Release(w)
    /\ UNCHANGED <<workerOnly, closing, broken, overtaken, mixed>>

HandleError(w) ==
    /\ Handling(w, {"error"})
    /\ Release(w)
    /\ UNCHANGED <<status, workerOnly, closing, noteVars>>

\* on_message() sends every message back; of one without members it first reads
\* outside an array, which may end the process.
HandleData(w) ==
    /\ Handling(w, {"data"})
    /\ \/ /\ Push(serving[w], <<Msg("write", hand[w].of)>>)
          /\ hand' = [hand EXCEPT ![w] = Null]
          /\ UNCHANGED fault
       \/ fault' = "member" /\ UNCHANGED <<mail, hand>>
    /\ UNCHANGED <<serving, status, socketVars, strand, rest, chain, closing, noteVars>>

Write(w) ==
    /\ Handling(w, {"write"}) /\ open[serving[w]]
    /\ Release(w)
    /\ UNCHANGED <<status, workerOnly, closing, noteVars>>

\* write_some() reports an error: on a closed socket always, on an open one only
\* if the client has left, and not always then.
WriteFailed(w) ==
    LET c == serving[w] IN
    /\ Handling(w, {"write"}) /\ (open[c] => left[c])
    /\ Push(c, <<Msg("error", hand[w].of)>>)
    /\ IF open[c]
       THEN /\ closing' = [closing EXCEPT ![w] = "close"]
            /\ broken' = [broken EXCEPT ![c] = TRUE]
            /\ UNCHANGED hand
       ELSE /\ hand' = [hand EXCEPT ![w] = Null]
            /\ UNCHANGED <<closing, broken>>
    /\ UNCHANGED <<serving, status, workerOnly, heard, overtaken, mixed>>

WorkerClose(w) ==
    /\ closing[w] = "close"
    /\ open' = [open EXCEPT ![serving[w]] = FALSE]
    /\ closing' = [closing EXCEPT ![w] = "tell"]
    /\ UNCHANGED <<queueVars, status, reads, clientVars, strand, rest, chain, fault, noteVars>>

WorkerTell(w) ==
    /\ closing[w] = "tell"
    /\ Push(serving[w], <<Msg("disconnect", hand[w].of)>>)
    /\ hand' = [hand EXCEPT ![w] = Null]
    /\ closing' = [closing EXCEPT ![w] = "no"]
    /\ UNCHANGED <<serving, status, workerOnly, noteVars>>

\* A connection that was told to stop can be used again.
NoMessages(w) ==
    /\ Leave(w)
    /\ status' = [status EXCEPT ![serving[w]] = IF @ = "stop" THEN "useless" ELSE @]
    /\ UNCHANGED <<workerOnly, closing, noteVars>>

-----------------------------------------------------------------------------
ChainStep(a) ==
    AcceptPost(a) \/ Connected(a) \/ FirstRead(a) \/ ChainClose(a) \/ ChainTell(a)

StrandStep(c) ==
    \/ \E i \in DOMAIN reads[c] : ReadData(c, i)
    \/ Parsed(c) \/ ParsedTooBig(c) \/ ParsedAll(c) \/ NextRead(c)
    \/ StrandClose(c) \/ StrandTell(c)

WorkerStep(w) ==
    \/ \E c \in Sessions : ServeNext(w, c)
    \/ TakeMessage(w) \/ NoMessages(w)
    \/ HandleConnect(w) \/ HandleDisconnect(w) \/ HandleError(w) \/ HandleData(w)
    \/ Write(w) \/ WriteFailed(w) \/ WorkerClose(w) \/ WorkerTell(w)

\* A worker that finds no session sleeps and looks again; nothing follows a fault.
Rest ==
    /\ \/ fault # "none"
       \/ /\ \E w \in Workers : serving[w] = Null
          /\ \A c \in Sessions : mail[c] = <<>> \/ Served(c)
    /\ UNCHANGED vars

Next ==
    \/ /\ fault = "none"
       /\ \/ \E a \in Chains : ChainStep(a) \/ Accepted(a) \/ AcceptFailed(a)
          \/ \E c \in Sessions :
                \/ StrandStep(c) \/ PeerGone(c)
                \/ \E i \in DOMAIN reads[c] : ReadArrives(c, i) \/ ReadFailed(c, i)
          \/ \E w \in Workers : WorkerStep(w)
    \/ Rest

Spec == Init /\ [][Next]_vars
-----------------------------------------------------------------------------
\* The disconnect of the client is on its way: due once the socket is closed,
\* being told, told, or being handled.
DisconnectDue(c) ==
    \/ open[c] \/ strand[c].at \in {"close", "tell"}
    \/ \E i \in DOMAIN mail[c] : mail[c][i].kind = "disconnect"
    \/ \E w \in Workers : /\ serving[w] = c /\ hand[w] # Null
                          /\ closing[w] # "no" \/ hand[w].kind = "disconnect"

Holders(c) == {a \in Chains : chain[a].conn = c}

Lost(c) == status[c] = "start" /\ Holders(c) = {} /\ ~DisconnectDue(c)

\* A connection is unused, waits for a client, has one, or is being freed, and
\* never two of these; it is lost only with a chain whose accept failed.  It is
\* freed with its socket open, or used again too early, only after a failed write,
\* a header that was too big or a message that passed for a connect or disconnect
\* (net_mgr.cpp:192-212, 314-339, 370-412).
SlotLedger ==
    /\ \A c \in Sessions :
          /\ overtaken[c] => broken[c]
          /\ ~overtaken[c] =>
                /\ Cardinality(Holders(c)) <= 1
                /\ status[c] # "start" => Holders(c) = {} /\ (open[c] => broken[c])
                /\ \A a \in Holders(c) :
                      /\ chain[a].at \in {"wait", "connect", "read"}
                      /\ chain[a].at = "wait" =>
                            ~open[c] /\ reads[c] = <<>> /\ mail[c] = <<>>
    /\ (\A c \in Sessions : ~overtaken[c]) =>
          Cardinality({c \in Sessions : Lost(c)})
              = Cardinality({a \in Chains : chain[a].at = "ended"})

\* While a connection is open somebody reads it, and never two, as long as it was
\* not used again before everything of the last client had ended
\* (net_mgr.cpp:86, 152-173).
OneReader ==
    \A c \in Sessions : ~overtaken[c] =>
        LET readers == Len(reads[c]) + (IF strand[c].at = "idle" THEN 0 ELSE 1)
                + Cardinality({a \in Holders(c) : chain[a].at \in {"connect", "read"}})
        IN  readers <= 1 /\ (open[c] => readers = 1)

\* What is read, queued, handled and answered on a connection belongs to the
\* client it has now, while no write fails on an open socket, no header is too big,
\* no message passes for a connect or disconnect and no client leaves within a
\* message: then nothing of a client is left when the next one comes
\* (net_mgr.cpp:130-173, 192-212, 314-348).
AllOfThisClient ==
    \A c \in Sessions : ~broken[c] /\ ~mixed[c] =>
        /\ \A i \in DOMAIN reads[c] : reads[c][i].of = client[c]
        /\ \A i \in DOMAIN mail[c] : mail[c][i].of = client[c]
        /\ \A w \in Workers : serving[w] = c /\ hand[w] # Null => hand[w].of = client[c]

\* Then the application hears that a client connected, then its messages, then
\* that it has gone, each once and of one client at a time
\* (net_mgr.cpp:84-86, 152-189, 326-348).
HeardInOrder ==
    \A w \in Workers : LET c == serving[w] IN
        c # Null /\ hand[w] # Null /\ ~broken[c] /\ ~mixed[c] =>
            /\ hand[w].kind = "connect" => heard[c] = 0
            /\ hand[w].kind \in {"data", "disconnect"} => heard[c] = hand[w].of
=============================================================================
