------------------------------ MODULE NetHttp ------------------------------
(***************************************************************************)
(* The HTTP workers of the old server (0old/server/net_mgr/net_http.hpp).  *)
(* One thread runs the handlers of all of them.  A worker has one client   *)
(* at a time: it accepts it, reads a request, answers and accepts the next *)
(* one.  A timer of its own closes the socket under a request that takes   *)
(* too long.  An operation may be done long before its handler runs, and   *)
(* so may the wait for the timer.                                          *)
(*                                                                         *)
(* What the answer to a request is is left to the module that extends this *)
(* one.                                                                    *)
(***************************************************************************)
EXTENDS Sequences, StaticPool

CONSTANTS
    Workers,    \* m_workers
    Limit,      \* the 60 seconds, in ticks
    MaxFields,  \* bound: blocks the fields of a request take
    ReplyFields \* blocks the fields of a response take

ASSUME NetHttpAssumption ==
    /\ Limit \in Nat \ {0} /\ MaxFields \in Nat
    /\ ReplyFields \in Nat \ {0} /\ PoolSize \in Nat

Never == Limit + 1

VARIABLES
    ops,        \* operations on the socket whose handlers have not run yet
    open,       \* socket_.is_open()
    remaining,  \* ticks until request_deadline_ expires, or Never
    waits,      \* async_wait()s that wait
    due,        \* async_wait()s whose handlers are ready
    pool,       \* the pool of alloc_
    request,    \* blocks of parser_
    response,   \* blocks of string_response_
    died,       \* an exception has left m_ioc.run()
    age         \* history: ticks since the worker's client was accepted, up to Limit

timerVars == <<remaining, waits, due>>
poolVars == <<pool, request, response>>
httpVars == <<ops, open, timerVars, poolVars, died, age>>

Op(kind, result) == [kind |-> kind, result |-> result]

\* startup() starts every worker before there is a thread.
HttpInit ==
    /\ ops = [w \in Workers |-> <<Op("accept", "pending")>>]
    /\ open = [w \in Workers |-> FALSE]
    /\ remaining = [w \in Workers |-> Never]
    /\ waits = [w \in Workers |-> 1]
    /\ due = [w \in Workers |-> 0]
    /\ pool = [w \in Workers |-> EmptyPool]
    /\ request = [w \in Workers |-> 0]
    /\ response = [w \in Workers |-> 0]
    /\ died = FALSE
    /\ age = [w \in Workers |-> 0]

Pending(w, i, kind) == ops[w][i] = Op(kind, "pending")

Ready(w, i, kind, result) == ops[w][i] = Op(kind, result)

\* The operations left when the handler of the i-th runs.
Others(w, i) == SubSeq(ops[w], 1, i - 1) \o SubSeq(ops[w], i + 1, Len(ops[w]))

\* close() aborts what is going on on the socket; an accept is the acceptor's.
Aborted(s) ==
    [i \in DOMAIN s |->
        IF s[i].kind # "accept" /\ s[i].result = "pending"
        THEN Op(s[i].kind, "failed") ELSE s[i]]

-----------------------------------------------------------------------------
(* Clients and time.                                                       *)

Done(w, i, kind, result) ==
    /\ Pending(w, i, kind)
    /\ ops' = [ops EXCEPT ![w][i] = Op(kind, result)]
    /\ UNCHANGED <<open, timerVars, poolVars, died, age>>

\* A client connects, or the accept fails; a request is complete; an answer is
\* written; the client goes away before.
ClientStep(w, i) ==
    \/ \E result \in {"ok", "failed"} : Done(w, i, "accept", result)
    \/ \E result \in {"ok", "failed"} : Done(w, i, "read", result)
    \/ \E result \in {"ok", "failed"} : Done(w, i, "write", result)

\* The parser stores a field of the request that is being read.
Field(w, i) ==
    /\ Pending(w, i, "read") /\ request[w] < MaxFields
    /\ IF HasRoom(pool[w], 1)
       THEN /\ pool' = [pool EXCEPT ![w] = Alloc(@, 1)]
            /\ request' = [request EXCEPT ![w] = @ + 1]
            /\ UNCHANGED died
       ELSE /\ died' = TRUE
            /\ UNCHANGED <<pool, request>>
    /\ UNCHANGED <<ops, open, timerVars, response, age>>

Tick ==
    /\ remaining' = [w \in Workers |->
          IF remaining[w] \in {0, Never} THEN remaining[w] ELSE remaining[w] - 1]
    /\ age' = [w \in Workers |-> IF age[w] < Limit THEN age[w] + 1 ELSE Limit]
    /\ UNCHANGED <<ops, open, waits, due, poolVars, died>>

Expired(w) ==
    /\ waits[w] > 0 /\ remaining[w] = 0
    /\ waits' = [waits EXCEPT ![w] = 0]
    /\ due' = [due EXCEPT ![w] = @ + waits[w]]
    /\ UNCHANGED <<ops, open, remaining, poolVars, died, age>>

-----------------------------------------------------------------------------
(* The handlers.                                                           *)

\* accept(), behind the handler of the i-th operation.
Accept(w, i) ==
    /\ open' = [open EXCEPT ![w] = FALSE]
    /\ ops' = [ops EXCEPT ![w] = Append(Aborted(Others(w, i)), Op("accept", "pending"))]

\* expires_after() takes the waits down.
ExpiresAfterLimit(w) ==
    /\ remaining' = [remaining EXCEPT ![w] = Limit]
    /\ waits' = [waits EXCEPT ![w] = 0]
    /\ due' = [due EXCEPT ![w] = @ + waits[w]]

\* A client is there: its time begins, and read_request() makes a new parser in
\* place of the last one.
HandleAccept(w, i) ==
    /\ Ready(w, i, "accept", "ok")
    /\ open' = [open EXCEPT ![w] = TRUE]
    /\ age' = [age EXCEPT ![w] = 0]
    /\ ExpiresAfterLimit(w)
    /\ pool' = [pool EXCEPT ![w] = Dealloc(@, request[w])]
    /\ request' = [request EXCEPT ![w] = 0]
    /\ ops' = [ops EXCEPT ![w] = Append(Others(w, i), Op("read", "pending"))]
    /\ UNCHANGED <<response, died>>

HandleAcceptFailed(w, i) ==
    /\ Ready(w, i, "accept", "failed")
    /\ Accept(w, i)
    /\ UNCHANGED <<timerVars, poolVars, died, age>>

HandleReadFailed(w, i) ==
    /\ Ready(w, i, "read", "failed")
    /\ Accept(w, i)
    /\ UNCHANGED <<timerVars, poolVars, died, age>>

\* process_request(): a response with its fields, and the write of it.  A socket
\* that the deadline has closed meanwhile fails at once.
HandleRead(w, i) ==
    /\ Ready(w, i, "read", "ok")
    /\ IF HasRoom(pool[w], ReplyFields)
       THEN /\ pool' = [pool EXCEPT ![w] = Alloc(@, ReplyFields)]
            /\ response' = [response EXCEPT ![w] = ReplyFields]
            /\ ops' = [ops EXCEPT ![w] =
                  Append(Others(w, i), Op("write", IF open[w] THEN "pending" ELSE "failed"))]
            /\ UNCHANGED died
       ELSE /\ died' = TRUE
            /\ UNCHANGED <<pool, response, ops>>
    /\ UNCHANGED <<open, timerVars, request, age>>

\* process_request(), when the callback the request is for throws: nothing catches it
\* before it has left m_ioc.run().
HandleReadThrows(w, i) ==
    /\ Ready(w, i, "read", "ok")
    /\ died' = TRUE
    /\ UNCHANGED <<ops, open, timerVars, poolVars, age>>

\* Faulty variants, M_..., each the mistake its name tells; they are not part of
\* the specification and stand before the definition they replace.
M_HandleWriteKeepsResponse(w, i, result) ==
    /\ Ready(w, i, "write", result)
    /\ response' = [response EXCEPT ![w] = 0]
    /\ Accept(w, i)
    /\ UNCHANGED <<timerVars, pool, request, died, age>>

\* Written or not, the response is freed.
HandleWrite(w, i, result) ==
    /\ Ready(w, i, "write", result)
    /\ pool' = [pool EXCEPT ![w] = Dealloc(@, response[w])]
    /\ response' = [response EXCEPT ![w] = 0]
    /\ Accept(w, i)
    /\ UNCHANGED <<timerVars, request, died, age>>

M_CheckDeadlineTrusts(w) ==
    /\ due[w] > 0
    /\ open' = [open EXCEPT ![w] = FALSE]
    /\ ops' = [ops EXCEPT ![w] = Aborted(@)]
    /\ remaining' = [remaining EXCEPT ![w] = Never]
    /\ due' = [due EXCEPT ![w] = @ - 1]
    /\ waits' = [waits EXCEPT ![w] = @ + 1]
    /\ UNCHANGED <<poolVars, died, age>>

M_CheckDeadlineOnce(w) ==
    /\ due[w] > 0
    /\ due' = [due EXCEPT ![w] = @ - 1]
    /\ IF remaining[w] = 0
       THEN /\ open' = [open EXCEPT ![w] = FALSE]
            /\ ops' = [ops EXCEPT ![w] = Aborted(@)]
            /\ remaining' = [remaining EXCEPT ![w] = Never]
            /\ UNCHANGED waits
       ELSE /\ waits' = [waits EXCEPT ![w] = @ + 1]
            /\ UNCHANGED <<open, ops, remaining>>
    /\ UNCHANGED <<poolVars, died, age>>

\* check_deadline() waits again, whatever it finds; expires_at() would take down
\* waits, and there are none.
CheckDeadline(w) ==
    /\ due[w] > 0
    /\ IF remaining[w] = 0
       THEN /\ open' = [open EXCEPT ![w] = FALSE]
            /\ ops' = [ops EXCEPT ![w] = Aborted(@)]
            /\ remaining' = [remaining EXCEPT ![w] = Never]
            /\ due' = [due EXCEPT ![w] = @ - 1 + waits[w]]
            /\ waits' = [waits EXCEPT ![w] = 1]
       ELSE /\ due' = [due EXCEPT ![w] = @ - 1]
            /\ waits' = [waits EXCEPT ![w] = @ + 1]
            /\ UNCHANGED <<open, ops, remaining>>
    /\ UNCHANGED <<poolVars, died, age>>

-----------------------------------------------------------------------------
\* A worker has one operation and one wait under way.  Without a client it
\* accepts.  With one, its deadline is Limit ticks after this client came, never
\* that of an earlier one, and only then is the socket closed under the request,
\* which ends the operation (net_http.hpp:134-189, 362-380).
WorkerLedger ==
    \A w \in Workers :
        /\ Len(ops[w]) = 1
        /\ waits[w] + due[w] = 1
        /\ LET op == ops[w][1] IN
              IF op.kind = "accept" THEN ~open[w]
              ELSE IF open[w] THEN remaining[w] = Limit - age[w]
              ELSE op.result # "pending" /\ age[w] = Limit

\* While a request is read and answered, the pool holds its blocks and those of
\* its answer and nothing of the requests before: what fits once fits always
\* (net_http.hpp:173-176, 216-219, 236-237; fields_alloc.hpp:65-83).
PoolOfOneRequest ==
    \A w \in Workers :
        /\ pool[w].count = request[w] + response[w]
        /\ ops[w][1].kind # "accept" => pool[w].used = request[w] + response[w]

\* Every request ends, whatever its client does or does not do: "Request must be
\* fully processed within 60 seconds." (net_http.hpp:151).
RequestEnds ==
    \A w \in Workers :
        (\E i \in DOMAIN ops[w] : ops[w][i].kind # "accept")
            ~> (died \/ \A i \in DOMAIN ops[w] : ops[w][i].kind = "accept")
=============================================================================
