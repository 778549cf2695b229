------------------------------ MODULE NetQueue ------------------------------
(***************************************************************************)
(* The two levels of queues of the old network layer, lock by lock         *)
(* (0old/server/net_mgr/net_queue.cpp; net_mgr.cpp:130-149, 304-353).      *)
(* Every session has a queue of messages with a lock and a flag            *)
(* processing; a session with messages stands in the one queue of          *)
(* sessions, from which the workers take it.  push_msg holds the lock of   *)
(* the messages while it takes the one of the sessions.                    *)
(*                                                                         *)
(* Socket threads post whenever they want, a worker while it handles a     *)
(* message, to the session it serves: the reply of the application, or the *)
(* error of a write.                                                       *)
(*                                                                         *)
(* To handle a message is a call of the application, which may end the     *)
(* process (0old/server/main.cpp:32), or a blocking write to the client,   *)
(* which need not return while the client does not read                    *)
(* (net_mgr.cpp:121).                                                      *)
(***************************************************************************)
EXTENDS LinkedQueue

CONSTANTS
    Sessions,   \* net_session_t, one of each connection
    Nodes,      \* addresses a net_msg_t may get
    Posters,    \* socket threads
    Workers,    \* worker threads
    MaxPosts    \* bound: calls of push_msg

ASSUME NetQueueAssumption ==
    /\ Null \notin Sessions \cup Nodes \cup Posters \cup Workers
    /\ Posters \cap Workers = {}
    /\ MaxPosts \in Nat

Threads == Posters \cup Workers

VARIABLES
    box,        \* msg_queue of each session
    next,       \* next of each message
    processing, \* the flag of each session
    boxLock,    \* who holds the mutex of each msg_queue
    ready,      \* m_session_queue
    readyNext,  \* next of each session
    readyLock,  \* who holds the mutex of m_session_queue
    pc,         \* where a thread is
    at,         \* the session a thread works on, or Null
    message,    \* the message a thread is about to queue, or Null
    hand,       \* the message a worker has taken, or Null
    mail,       \* history: the messages of each session in order
    lineup,     \* history: the queued sessions in order
    posts,      \* history: calls of push_msg
    crashed     \* has the application ended the process?

boxVars == <<box, next, processing, boxLock, mail>>
readyVars == <<ready, readyNext, readyLock, lineup>>
vars == <<boxVars, readyVars, pc, at, message, hand, posts>>
allVars == <<vars, crashed>>

\* Where a thread goes on after push_msg.
Home(t) == IF t \in Workers THEN "handle" ELSE "idle"

\* A message is somewhere between malloc and free.
Used(n) ==
    \/ \E s \in Sessions : \E i \in DOMAIN mail[s] : mail[s][i] = n
    \/ \E t \in Threads : message[t] = n
    \/ \E w \in Workers : hand[w] = n

Init ==
    /\ box = [s \in Sessions |-> EmptyQueue]
    /\ next = [n \in Nodes |-> Null]
    /\ processing = [s \in Sessions |-> FALSE]
    /\ boxLock = [s \in Sessions |-> Null]
    /\ ready = EmptyQueue
    /\ readyNext = [s \in Sessions |-> Null]
    /\ readyLock = Null
    /\ pc = [t \in Threads |-> IF t \in Workers THEN "look" ELSE "idle"]
    /\ at = [t \in Threads |-> Null]
    /\ message = [t \in Threads |-> Null]
    /\ hand = [w \in Workers |-> Null]
    /\ mail = [s \in Sessions |-> <<>>]
    /\ lineup = <<>>
    /\ posts = 0
    /\ crashed = FALSE

-----------------------------------------------------------------------------
(* push_msg.                                                               *)

\* net_msg_queue::create; a worker posts to the session it serves.
Create(t, s, n) ==
    /\ posts < MaxPosts /\ ~Used(n)
    /\ pc[t] = Home(t) /\ (t \in Workers => s = at[t])
    /\ message' = [message EXCEPT ![t] = n]
    /\ next' = [next EXCEPT ![n] = Null]
    /\ at' = [at EXCEPT ![t] = s]
    /\ pc' = [pc EXCEPT ![t] = "enqueue"]
    /\ posts' = posts + 1
    /\ UNCHANGED <<box, processing, boxLock, mail, readyVars, hand>>

EnqueueLock(t) ==
    /\ pc[t] = "enqueue" /\ boxLock[at[t]] = Null
    /\ boxLock' = [boxLock EXCEPT ![at[t]] = t]
    /\ pc' = [pc EXCEPT ![t] = "link"]
    /\ UNCHANGED <<box, next, processing, mail, readyVars, at, message, hand, posts>>

\* The message is in the queue, and the thread goes back to what it did.
Posted(t) ==
    /\ message' = [message EXCEPT ![t] = Null]
    /\ at' = [at EXCEPT ![t] = IF t \in Workers THEN @ ELSE Null]
    /\ pc' = [pc EXCEPT ![t] = Home(t)]

\* Faulty variants, M_..., each the mistake its name tells; they are not part of
\* the specification and stand before the definition they replace.
M_LinkWithoutFlag(t) ==
    /\ pc[t] = "link"
    /\ LET s == at[t] IN
          /\ box' = [box EXCEPT ![s] = Enqueue(@, message[t])]
          /\ next' = EnqueueNext(box[s], next, message[t])
          /\ mail' = [mail EXCEPT ![s] = Append(@, message[t])]
          /\ IF processing[s]
             THEN /\ boxLock' = [boxLock EXCEPT ![s] = Null]
                  /\ Posted(t)
                  /\ UNCHANGED processing
             ELSE /\ pc' = [pc EXCEPT ![t] = "pass"]
                  /\ UNCHANGED <<processing, boxLock, at, message>>
    /\ UNCHANGED <<readyVars, hand, posts>>

\* With the lock: the message becomes the last one, and a session that is not
\* processing is passed on to the queue of sessions.
Link(t) ==
    /\ pc[t] = "link"
    /\ LET s == at[t] IN
          /\ box' = [box EXCEPT ![s] = Enqueue(@, message[t])]
          /\ next' = EnqueueNext(box[s], next, message[t])
          /\ mail' = [mail EXCEPT ![s] = Append(@, message[t])]
          /\ IF processing[s]
             THEN /\ boxLock' = [boxLock EXCEPT ![s] = Null]
                  /\ Posted(t)
                  /\ UNCHANGED processing
             ELSE /\ processing' = [processing EXCEPT ![s] = TRUE]
                  /\ pc' = [pc EXCEPT ![t] = "pass"]
                  /\ UNCHANGED <<boxLock, at, message>>
    /\ UNCHANGED <<readyVars, hand, posts>>

PassLock(t) ==
    /\ pc[t] = "pass" /\ readyLock = Null
    /\ readyLock' = t
    /\ pc' = [pc EXCEPT ![t] = "lineup"]
    /\ UNCHANGED <<boxVars, ready, readyNext, lineup, at, message, hand, posts>>

\* Both guards end here.
LineUp(t) ==
    /\ pc[t] = "lineup"
    /\ ready' = Enqueue(ready, at[t])
    /\ readyNext' = EnqueueNext(ready, readyNext, at[t])
    /\ lineup' = Append(lineup, at[t])
    /\ readyLock' = Null
    /\ boxLock' = [boxLock EXCEPT ![at[t]] = Null]
    /\ Posted(t)
    /\ UNCHANGED <<box, next, processing, mail, hand, posts>>

PushOn(t) == EnqueueLock(t) \/ Link(t) \/ PassLock(t) \/ LineUp(t)

-----------------------------------------------------------------------------
(* _work_handler.                                                          *)

TakeLock(w) ==
    /\ pc[w] = "look" /\ readyLock = Null
    /\ readyLock' = w
    /\ pc' = [pc EXCEPT ![w] = "take"]
    /\ UNCHANGED <<boxVars, ready, readyNext, lineup, at, message, hand, posts>>

\* Without a session the worker sleeps a little and looks again.
Take(w) ==
    /\ pc[w] = "take"
    /\ IF ready.head = Null
       THEN /\ pc' = [pc EXCEPT ![w] = "look"]
            /\ UNCHANGED <<ready, readyNext, lineup, at>>
       ELSE /\ at' = [at EXCEPT ![w] = ready.head]
            /\ ready' = Dequeue(ready, readyNext)
            /\ readyNext' = DequeueNext(ready, readyNext)
            /\ lineup' = Tail(lineup)
            /\ pc' = [pc EXCEPT ![w] = "dequeue"]
    /\ readyLock' = Null
    /\ UNCHANGED <<boxVars, message, hand, posts>>

DequeueLock(w) ==
    /\ pc[w] = "dequeue" /\ boxLock[at[w]] = Null
    /\ boxLock' = [boxLock EXCEPT ![at[w]] = w]
    /\ pc' = [pc EXCEPT ![w] = "unlink"]
    /\ UNCHANGED <<box, next, processing, mail, readyVars, at, message, hand, posts>>

M_UnlinkKeepsFlag(w) ==
    /\ pc[w] = "unlink"
    /\ LET s == at[w] IN
          /\ IF box[s].head = Null
             THEN /\ at' = [at EXCEPT ![w] = Null]
                  /\ pc' = [pc EXCEPT ![w] = "look"]
                  /\ UNCHANGED <<box, next, processing, mail, hand>>
             ELSE /\ hand' = [hand EXCEPT ![w] = box[s].head]
                  /\ box' = [box EXCEPT ![s] = Dequeue(@, next)]
                  /\ next' = DequeueNext(box[s], next)
                  /\ mail' = [mail EXCEPT ![s] = Tail(@)]
                  /\ pc' = [pc EXCEPT ![w] = "handle"]
                  /\ UNCHANGED <<processing, at>>
          /\ boxLock' = [boxLock EXCEPT ![s] = Null]
    /\ UNCHANGED <<readyVars, message, posts>>

\* With the lock: the first message, or the end of processing.
Unlink(w) ==
    /\ pc[w] = "unlink"
    /\ LET s == at[w] IN
          /\ IF box[s].head = Null
             THEN /\ processing' = [processing EXCEPT ![s] = FALSE]
                  /\ at' = [at EXCEPT ![w] = Null]
                  /\ pc' = [pc EXCEPT ![w] = "look"]
                  /\ UNCHANGED <<box, next, mail, hand>>
             ELSE /\ hand' = [hand EXCEPT ![w] = box[s].head]
                  /\ box' = [box EXCEPT ![s] = Dequeue(@, next)]
                  /\ next' = DequeueNext(box[s], next)
                  /\ mail' = [mail EXCEPT ![s] = Tail(@)]
                  /\ pc' = [pc EXCEPT ![w] = "handle"]
                  /\ UNCHANGED <<processing, at>>
          /\ boxLock' = [boxLock EXCEPT ![s] = Null]
    /\ UNCHANGED <<readyVars, message, posts>>

\* net_msg_queue::release; the loop asks for the next message.
Free(w) ==
    /\ pc[w] = "handle"
    /\ hand' = [hand EXCEPT ![w] = Null]
    /\ pc' = [pc EXCEPT ![w] = "dequeue"]
    /\ UNCHANGED <<boxVars, readyVars, at, message, posts>>

Work(w) == TakeLock(w) \/ Take(w) \/ DequeueLock(w) \/ Unlink(w)

\* What a thread does by itself.
Proceed(t) == PushOn(t) \/ (t \in Workers /\ Work(t))

\* To post, and to come back from handling a message, is up to clients and the
\* application.
Step ==
    \E t \in Threads :
        \/ Proceed(t)
        \/ t \in Workers /\ Free(t)
        \/ \E s \in Sessions, n \in Nodes : Create(t, s, n)

\* The application ends the process in m_message_cb.
Crash ==
    /\ ~ crashed /\ \E w \in Workers : pc[w] = "handle"
    /\ crashed' = TRUE
    /\ UNCHANGED vars

Next ==
    \/ ~ crashed /\ Step /\ UNCHANGED crashed
    \/ Crash
    \/ crashed /\ UNCHANGED allVars

Spec == Init /\ [][Next]_allVars

\* While the process lives every thread runs, and a mutex that is free again and
\* again is got in the end.  Nothing says that a message once taken is handled.
Fairness ==
    \A t \in Threads : SF_allVars(~ crashed /\ Proceed(t) /\ UNCHANGED crashed)

FairSpec == Spec /\ Fairness
-----------------------------------------------------------------------------
PCs == {"idle", "look", "take", "enqueue", "link", "pass", "lineup",
        "dequeue", "unlink", "handle"}

Queues(S) == [head : S \cup {Null}, tail : S \cup {Null}]

\* Every variable has its type (net_queue.h:11-69).
TypeOK ==
    /\ box \in [Sessions -> Queues(Nodes)] /\ next \in [Nodes -> Nodes \cup {Null}]
    /\ processing \in [Sessions -> BOOLEAN]
    /\ boxLock \in [Sessions -> Threads \cup {Null}]
    /\ ready \in Queues(Sessions) /\ readyNext \in [Sessions -> Sessions \cup {Null}]
    /\ readyLock \in Threads \cup {Null}
    /\ pc \in [Threads -> PCs] /\ at \in [Threads -> Sessions \cup {Null}]
    /\ message \in [Threads -> Nodes \cup {Null}] /\ hand \in [Workers -> Nodes \cup {Null}]
    /\ mail \in [Sessions -> Seq(Nodes)] /\ lineup \in Seq(Sessions)
    /\ posts \in Nat
    /\ crashed \in BOOLEAN

\* Whatever threads interleave, the pointers of every queue are those of its
\* elements in the order they were queued: no element is linked twice, lost or
\* reached from another queue (net_queue.cpp:31-67, 118-148).
ListsHold ==
    /\ \A s \in Sessions : Holds(box[s], next, mail[s])
    /\ Holds(ready, readyNext, lineup)

\* Where a session is: a thread is passing it on, it is queued, a worker serves it.
Places(s) ==
    {<<"passing", t>> : t \in {u \in Threads : pc[u] \in {"pass", "lineup"} /\ at[u] = s}}
        \cup {<<"queued", i>> : i \in {j \in DOMAIN lineup : lineup[j] = s}}
        \cup {<<"served", w>> : w \in {v \in Workers : at[v] = s}}

\* A session is processing exactly while it is in one place, and never in two;
\* one that is not has no messages waiting, so no message is forgotten
\* (net_mgr.cpp:141-148, 314-321).
ProcessingLedger ==
    \A s \in Sessions :
        /\ processing[s] <=> Places(s) # {}
        /\ \A p, q \in Places(s) : p = q
        /\ ~processing[s] => mail[s] = <<>>

\* Both: what the pointers and the flags say of the queues is true.
QueuesTrue == ListsHold /\ ProcessingLedger

\* The queues do what SessionQueue promises: a worker alone with its session,
\* messages in the order they were posted, each once (net_mgr.cpp:304-353).
Mailbox ==
    INSTANCE SessionQueue WITH Messages <- Nodes, serving <- [w \in Workers |-> at[w]]
SessionsServed == Mailbox!QueueSpec

\* Every message is taken in the end: no thread waits for ever for a lock, and
\* no session with messages is left out of the queue; unless the worker that
\* serves the session never comes back from handling a message, or no worker
\* does, or the process ends (net_mgr.cpp:141-148, net_queue.cpp:33, 50, 120, 135).
\* With MaxPosts the posts end; a session that is posted to without end may keep its
\* worker, and with as many of them as workers the others would wait.
EveryMessageTaken ==
    \A s \in Sessions :
        \/ []<>(mail[s] = <<>>)
        \/ \E w \in Workers : <>[](pc[w] = "handle" /\ at[w] = s)
        \/ <>[](\A w \in Workers : pc[w] = "handle")
        \/ <>crashed
=============================================================================
