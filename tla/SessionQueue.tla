---------------------------- MODULE SessionQueue ----------------------------
(***************************************************************************)
(* What the old network layer asks of its queues (0old/server/net_mgr):    *)
(* any thread posts messages to a session at any time; a worker serves one *)
(* session until it has no messages left, no other worker meanwhile, and   *)
(* takes its messages in the order they were posted.  NetQueue is how the  *)
(* code does it.                                                           *)
(***************************************************************************)
EXTENDS Naturals, Sequences

CONSTANTS
    Sessions,   \* the sessions, one of each connection
    Workers,    \* the threads of _work_handler
    Messages,   \* messages, of whatever content
    Null        \* no session, or no message

VARIABLES
    mail,       \* the messages posted to a session and not yet taken
    serving,    \* the session a worker serves, or Null
    hand        \* the message a worker has taken and not yet released, or Null

queueVars == <<mail, serving, hand>>

QueueInit ==
    /\ mail = [s \in Sessions |-> <<>>]
    /\ serving = [w \in Workers |-> Null]
    /\ hand = [w \in Workers |-> Null]

Served(s) == \E w \in Workers : serving[w] = s

\* By any thread.
Post(s, m) ==
    /\ mail' = [mail EXCEPT ![s] = Append(@, m)]
    /\ UNCHANGED <<serving, hand>>

Serve(w, s) ==
    /\ serving[w] = Null /\ mail[s] # <<>> /\ ~Served(s)
    /\ serving' = [serving EXCEPT ![w] = s]
    /\ UNCHANGED <<mail, hand>>

Receive(w) ==
    /\ serving[w] # Null /\ hand[w] = Null /\ mail[serving[w]] # <<>>
    /\ hand' = [hand EXCEPT ![w] = Head(mail[serving[w]])]
    /\ mail' = [mail EXCEPT ![serving[w]] = Tail(@)]
    /\ UNCHANGED serving

Release(w) ==
    /\ hand[w] # Null
    /\ hand' = [hand EXCEPT ![w] = Null]
    /\ UNCHANGED <<mail, serving>>

Leave(w) ==
    /\ serving[w] # Null /\ hand[w] = Null /\ mail[serving[w]] = <<>>
    /\ serving' = [serving EXCEPT ![w] = Null]
    /\ UNCHANGED <<mail, hand>>

QueueNext ==
    \/ \E s \in Sessions, m \in Messages : Post(s, m)
    \/ \E w \in Workers :
          \/ \E s \in Sessions : Serve(w, s)
          \/ Receive(w) \/ Release(w) \/ Leave(w)

QueueSpec == QueueInit /\ [][QueueNext]_queueVars

\* One worker at a time serves a session (net_mgr.cpp:141-148, 314-321).
OneWorker ==
    \A v, w \in Workers : serving[v] = serving[w] /\ serving[v] # Null => v = w
=============================================================================
