----------------------------- MODULE LinkedQueue -----------------------------
(***************************************************************************)
(* The queue that net_msg_queue and net_session_queue have in common       *)
(* (0old/server/net_mgr/net_queue.cpp): head, tail, and in each element a  *)
(* pointer to the next.  A queue is a record of two pointers; next maps    *)
(* every element to what its own pointer holds.                            *)
(***************************************************************************)
EXTENDS Naturals, Sequences

CONSTANT Null       \* nullptr

EmptyQueue == [head |-> Null, tail |-> Null]

Enqueue(q, n) == [head |-> IF q.tail = Null THEN n ELSE q.head, tail |-> n]

EnqueueNext(q, next, n) ==
    IF q.tail = Null THEN next ELSE [next EXCEPT ![q.tail] = n]

\* Faulty variant, not part of the specification.
M_DequeueKeepsTail(q, next) == [head |-> next[q.head], tail |-> q.tail]

\* Of a queue with a head only.
Dequeue(q, next) ==
    [head |-> next[q.head],
     tail |-> IF next[q.head] = Null THEN Null ELSE q.tail]

DequeueNext(q, next) == [next EXCEPT ![q.head] = Null]

\* The queue holds exactly the elements of line, in that order.
Holds(q, next, line) ==
    IF line = <<>> THEN q = EmptyQueue
    ELSE /\ q = [head |-> line[1], tail |-> line[Len(line)]]
         /\ \A i \in 1..(Len(line) - 1) : next[line[i]] = line[i + 1]
         /\ next[line[Len(line)]] = Null
=============================================================================
