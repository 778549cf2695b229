-------------------------- MODULE NetQueue_proofs --------------------------
(***************************************************************************)
(* What holds of the old layer's queues (NetQueue), for any number of      *)
(* sessions, threads and addresses and any number of posts; and that they  *)
(* do what SessionQueue promises.                                          *)
(***************************************************************************)
EXTENDS NetQueue, TLAPS, SequenceTheorems

\* The message of a thread that is in no queue yet.
Fresh(t) == pc[t] \in {"enqueue", "link"}

\* A thread that has queued a message and passes the session on.
Passing(t) == pc[t] \in {"pass", "lineup"}

Occurs(n, line) == \E i \in DOMAIN line : line[i] = n

\* Every element stands in the line once.
Once(line) == \A i, j \in DOMAIN line : line[i] = line[j] => i = j

\* What a thread has is told by where it is.
ThreadsOK ==
    /\ \A t \in Posters : pc[t] \in {"idle", "enqueue", "link", "pass", "lineup"}
    /\ \A w \in Workers :
          /\ pc[w] \in PCs \ {"idle"}
          /\ hand[w] # Null <=> pc[w] = "handle" \/ Fresh(w) \/ Passing(w)
    /\ \A t \in Threads :
          /\ at[t] = Null <=> pc[t] \in {"idle", "look", "take"}
          /\ message[t] # Null <=> Fresh(t) \/ Passing(t)

\* A lock is held by the thread that is where it is held.
LocksOK ==
    \A t \in Threads :
        /\ \A s \in Sessions :
              boxLock[s] = t <=> at[t] = s /\ pc[t] \in {"link", "pass", "lineup", "unlink"}
        /\ readyLock = t <=> pc[t] \in {"lineup", "take"}

\* An address is of one message only: of one in one queue, or of one that a thread
\* is about to queue, whose pointer to the next is then null.
NodesOK ==
    /\ \A s \in Sessions : Once(mail[s])
    /\ \A r, s \in Sessions : \A n \in Nodes :
          Occurs(n, mail[r]) /\ Occurs(n, mail[s]) => r = s
    /\ \A t \in Threads : Fresh(t) =>
          /\ next[message[t]] = Null
          /\ \A s \in Sessions : ~Occurs(message[t], mail[s])
          /\ \A u \in Threads : Fresh(u) /\ message[u] = message[t] => u = t

PassedOn(s) == \E t \in Threads : Passing(t) /\ at[t] = s

ServedBy(s) == \E w \in Workers : at[w] = s

\* ProcessingLedger without the tuples: a session is passed on by one thread, or it
\* stands in the queue once, or one worker serves it, and it is processing exactly then.
PlacesOK ==
    /\ \A t, u \in Threads : Passing(t) /\ Passing(u) /\ at[t] = at[u] => t = u
    /\ \A v, w \in Workers : at[v] = at[w] /\ at[v] # Null => v = w
    /\ Once(lineup)
    /\ \A s \in Sessions :
          /\ ~(PassedOn(s) /\ Occurs(s, lineup))
          /\ ~(PassedOn(s) /\ ServedBy(s))
          /\ ~(ServedBy(s) /\ Occurs(s, lineup))
          /\ processing[s] <=> PassedOn(s) \/ Occurs(s, lineup) \/ ServedBy(s)
          /\ ~processing[s] => mail[s] = <<>>

\* A session that is passed on or queued has messages, and the pointer of one that
\* is not queued is null.
WaitingOK ==
    \A s \in Sessions :
        /\ PassedOn(s) \/ Occurs(s, lineup) => mail[s] # <<>>
        /\ ~Occurs(s, lineup) => readyNext[s] = Null

IInv ==
    TypeOK /\ ThreadsOK /\ LocksOK /\ ListsHold /\ NodesOK /\ PlacesOK /\ WaitingOK

-----------------------------------------------------------------------------
(* The linked queue: what holds for any set of elements.                   *)

\* The elements of a line after one more, and after one less.
LEMMA AppendOccurs ==
    ASSUME NEW S, NEW line \in Seq(S), NEW n \in S
    PROVE  /\ Append(line, n) \in Seq(S) /\ Append(line, n) # <<>>
           /\ \A m : Occurs(m, Append(line, n)) <=> m = n \/ Occurs(m, line)
           /\ Once(line) /\ ~Occurs(n, line) => Once(Append(line, n))
  <1>1. /\ Append(line, n) \in Seq(S) /\ Len(Append(line, n)) = Len(line) + 1
        /\ \A i \in 1..Len(line) : Append(line, n)[i] = line[i]
        /\ Append(line, n)[Len(line) + 1] = n
        /\ DOMAIN line = 1..Len(line) /\ Len(line) \in Nat
        /\ DOMAIN Append(line, n) = 1..(Len(line) + 1)
        /\ Append(line, n) # <<>>
    BY AppendProperties, LenProperties
  <1>2. ASSUME NEW m
        PROVE  Occurs(m, Append(line, n)) <=> m = n \/ Occurs(m, line)
    <2>1. ASSUME Occurs(m, Append(line, n)), m # n
          PROVE  Occurs(m, line)
      <3>1. PICK i \in 1..(Len(line) + 1) : Append(line, n)[i] = m
        BY <1>1, <2>1 DEF Occurs
      <3>2. i \in 1..Len(line)
        BY <1>1, <2>1, <3>1
      <3> QED BY <1>1, <3>1, <3>2 DEF Occurs
    <2>2. ASSUME Occurs(m, line)
          PROVE  Occurs(m, Append(line, n))
      <3>1. PICK i \in 1..Len(line) : line[i] = m
        BY <1>1, <2>2 DEF Occurs
      <3> QED BY <1>1, <3>1 DEF Occurs
    <2>3. Occurs(n, Append(line, n))
      BY <1>1 DEF Occurs
    <2> QED BY <2>1, <2>2, <2>3
  <1>3. ASSUME Once(line), ~Occurs(n, line)
        PROVE  Once(Append(line, n))
    <2> SUFFICES ASSUME NEW i \in 1..(Len(line) + 1), NEW j \in 1..(Len(line) + 1),
                        Append(line, n)[i] = Append(line, n)[j]
                 PROVE  i = j
      BY <1>1 DEF Once
    <2>1. \A k \in 1..Len(line) : line[k] # n
      BY <1>1, <1>3 DEF Occurs
    <2>2. CASE i \in 1..Len(line) /\ j \in 1..Len(line)
      BY <1>1, <1>3, <2>2 DEF Once
    <2>3. CASE i = Len(line) + 1 \/ j = Len(line) + 1
      BY <1>1, <2>1, <2>3
    <2> QED BY <1>1, <2>2, <2>3
  <1> QED BY <1>1, <1>2, <1>3

LEMMA TailOccurs ==
    ASSUME NEW S, NEW line \in Seq(S), line # <<>>
    PROVE  /\ Tail(line) \in Seq(S) /\ Head(line) = line[1] /\ line[1] \in S
           /\ Occurs(line[1], line)
           /\ \A m : Occurs(m, line) => m = line[1] \/ Occurs(m, Tail(line))
           /\ \A m : Occurs(m, Tail(line)) => Occurs(m, line)
           /\ Once(line) => Once(Tail(line)) /\ ~Occurs(line[1], Tail(line))
  <1>1. /\ Tail(line) \in Seq(S) /\ Len(Tail(line)) = Len(line) - 1
        /\ \A i \in 1..(Len(line) - 1) : Tail(line)[i] = line[i + 1]
        /\ Len(line) \in Nat \ {0} /\ DOMAIN line = 1..Len(line)
        /\ DOMAIN Tail(line) = 1..(Len(line) - 1)
    BY HeadTailProperties, LenProperties, EmptySeq
  <1>2. Head(line) = line[1] /\ line[1] \in S
    BY <1>1, ElementOfSeq
  <1>3. Occurs(line[1], line)
    BY <1>1 DEF Occurs
  <1>4. ASSUME NEW m, Occurs(m, line), m # line[1]
        PROVE  Occurs(m, Tail(line))
    <2>1. PICK i \in 1..Len(line) : line[i] = m
      BY <1>1, <1>4 DEF Occurs
    <2>2. i - 1 \in 1..(Len(line) - 1) /\ (i - 1) + 1 = i
      BY <1>1, <1>4, <2>1
    <2>3. Tail(line)[i - 1] = m
      BY <1>1, <2>1, <2>2
    <2> QED BY <1>1, <2>2, <2>3 DEF Occurs
  <1>5. ASSUME NEW m, Occurs(m, Tail(line))
        PROVE  \E i \in 1..Len(line) : i # 1 /\ line[i] = m
    <2>1. PICK i \in 1..(Len(line) - 1) : Tail(line)[i] = m
      BY <1>1, <1>5 DEF Occurs
    <2> QED BY <1>1, <2>1
  <1>6. ASSUME Once(line)
        PROVE  Once(Tail(line)) /\ ~Occurs(line[1], Tail(line))
    <2>1. ~Occurs(line[1], Tail(line))
      BY <1>1, <1>5, <1>6 DEF Once
    <2>2. ASSUME NEW i \in 1..(Len(line) - 1), NEW j \in 1..(Len(line) - 1),
                 Tail(line)[i] = Tail(line)[j]
          PROVE  i = j
      <3>1. line[i + 1] = line[j + 1] /\ i + 1 \in 1..Len(line) /\ j + 1 \in 1..Len(line)
        BY <1>1, <2>2
      <3>2. i + 1 = j + 1
        BY <1>1, <1>6, <3>1 DEF Once
      <3> QED BY <3>2
    <2>3. Once(Tail(line))
      BY <1>1, <2>2 DEF Once
    <2> QED BY <2>1, <2>3
  <1>7. \A m : Occurs(m, Tail(line)) => Occurs(m, line)
    BY <1>1, <1>5 DEF Occurs
  <1> QED BY <1>1, <1>2, <1>3, <1>4, <1>6, <1>7

\* The head and the tail of a queue that holds a line.
LEMMA HoldsEnds ==
    ASSUME NEW S, Null \notin S, NEW line \in Seq(S), NEW nx, NEW q, Holds(q, nx, line)
    PROVE  /\ q.head = Null <=> line = <<>>
           /\ q.tail = Null <=> line = <<>>
           /\ line # <<>> => /\ q.head = line[1] /\ q.tail = line[Len(line)]
                             /\ Occurs(q.head, line) /\ Occurs(q.tail, line)
  <1>1. CASE line = <<>>
    BY <1>1 DEF Holds, EmptyQueue
  <1>2. CASE line # <<>>
    <2>1. Len(line) \in Nat \ {0} /\ DOMAIN line = 1..Len(line)
      BY <1>2, EmptySeq, LenProperties
    <2>2. line[1] \in S /\ line[Len(line)] \in S
      BY <2>1, ElementOfSeq
    <2>3. q.head = line[1] /\ q.tail = line[Len(line)]
      BY <1>2 DEF Holds
    <2>4. Occurs(line[1], line) /\ Occurs(line[Len(line)], line)
      BY <2>1 DEF Occurs
    <2> QED BY <1>2, <2>2, <2>3, <2>4
  <1> QED BY <1>1, <1>2

\* A queue looks at the pointers of its own elements only.
LEMMA HoldsOther ==
    ASSUME NEW S, NEW line \in Seq(S), NEW q, NEW nx, NEW ny, Holds(q, nx, line),
           \A n \in S : Occurs(n, line) => ny[n] = nx[n]
    PROVE  Holds(q, ny, line)
  <1>1. CASE line = <<>>
    BY <1>1 DEF Holds
  <1>2. CASE line # <<>>
    <2>1. Len(line) \in Nat \ {0} /\ DOMAIN line = 1..Len(line)
      BY <1>2, EmptySeq, LenProperties
    <2>2. \A i \in 1..Len(line) : ny[line[i]] = nx[line[i]]
      BY <2>1, ElementOfSeq DEF Occurs
    <2> QED BY <1>2, <2>1, <2>2 DEF Holds
  <1> QED BY <1>1, <1>2

\* The positions before the last.
LEMMA Before ==
    ASSUME NEW k \in Nat \ {0}
    PROVE  /\ \A i \in 1..(k - 1) : i \in 1..k /\ i # k /\ i + 1 \in 1..k
           /\ \A i \in 1..k : i = k \/ i \in 1..(k - 1)
           /\ k \in 1..k
  OBVIOUS

\* An element that is in no queue, with a null pointer, becomes the last.
LEMMA HoldsEnqueue ==
    ASSUME NEW S, Null \notin S, NEW line \in Seq(S), Once(line),
           NEW nx \in [S -> S \cup {Null}], NEW q, Holds(q, nx, line),
           NEW n \in S, ~Occurs(n, line), nx[n] = Null
    PROVE  Holds(Enqueue(q, n), EnqueueNext(q, nx, n), Append(line, n))
  <1> DEFINE more == Append(line, n)
             ny == EnqueueNext(q, nx, n)
  <1>1. /\ more \in Seq(S) /\ Len(more) = Len(line) + 1 /\ more # <<>>
        /\ \A i \in 1..Len(line) : more[i] = line[i]
        /\ more[Len(line) + 1] = n /\ Len(line) \in Nat
    BY AppendProperties, LenProperties
  <1>2. CASE line = <<>>
    <2>1. q.tail = Null /\ Len(line) = 0
      <3>1. q.tail = Null
        BY <1>2 DEF Holds, EmptyQueue
      <3> QED BY <1>2, <3>1
    <2>2. Enqueue(q, n) = [head |-> n, tail |-> n] /\ ny = nx
      BY <2>1 DEF Enqueue, EnqueueNext
    <2> HIDE DEF more, ny
    <2> QED BY <1>1, <2>1, <2>2 DEF Holds, more, ny
  <1>3. CASE line # <<>>
    <2>1. Len(line) \in Nat \ {0} /\ DOMAIN line = 1..Len(line)
      BY <1>3, EmptySeq, LenProperties
    <2>2. /\ q = [head |-> line[1], tail |-> line[Len(line)]]
          /\ \A i \in 1..(Len(line) - 1) : nx[line[i]] = line[i + 1]
      BY <1>3 DEF Holds
    <2>3. q.tail # Null
      BY <1>3, HoldsEnds
    <2>4. Enqueue(q, n) = [head |-> line[1], tail |-> n] /\ ny = [nx EXCEPT ![line[Len(line)]] = n]
      BY <2>2, <2>3 DEF Enqueue, EnqueueNext
    <2>5. \A i \in 1..Len(line) : line[i] \in S /\ line[i] # n
      BY <2>1, ElementOfSeq DEF Occurs
    <2>6. ny[line[Len(line)]] = n /\ ny[n] = Null
      BY <2>1, <2>4, <2>5
    <2>7. ASSUME NEW i \in 1..(Len(line) - 1)
          PROVE  ny[line[i]] = line[i + 1]
      <3>1. i \in 1..Len(line) /\ i # Len(line)
        BY <2>1, <2>7, Before
      <3>2. line[i] # line[Len(line)]
        BY <2>1, <3>1, Before DEF Once
      <3> QED BY <2>2, <2>4, <2>5, <3>1, <3>2
    <2> HIDE DEF more, ny
    <2>8. \A i \in 1..(Len(more) - 1) : ny[more[i]] = more[i + 1]
      <3> SUFFICES ASSUME NEW i \in 1..Len(line)
                   PROVE  ny[more[i]] = more[i + 1]
        BY <1>1
      <3>1. CASE i = Len(line)
        BY <1>1, <2>1, <2>6, <3>1
      <3>2. CASE i # Len(line)
        <4>1. i \in 1..(Len(line) - 1) /\ i + 1 \in 1..Len(line)
          BY <2>1, <3>2, Before
        <4> QED BY <1>1, <2>7, <4>1
      <3> QED BY <3>1, <3>2
    <2>9. Enqueue(q, n) = [head |-> more[1], tail |-> more[Len(more)]] /\ ny[more[Len(more)]] = Null
      BY <1>1, <2>1, <2>4, <2>6
    <2> QED BY <1>1, <2>8, <2>9 DEF Holds, more, ny
  <1> QED BY <1>2, <1>3

\* The first element leaves, and the second is the first.
LEMMA HoldsDequeue ==
    ASSUME NEW S, Null \notin S, NEW line \in Seq(S), line # <<>>, Once(line),
           NEW nx \in [S -> S \cup {Null}], NEW q, Holds(q, nx, line)
    PROVE  Holds(Dequeue(q, nx), DequeueNext(q, nx), Tail(line))
  <1> DEFINE less == Tail(line)
             ny == DequeueNext(q, nx)
  <1>1. /\ less \in Seq(S) /\ Len(less) = Len(line) - 1
        /\ \A i \in 1..(Len(line) - 1) : less[i] = line[i + 1]
        /\ Len(line) \in Nat \ {0} /\ DOMAIN line = 1..Len(line)
    BY HeadTailProperties, LenProperties, EmptySeq
  <1>2. /\ q = [head |-> line[1], tail |-> line[Len(line)]]
        /\ \A i \in 1..(Len(line) - 1) : nx[line[i]] = line[i + 1]
        /\ nx[line[Len(line)]] = Null
    BY DEF Holds
  <1>3. \A i \in 1..Len(line) : line[i] \in S
    BY ElementOfSeq
  <1>4. ny = [nx EXCEPT ![line[1]] = Null]
    BY <1>2 DEF DequeueNext
  <1>5. CASE Len(line) = 1
    <2>1. less = <<>>
      <3>1. Len(less) = 0
        BY <1>1, <1>5
      <3> HIDE DEF less
      <3> QED BY <1>1, <3>1, EmptySeq
    <2>2. Dequeue(q, nx) = EmptyQueue
      BY <1>2, <1>5 DEF Dequeue, EmptyQueue
    <2> QED BY <2>1, <2>2 DEF Holds
  <1>6. CASE Len(line) > 1
    <2>1. nx[line[1]] = line[2] /\ line[2] # Null
      BY <1>1, <1>2, <1>3, <1>6
    <2>2. Dequeue(q, nx) = [head |-> line[2], tail |-> line[Len(line)]]
      BY <1>2, <2>1 DEF Dequeue
    <2>3. ASSUME NEW i \in 2..Len(line)
          PROVE  ny[line[i]] = nx[line[i]]
      <3>1. line[i] # line[1]
        BY <1>1, <2>3 DEF Once
      <3> QED BY <1>1, <1>3, <1>4, <2>3, <3>1
    <2> HIDE DEF less, ny
    <2>4. less # <<>> /\ less[1] = line[2] /\ less[Len(less)] = line[Len(line)]
      <3>1. Len(less) # 0 /\ 1 \in 1..(Len(line) - 1) /\ Len(less) \in 1..(Len(line) - 1)
        BY <1>1, <1>6
      <3> QED BY <1>1, <3>1
    <2>5. \A i \in 1..(Len(less) - 1) : ny[less[i]] = less[i + 1]
      <3> SUFFICES ASSUME NEW i \in 1..(Len(line) - 2)
                   PROVE  ny[line[i + 1]] = line[i + 2]
        BY <1>1
      <3>1. i + 1 \in 2..Len(line) /\ i + 1 \in 1..(Len(line) - 1) /\ (i + 1) + 1 = i + 2
        BY <1>1
      <3> QED BY <1>2, <2>3, <3>1
    <2>6. ny[less[Len(less)]] = Null
      BY <1>1, <1>2, <1>6, <2>3, <2>4
    <2> QED BY <2>2, <2>4, <2>5, <2>6 DEF Holds, less, ny
  <1> QED BY <1>1, <1>5, <1>6

-----------------------------------------------------------------------------
(* Types, threads and locks.                                               *)

\* What a thread has where it is.
LEMMA ThreadState ==
    ASSUME TypeOK, ThreadsOK, NEW t \in Threads
    PROVE  /\ pc[t] \notin {"idle", "look", "take"} => at[t] \in Sessions
           /\ Fresh(t) \/ Passing(t) => message[t] \in Nodes
           /\ pc[t] \in {"look", "take", "dequeue", "unlink", "handle"} => t \in Workers
           /\ t \in Workers <=> t \notin Posters
  BY NetQueueAssumption DEF TypeOK, ThreadsOK, Threads, PCs, Fresh, Passing

LEMMA QueueTypes ==
    ASSUME NEW S, NEW q \in Queues(S), NEW nx \in [S -> S \cup {Null}]
    PROVE  /\ \A n \in S : Enqueue(q, n) \in Queues(S)
           /\ \A n \in S : EnqueueNext(q, nx, n) \in [S -> S \cup {Null}]
           /\ q.head # Null => Dequeue(q, nx) \in Queues(S)
           /\ DequeueNext(q, nx) \in [S -> S \cup {Null}]
  BY DEF Queues, Enqueue, EnqueueNext, Dequeue, DequeueNext

LEMMA StepTypes ==
    ASSUME TypeOK, ThreadsOK, ListsHold, Step, UNCHANGED crashed
    PROVE  TypeOK'
  <1> USE DEF boxVars, readyVars
  <1>1. ASSUME NEW t \in Threads, NEW s \in Sessions, NEW n \in Nodes, Create(t, s, n)
        PROVE  TypeOK'
    <2>1. Home(t) \in PCs /\ "enqueue" \in PCs
      BY DEF Home, PCs
    <2> QED BY <1>1, <2>1 DEF TypeOK, Create
  <1>2. ASSUME NEW t \in Threads, EnqueueLock(t)
        PROVE  TypeOK'
    <2>1. at[t] \in Sessions /\ "link" \in PCs
      BY <1>2, ThreadState DEF EnqueueLock, PCs
    <2> QED BY <1>2, <2>1 DEF TypeOK, EnqueueLock
  <1>3. ASSUME NEW t \in Threads, Link(t)
        PROVE  TypeOK'
    <2>1. at[t] \in Sessions /\ message[t] \in Nodes /\ Home(t) \in PCs /\ "pass" \in PCs
      BY <1>3, ThreadState DEF Link, Fresh, PCs, Home
    <2>2. /\ Enqueue(box[at[t]], message[t]) \in Queues(Nodes)
          /\ EnqueueNext(box[at[t]], next, message[t]) \in [Nodes -> Nodes \cup {Null}]
          /\ Append(mail[at[t]], message[t]) \in Seq(Nodes)
      BY <2>1, QueueTypes, AppendProperties DEF TypeOK
    <2>3. /\ box' \in [Sessions -> Queues(Nodes)] /\ next' \in [Nodes -> Nodes \cup {Null}]
          /\ mail' \in [Sessions -> Seq(Nodes)]
      BY <1>3, <2>2 DEF TypeOK, Link
    <2>4. /\ processing' \in [Sessions -> BOOLEAN]
          /\ boxLock' \in [Sessions -> Threads \cup {Null}]
      BY <1>3, <2>1 DEF TypeOK, Link
    <2>5. pc' \in [Threads -> PCs]
      BY <1>3, <2>1 DEF TypeOK, Link, Posted
    <2>6. at' \in [Threads -> Sessions \cup {Null}]
      BY <1>3, <2>1 DEF TypeOK, Link, Posted
    <2>7. message' \in [Threads -> Nodes \cup {Null}]
      BY <1>3, <2>1 DEF TypeOK, Link, Posted
    <2> QED BY <1>3, <2>3, <2>4, <2>5, <2>6, <2>7 DEF TypeOK, Link
  <1>4. ASSUME NEW t \in Threads, PassLock(t)
        PROVE  TypeOK'
    BY <1>4 DEF TypeOK, PassLock, PCs
  <1>5. ASSUME NEW t \in Threads, LineUp(t)
        PROVE  TypeOK'
    <2>1. at[t] \in Sessions /\ Home(t) \in PCs
      BY <1>5, ThreadState DEF LineUp, PCs, Home
    <2>2. /\ ready' \in Queues(Sessions) /\ readyNext' \in [Sessions -> Sessions \cup {Null}]
          /\ lineup' \in Seq(Sessions)
      BY <1>5, <2>1, QueueTypes, AppendProperties DEF TypeOK, LineUp
    <2> QED BY <1>5, <2>1, <2>2 DEF TypeOK, LineUp, Posted
  <1>6. ASSUME NEW w \in Workers, TakeLock(w)
        PROVE  TypeOK'
    BY <1>6 DEF TypeOK, TakeLock, PCs, Threads
  <1>7. ASSUME NEW w \in Workers, Take(w)
        PROVE  TypeOK'
    <2>1. CASE ready.head = Null
      BY <1>7, <2>1 DEF TypeOK, Take, PCs
    <2>2. CASE ready.head # Null
      <3>1. lineup # <<>>
        BY <2>2 DEF ListsHold, Holds, EmptyQueue
      <3>2. ready.head \in Sessions
        BY <2>2 DEF TypeOK, Queues
      <3>3. Tail(lineup) \in Seq(Sessions)
        BY <3>1, HeadTailProperties DEF TypeOK
      <3>4. /\ Dequeue(ready, readyNext) \in Queues(Sessions)
            /\ DequeueNext(ready, readyNext) \in [Sessions -> Sessions \cup {Null}]
        BY <2>2, QueueTypes DEF TypeOK
      <3> QED BY <1>7, <2>2, <3>2, <3>3, <3>4 DEF TypeOK, Take, PCs
    <2> QED BY <2>1, <2>2
  <1>8. ASSUME NEW w \in Workers, DequeueLock(w)
        PROVE  TypeOK'
    <2>1. at[w] \in Sessions /\ w \in Threads
      BY <1>8, ThreadState DEF DequeueLock, Threads
    <2> QED BY <1>8, <2>1 DEF TypeOK, DequeueLock, PCs
  <1>9. ASSUME NEW w \in Workers, Unlink(w)
        PROVE  TypeOK'
    <2>1. at[w] \in Sessions /\ w \in Threads
      BY <1>9, ThreadState DEF Unlink, Threads
    <2>2. CASE box[at[w]].head = Null
      BY <1>9, <2>1, <2>2 DEF TypeOK, Unlink, PCs
    <2>3. CASE box[at[w]].head # Null
      <3>1. mail[at[w]] # <<>>
        <4>1. Holds(box[at[w]], next, mail[at[w]])
          BY <2>1 DEF ListsHold
        <4> QED BY <2>3, <4>1 DEF Holds, EmptyQueue
      <3>2. /\ Dequeue(box[at[w]], next) \in Queues(Nodes)
            /\ DequeueNext(box[at[w]], next) \in [Nodes -> Nodes \cup {Null}]
            /\ Tail(mail[at[w]]) \in Seq(Nodes)
            /\ box[at[w]].head \in Nodes
        BY <2>1, <2>3, <3>1, QueueTypes, HeadTailProperties DEF TypeOK, Queues
      <3>3. /\ box' \in [Sessions -> Queues(Nodes)] /\ next' \in [Nodes -> Nodes \cup {Null}]
            /\ mail' \in [Sessions -> Seq(Nodes)] /\ hand' \in [Workers -> Nodes \cup {Null}]
        BY <1>9, <2>3, <3>2 DEF TypeOK, Unlink
      <3> QED BY <1>9, <2>1, <2>3, <3>3 DEF TypeOK, Unlink, PCs
    <2> QED BY <2>2, <2>3
  <1>10. ASSUME NEW w \in Workers, Free(w)
         PROVE  TypeOK'
    BY <1>10 DEF TypeOK, Free, PCs
  <1> QED BY <1>1, <1>2, <1>3, <1>4, <1>5, <1>6, <1>7, <1>8, <1>9, <1>10
          DEF Step, Proceed, PushOn, Work

\* What a step does to what a thread has, to its hand, and to the locks.
Control(t, p, a, m) ==
    \A u \in Threads :
        /\ pc'[u] = IF u = t THEN p ELSE pc[u]
        /\ at'[u] = IF u = t THEN a ELSE at[u]
        /\ message'[u] = IF u = t THEN m ELSE message[u]

Grasp(w, n) == \A v \in Workers : hand'[v] = IF v = w THEN n ELSE hand[v]

SetLock(s, h) == \A r \in Sessions : boxLock'[r] = IF r = s THEN h ELSE boxLock[r]

\* The session a thread works on once it has posted.
Stays(t) == IF t \in Workers THEN at[t] ELSE Null

LEMMA CreateMoves ==
    ASSUME TypeOK, NEW t \in Threads, NEW s, NEW n, Create(t, s, n)
    PROVE  Control(t, "enqueue", s, n) /\ UNCHANGED <<hand, boxLock, readyLock>>
  BY DEF TypeOK, Create, Control, readyVars

LEMMA EnqueueLockMoves ==
    ASSUME TypeOK, NEW t \in Threads, EnqueueLock(t)
    PROVE  /\ Control(t, "link", at[t], message[t]) /\ UNCHANGED <<hand, readyLock>>
           /\ boxLock[at[t]] = Null /\ SetLock(at[t], t)
  BY DEF TypeOK, EnqueueLock, Control, SetLock, readyVars

LEMMA LinkMoves ==
    ASSUME TypeOK, NEW t \in Threads, Link(t)
    PROVE  /\ UNCHANGED <<hand, readyLock>>
           /\ processing[at[t]] => Control(t, Home(t), Stays(t), Null) /\ SetLock(at[t], Null)
           /\ ~processing[at[t]] => /\ Control(t, "pass", at[t], message[t])
                                    /\ UNCHANGED boxLock
  <1>1. UNCHANGED <<hand, readyLock>>
    BY DEF Link, readyVars
  <1>2. CASE processing[at[t]]
    <2>1. Posted(t) /\ boxLock' = [boxLock EXCEPT ![at[t]] = Null]
      BY <1>2 DEF Link
    <2> QED BY <1>1, <1>2, <2>1 DEF TypeOK, Posted, Control, SetLock, Stays
  <1>3. CASE ~processing[at[t]]
    <2>1. pc' = [pc EXCEPT ![t] = "pass"] /\ UNCHANGED <<boxLock, at, message>>
      BY <1>3 DEF Link
    <2> QED BY <1>1, <1>3, <2>1 DEF TypeOK, Control
  <1> QED BY <1>2, <1>3

LEMMA PassLockMoves ==
    ASSUME TypeOK, NEW t \in Threads, PassLock(t)
    PROVE  /\ Control(t, "lineup", at[t], message[t]) /\ UNCHANGED <<hand, boxLock>>
           /\ readyLock = Null /\ readyLock' = t
  BY DEF TypeOK, PassLock, Control, boxVars

LEMMA LineUpMoves ==
    ASSUME TypeOK, NEW t \in Threads, LineUp(t)
    PROVE  /\ Control(t, Home(t), Stays(t), Null) /\ UNCHANGED hand
           /\ SetLock(at[t], Null) /\ readyLock' = Null
  BY DEF TypeOK, LineUp, Posted, Control, SetLock, Stays

LEMMA TakeLockMoves ==
    ASSUME TypeOK, NEW w \in Workers, TakeLock(w)
    PROVE  /\ Control(w, "take", at[w], message[w]) /\ UNCHANGED <<hand, boxLock>>
           /\ readyLock = Null /\ readyLock' = w
  BY DEF TypeOK, TakeLock, Control, Threads, boxVars

LEMMA TakeMoves ==
    ASSUME TypeOK, NEW w \in Workers, Take(w)
    PROVE  /\ UNCHANGED <<hand, boxLock>> /\ readyLock' = Null
           /\ ready.head = Null => Control(w, "look", at[w], message[w])
           /\ ready.head # Null => Control(w, "dequeue", ready.head, message[w])
  <1>1. UNCHANGED <<hand, boxLock, message>> /\ readyLock' = Null
    BY DEF Take, boxVars
  <1>2. CASE ready.head = Null
    <2>1. pc' = [pc EXCEPT ![w] = "look"] /\ UNCHANGED at
      BY <1>2 DEF Take
    <2> QED BY <1>1, <1>2, <2>1 DEF TypeOK, Control
  <1>3. CASE ready.head # Null
    <2>1. pc' = [pc EXCEPT ![w] = "dequeue"] /\ at' = [at EXCEPT ![w] = ready.head]
      BY <1>3 DEF Take
    <2> QED BY <1>1, <1>3, <2>1 DEF TypeOK, Control
  <1> QED BY <1>2, <1>3

LEMMA DequeueLockMoves ==
    ASSUME TypeOK, NEW w \in Workers, DequeueLock(w)
    PROVE  /\ Control(w, "unlink", at[w], message[w]) /\ UNCHANGED <<hand, readyLock>>
           /\ boxLock[at[w]] = Null /\ SetLock(at[w], w)
  BY DEF TypeOK, DequeueLock, Control, SetLock, Threads, readyVars

LEMMA UnlinkMoves ==
    ASSUME TypeOK, NEW w \in Workers, Unlink(w)
    PROVE  /\ UNCHANGED readyLock /\ SetLock(at[w], Null)
           /\ box[at[w]].head = Null => Control(w, "look", Null, message[w]) /\ UNCHANGED hand
           /\ box[at[w]].head # Null => /\ Control(w, "handle", at[w], message[w])
                                        /\ Grasp(w, box[at[w]].head)
  <1>1. /\ UNCHANGED <<readyLock, message>>
        /\ boxLock' = [boxLock EXCEPT ![at[w]] = Null]
    BY DEF Unlink, readyVars
  <1>2. SetLock(at[w], Null)
    BY <1>1 DEF TypeOK, SetLock
  <1>3. CASE box[at[w]].head = Null
    <2>1. /\ pc' = [pc EXCEPT ![w] = "look"] /\ at' = [at EXCEPT ![w] = Null]
          /\ UNCHANGED hand
      BY <1>3 DEF Unlink
    <2> QED BY <1>1, <1>2, <1>3, <2>1 DEF TypeOK, Control
  <1>4. CASE box[at[w]].head # Null
    <2>1. /\ pc' = [pc EXCEPT ![w] = "handle"] /\ UNCHANGED at
          /\ hand' = [hand EXCEPT ![w] = box[at[w]].head]
      BY <1>4 DEF Unlink
    <2> QED BY <1>1, <1>2, <1>4, <2>1 DEF TypeOK, Control, Grasp
  <1> QED BY <1>3, <1>4

LEMMA FreeMoves ==
    ASSUME TypeOK, NEW w \in Workers, Free(w)
    PROVE  /\ Control(w, "dequeue", at[w], message[w]) /\ Grasp(w, Null)
           /\ UNCHANGED <<boxLock, readyLock>>
  BY DEF TypeOK, Free, Control, Grasp, Threads, boxVars, readyVars

LEMMA StepThreads ==
    ASSUME TypeOK, ThreadsOK, Step
    PROVE  ThreadsOK'
  <1>1. ASSUME NEW t \in Threads, NEW s \in Sessions, NEW n \in Nodes, Create(t, s, n)
        PROVE  ThreadsOK'
    <2>1. /\ pc[t] = Home(t)
          /\ Control(t, "enqueue", s, n) /\ UNCHANGED <<hand, boxLock, readyLock>>
      BY <1>1, CreateMoves DEF Create
    <2> QED BY <1>1, <2>1, NetQueueAssumption
            DEF ThreadsOK, Threads, Fresh, Passing, Home, Stays, PCs, Control, Grasp
  <1>2. ASSUME NEW t \in Threads, EnqueueLock(t)
        PROVE  ThreadsOK'
    <2>1. /\ pc[t] = "enqueue"
          /\ Control(t, "link", at[t], message[t]) /\ UNCHANGED <<hand, readyLock>>
          /\ boxLock[at[t]] = Null /\ SetLock(at[t], t)
      BY <1>2, EnqueueLockMoves DEF EnqueueLock
    <2> QED BY <1>2, <2>1, NetQueueAssumption
            DEF ThreadsOK, Threads, Fresh, Passing, Home, Stays, PCs, Control, Grasp
  <1>3. ASSUME NEW t \in Threads, Link(t)
        PROVE  ThreadsOK'
    <2>1. /\ pc[t] = "link"
          /\ UNCHANGED <<hand, readyLock>>
          /\ \/ Control(t, Home(t), Stays(t), Null) /\ SetLock(at[t], Null)
             \/ Control(t, "pass", at[t], message[t]) /\ UNCHANGED boxLock
      BY <1>3, LinkMoves DEF Link
    <2> QED BY <1>3, <2>1, NetQueueAssumption
            DEF ThreadsOK, Threads, Fresh, Passing, Home, Stays, PCs, Control, Grasp
  <1>4. ASSUME NEW t \in Threads, PassLock(t)
        PROVE  ThreadsOK'
    <2>1. /\ pc[t] = "pass"
          /\ Control(t, "lineup", at[t], message[t]) /\ UNCHANGED <<hand, boxLock>>
          /\ readyLock = Null /\ readyLock' = t
      BY <1>4, PassLockMoves DEF PassLock
    <2> QED BY <1>4, <2>1, NetQueueAssumption
            DEF ThreadsOK, Threads, Fresh, Passing, Home, Stays, PCs, Control, Grasp
  <1>5. ASSUME NEW t \in Threads, LineUp(t)
        PROVE  ThreadsOK'
    <2>1. /\ pc[t] = "lineup"
          /\ Control(t, Home(t), Stays(t), Null) /\ UNCHANGED hand
          /\ SetLock(at[t], Null) /\ readyLock' = Null
      BY <1>5, LineUpMoves DEF LineUp
    <2> QED BY <1>5, <2>1, NetQueueAssumption
            DEF ThreadsOK, Threads, Fresh, Passing, Home, Stays, PCs, Control, Grasp
  <1>6. ASSUME NEW w \in Workers, TakeLock(w)
        PROVE  ThreadsOK'
    <2>1. /\ pc[w] = "look"
          /\ Control(w, "take", at[w], message[w]) /\ UNCHANGED <<hand, boxLock>>
          /\ readyLock = Null /\ readyLock' = w
      BY <1>6, TakeLockMoves DEF TakeLock
    <2> QED BY <1>6, <2>1, NetQueueAssumption
            DEF ThreadsOK, Threads, Fresh, Passing, Home, Stays, PCs, Control, Grasp
  <1>7. ASSUME NEW w \in Workers, Take(w)
        PROVE  ThreadsOK'
    <2>1. /\ pc[w] = "take"
          /\ UNCHANGED <<hand, boxLock>> /\ readyLock' = Null
          /\ \/ Control(w, "look", at[w], message[w])
             \/ /\ Control(w, "dequeue", ready.head, message[w])
                /\ ready.head # Null
      BY <1>7, TakeMoves DEF Take
    <2> QED BY <1>7, <2>1, NetQueueAssumption
            DEF ThreadsOK, Threads, Fresh, Passing, Home, Stays, PCs, Control, Grasp
  <1>8. ASSUME NEW w \in Workers, DequeueLock(w)
        PROVE  ThreadsOK'
    <2>1. /\ pc[w] = "dequeue"
          /\ Control(w, "unlink", at[w], message[w]) /\ UNCHANGED <<hand, readyLock>>
          /\ boxLock[at[w]] = Null /\ SetLock(at[w], w)
      BY <1>8, DequeueLockMoves DEF DequeueLock
    <2> QED BY <1>8, <2>1, NetQueueAssumption
            DEF ThreadsOK, Threads, Fresh, Passing, Home, Stays, PCs, Control, Grasp
  <1>9. ASSUME NEW w \in Workers, Unlink(w)
        PROVE  ThreadsOK'
    <2>1. /\ pc[w] = "unlink"
          /\ UNCHANGED readyLock /\ SetLock(at[w], Null)
          /\ \/ Control(w, "look", Null, message[w]) /\ UNCHANGED hand
             \/ /\ Control(w, "handle", at[w], message[w])
                /\ Grasp(w, box[at[w]].head) /\ box[at[w]].head # Null
      BY <1>9, UnlinkMoves DEF Unlink
    <2> QED BY <1>9, <2>1, NetQueueAssumption
            DEF ThreadsOK, Threads, Fresh, Passing, Home, Stays, PCs, Control, Grasp
  <1>10. ASSUME NEW w \in Workers, Free(w)
        PROVE  ThreadsOK'
    <2>1. /\ pc[w] = "handle"
          /\ Control(w, "dequeue", at[w], message[w]) /\ Grasp(w, Null)
          /\ UNCHANGED <<boxLock, readyLock>>
      BY <1>10, FreeMoves DEF Free
    <2> QED BY <1>10, <2>1, NetQueueAssumption
            DEF ThreadsOK, Threads, Fresh, Passing, Home, Stays, PCs, Control, Grasp
  <1> QED BY <1>1, <1>2, <1>3, <1>4, <1>5, <1>6, <1>7, <1>8, <1>9, <1>10
          DEF Step, Proceed, PushOn, Work

LEMMA StepLocks ==
    ASSUME TypeOK, ThreadsOK, LocksOK, Step
    PROVE  LocksOK'
  <1>1. ASSUME NEW t \in Threads, NEW s \in Sessions, NEW n \in Nodes, Create(t, s, n)
        PROVE  LocksOK'
    <2>1. /\ pc[t] = Home(t)
          /\ Control(t, "enqueue", s, n) /\ UNCHANGED <<hand, boxLock, readyLock>>
      BY <1>1, CreateMoves DEF Create
    <2>2. /\ t \in Threads /\ Home(t) \in {"idle", "handle"}
          /\ \A u \in Threads : u # Null
      BY <1>1, NetQueueAssumption DEF Threads, Home
    <2> QED BY <2>1, <2>2 DEF LocksOK, Control, SetLock
  <1>2. ASSUME NEW t \in Threads, EnqueueLock(t)
        PROVE  LocksOK'
    <2>1. /\ pc[t] = "enqueue"
          /\ Control(t, "link", at[t], message[t]) /\ UNCHANGED <<hand, readyLock>>
          /\ boxLock[at[t]] = Null /\ SetLock(at[t], t)
      BY <1>2, EnqueueLockMoves DEF EnqueueLock
    <2>2. /\ t \in Threads /\ Home(t) \in {"idle", "handle"}
          /\ \A u \in Threads : u # Null
      BY <1>2, NetQueueAssumption DEF Threads, Home
    <2> QED BY <2>1, <2>2 DEF LocksOK, Control, SetLock
  <1>3. ASSUME NEW t \in Threads, Link(t)
        PROVE  LocksOK'
    <2>1. /\ pc[t] = "link"
          /\ UNCHANGED <<hand, readyLock>>
          /\ \/ Control(t, Home(t), Stays(t), Null) /\ SetLock(at[t], Null)
             \/ Control(t, "pass", at[t], message[t]) /\ UNCHANGED boxLock
      BY <1>3, LinkMoves DEF Link
    <2>2. /\ t \in Threads /\ Home(t) \in {"idle", "handle"}
          /\ \A u \in Threads : u # Null
      BY <1>3, NetQueueAssumption DEF Threads, Home
    <2> QED BY <2>1, <2>2 DEF LocksOK, Control, SetLock
  <1>4. ASSUME NEW t \in Threads, PassLock(t)
        PROVE  LocksOK'
    <2>1. /\ pc[t] = "pass"
          /\ Control(t, "lineup", at[t], message[t]) /\ UNCHANGED <<hand, boxLock>>
          /\ readyLock = Null /\ readyLock' = t
      BY <1>4, PassLockMoves DEF PassLock
    <2>2. /\ t \in Threads /\ Home(t) \in {"idle", "handle"}
          /\ \A u \in Threads : u # Null
      BY <1>4, NetQueueAssumption DEF Threads, Home
    <2> QED BY <2>1, <2>2 DEF LocksOK, Control, SetLock
  <1>5. ASSUME NEW t \in Threads, LineUp(t)
        PROVE  LocksOK'
    <2>1. /\ pc[t] = "lineup"
          /\ Control(t, Home(t), Stays(t), Null) /\ UNCHANGED hand
          /\ SetLock(at[t], Null) /\ readyLock' = Null
      BY <1>5, LineUpMoves DEF LineUp
    <2>2. /\ t \in Threads /\ Home(t) \in {"idle", "handle"}
          /\ \A u \in Threads : u # Null
      BY <1>5, NetQueueAssumption DEF Threads, Home
    <2> QED BY <2>1, <2>2 DEF LocksOK, Control, SetLock
  <1>6. ASSUME NEW w \in Workers, TakeLock(w)
        PROVE  LocksOK'
    <2>1. /\ pc[w] = "look"
          /\ Control(w, "take", at[w], message[w]) /\ UNCHANGED <<hand, boxLock>>
          /\ readyLock = Null /\ readyLock' = w
      BY <1>6, TakeLockMoves DEF TakeLock
    <2>2. /\ w \in Threads /\ Home(w) \in {"idle", "handle"}
          /\ \A u \in Threads : u # Null
      BY <1>6, NetQueueAssumption DEF Threads, Home
    <2> QED BY <2>1, <2>2 DEF LocksOK, Control, SetLock
  <1>7. ASSUME NEW w \in Workers, Take(w)
        PROVE  LocksOK'
    <2>1. /\ pc[w] = "take"
          /\ UNCHANGED <<hand, boxLock>> /\ readyLock' = Null
          /\ \/ Control(w, "look", at[w], message[w])
             \/ /\ Control(w, "dequeue", ready.head, message[w])
                /\ ready.head # Null
      BY <1>7, TakeMoves DEF Take
    <2>2. /\ w \in Threads /\ Home(w) \in {"idle", "handle"}
          /\ \A u \in Threads : u # Null
      BY <1>7, NetQueueAssumption DEF Threads, Home
    <2> QED BY <2>1, <2>2 DEF LocksOK, Control, SetLock
  <1>8. ASSUME NEW w \in Workers, DequeueLock(w)
        PROVE  LocksOK'
    <2>1. /\ pc[w] = "dequeue"
          /\ Control(w, "unlink", at[w], message[w]) /\ UNCHANGED <<hand, readyLock>>
          /\ boxLock[at[w]] = Null /\ SetLock(at[w], w)
      BY <1>8, DequeueLockMoves DEF DequeueLock
    <2>2. /\ w \in Threads /\ Home(w) \in {"idle", "handle"}
          /\ \A u \in Threads : u # Null
      BY <1>8, NetQueueAssumption DEF Threads, Home
    <2> QED BY <2>1, <2>2 DEF LocksOK, Control, SetLock
  <1>9. ASSUME NEW w \in Workers, Unlink(w)
        PROVE  LocksOK'
    <2>1. /\ pc[w] = "unlink"
          /\ UNCHANGED readyLock /\ SetLock(at[w], Null)
          /\ \/ Control(w, "look", Null, message[w]) /\ UNCHANGED hand
             \/ /\ Control(w, "handle", at[w], message[w])
                /\ Grasp(w, box[at[w]].head) /\ box[at[w]].head # Null
      BY <1>9, UnlinkMoves DEF Unlink
    <2>2. /\ w \in Threads /\ Home(w) \in {"idle", "handle"}
          /\ \A u \in Threads : u # Null
      BY <1>9, NetQueueAssumption DEF Threads, Home
    <2> QED BY <2>1, <2>2 DEF LocksOK, Control, SetLock
  <1>10. ASSUME NEW w \in Workers, Free(w)
        PROVE  LocksOK'
    <2>1. /\ pc[w] = "handle"
          /\ Control(w, "dequeue", at[w], message[w]) /\ Grasp(w, Null)
          /\ UNCHANGED <<boxLock, readyLock>>
      BY <1>10, FreeMoves DEF Free
    <2>2. /\ w \in Threads /\ Home(w) \in {"idle", "handle"}
          /\ \A u \in Threads : u # Null
      BY <1>10, NetQueueAssumption DEF Threads, Home
    <2> QED BY <2>1, <2>2 DEF LocksOK, Control, SetLock
  <1> QED BY <1>1, <1>2, <1>3, <1>4, <1>5, <1>6, <1>7, <1>8, <1>9, <1>10
          DEF Step, Proceed, PushOn, Work

-----------------------------------------------------------------------------
(* The queues and the places of sessions.                                  *)

\* The steps that only move a thread on.
Still ==
    /\ UNCHANGED <<box, next, mail, processing, ready, readyNext, lineup, at, message>>
    /\ \A t \in Threads : (Fresh(t)' <=> Fresh(t)) /\ (Passing(t)' <=> Passing(t))

Data == ListsHold /\ NodesOK /\ PlacesOK /\ WaitingOK

LEMMA StillSteps ==
    ASSUME TypeOK, NEW t \in Threads,
           \/ EnqueueLock(t) \/ PassLock(t)
           \/ t \in Workers /\ (TakeLock(t) \/ DequeueLock(t) \/ Free(t))
           \/ t \in Workers /\ Take(t) /\ ready.head = Null
    PROVE  Still
  <1> USE DEF boxVars, readyVars, Fresh, Passing, TypeOK
  <1>1. CASE EnqueueLock(t)
    BY <1>1 DEF EnqueueLock, Still
  <1>2. CASE PassLock(t)
    BY <1>2 DEF PassLock, Still
  <1>3. CASE TakeLock(t)
    BY <1>3 DEF TakeLock, Still
  <1>4. CASE DequeueLock(t)
    BY <1>4 DEF DequeueLock, Still
  <1>5. CASE Free(t)
    BY <1>5 DEF Free, Still
  <1>6. CASE Take(t) /\ ready.head = Null
    BY <1>6 DEF Take, Still
  <1> QED BY <1>1, <1>2, <1>3, <1>4, <1>5, <1>6

LEMMA StillData ==
    ASSUME Data, Still
    PROVE  Data'
  <1> USE DEF Still
  <1>1. ListsHold'
    BY DEF Data, ListsHold
  <1>2. NodesOK'
    BY DEF Data, NodesOK
  <1>3. \A s \in Sessions : (PassedOn(s)' <=> PassedOn(s)) /\ (ServedBy(s)' <=> ServedBy(s))
    BY DEF PassedOn, ServedBy
  <1>4. PlacesOK' /\ WaitingOK'
    BY <1>3 DEF Data, PlacesOK, WaitingOK
  <1> QED BY <1>1, <1>2, <1>4 DEF Data

\* The pointers of a message in no queue are set before it is queued.
LEMMA CreateData ==
    ASSUME TypeOK, ThreadsOK, Data,
           NEW t \in Threads, NEW s \in Sessions, NEW n \in Nodes, Create(t, s, n)
    PROVE  Data'
  <1>1. /\ UNCHANGED <<box, mail, processing, ready, readyNext, lineup>>
        /\ next' = [next EXCEPT ![n] = Null]
    BY DEF Create, readyVars
  <1>2. Control(t, "enqueue", s, n) /\ pc[t] = Home(t) /\ (t \in Workers => s = at[t])
    BY CreateMoves DEF Create
  <1>3. /\ \A r \in Sessions : ~Occurs(n, mail[r])
        /\ \A u \in Threads : message[u] # n
    BY DEF Create, Used, Occurs
  <1>4. next'[n] = Null /\ \A m \in Nodes : m # n => next'[m] = next[m]
    BY <1>1 DEF TypeOK
  <1>5. /\ \A u \in Threads : Passing(u)' <=> Passing(u)
        /\ \A u \in Threads : Passing(u) => at'[u] = at[u]
        /\ \A u \in Threads : Fresh(u)' <=> u = t \/ Fresh(u)
        /\ \A w \in Workers : at'[w] = at[w]
    BY <1>2 DEF Control, Passing, Fresh, Home, Threads
  <1>6. \A r \in Sessions : (PassedOn(r)' <=> PassedOn(r)) /\ (ServedBy(r)' <=> ServedBy(r))
    BY <1>5 DEF PassedOn, ServedBy
  <1>7. ListsHold'
    <2>1. ASSUME NEW r \in Sessions
          PROVE  Holds(box[r], next', mail[r])
      <3>1. mail[r] \in Seq(Nodes) /\ Holds(box[r], next, mail[r])
        BY DEF TypeOK, Data, ListsHold
      <3>2. \A m \in Nodes : Occurs(m, mail[r]) => next'[m] = next[m]
        BY <1>3, <1>4
      <3> QED BY <3>1, <3>2, HoldsOther
    <2> QED BY <1>1, <2>1 DEF Data, ListsHold
  <1>8. NodesOK'
    <2>1. ASSUME NEW u \in Threads, Fresh(u)'
          PROVE  /\ next'[message'[u]] = Null
                 /\ \A r \in Sessions : ~Occurs(message'[u], mail'[r])
                 /\ \A v \in Threads : Fresh(v)' /\ message'[v] = message'[u] => v = u
      <3>1. \A v \in Threads : message'[v] = IF v = t THEN n ELSE message[v]
        BY <1>2 DEF Control
      <3>2. CASE u = t
        BY <1>1, <1>3, <1>4, <3>1, <3>2
      <3>3. CASE u # t
        <4>1. Fresh(u) /\ message[u] \in Nodes
          BY <1>5, <2>1, <3>3, ThreadState
        <4> QED BY <1>1, <1>3, <1>4, <1>5, <3>1, <3>3, <4>1 DEF Data, NodesOK
      <3> QED BY <3>2, <3>3
    <2> QED BY <1>1, <2>1 DEF Data, NodesOK
  <1>9. PlacesOK' /\ WaitingOK'
    BY <1>1, <1>5, <1>6 DEF Data, PlacesOK, WaitingOK
  <1> QED BY <1>7, <1>8, <1>9 DEF Data

\* What linking a message does to the queues of messages.
LEMMA LinkLists ==
    ASSUME TypeOK, ThreadsOK, Data, NEW t \in Threads, Link(t)
    PROVE  /\ at[t] \in Sessions
           /\ \A r \in Sessions : r # at[t] => mail'[r] = mail[r]
           /\ mail'[at[t]] # <<>>
           /\ UNCHANGED <<ready, readyNext, lineup>>
           /\ ListsHold' /\ NodesOK'
  <1> DEFINE s == at[t]
             m == message[t]
  <1>1. s \in Sessions /\ m \in Nodes /\ Fresh(t)
    BY ThreadState DEF Link, Fresh
  <1>2. /\ box' = [box EXCEPT ![s] = Enqueue(box[s], m)]
        /\ next' = EnqueueNext(box[s], next, m)
        /\ mail' = [mail EXCEPT ![s] = Append(mail[s], m)]
        /\ UNCHANGED <<ready, readyNext, lineup>>
    BY DEF Link, readyVars
  <1>3. /\ \A r \in Sessions : r # s => mail'[r] = mail[r] /\ box'[r] = box[r]
        /\ mail'[s] = Append(mail[s], m) /\ box'[s] = Enqueue(box[s], m)
    BY <1>1, <1>2 DEF TypeOK
  <1>4. /\ next[m] = Null /\ \A r \in Sessions : ~Occurs(m, mail[r])
        /\ \A r \in Sessions : mail[r] \in Seq(Nodes) /\ Once(mail[r]) /\ Holds(box[r], next, mail[r])
    BY <1>1 DEF TypeOK, Data, NodesOK, ListsHold
  <1>5. /\ mail'[s] # <<>> /\ Once(mail'[s])
        /\ \A n : Occurs(n, mail'[s]) <=> n = m \/ Occurs(n, mail[s])
    BY <1>1, <1>3, <1>4, AppendOccurs
  <1>6. \A n \in Nodes : ~Occurs(n, mail[s]) => next'[n] = next[n]
    <2>1. CASE box[s].tail = Null
      BY <1>2, <2>1 DEF EnqueueNext
    <2>2. CASE box[s].tail # Null
      <3>1. Occurs(box[s].tail, mail[s])
        BY <1>1, <1>4, <2>2, HoldsEnds, NetQueueAssumption
      <3>2. next' = [next EXCEPT ![box[s].tail] = m]
        BY <1>2, <2>2 DEF EnqueueNext
      <3> QED BY <3>1, <3>2 DEF TypeOK
    <2> QED BY <2>1, <2>2
  <1> HIDE DEF s, m
  <1>7. ListsHold'
    <2>1. Holds(box'[s], next', mail'[s])
      <3>1. next \in [Nodes -> Nodes \cup {Null}] /\ Null \notin Nodes
        BY NetQueueAssumption DEF TypeOK
      <3> QED BY <1>1, <1>2, <1>3, <1>4, <3>1, HoldsEnqueue
    <2>2. ASSUME NEW r \in Sessions, r # s
          PROVE  Holds(box'[r], next', mail'[r])
      <3>1. \A n \in Nodes : Occurs(n, mail[r]) => next'[n] = next[n]
        BY <1>1, <1>6, <2>2 DEF Data, NodesOK
      <3>2. Holds(box[r], next', mail[r])
        BY <1>4, <3>1, HoldsOther
      <3> QED BY <1>3, <2>2, <3>2
    <2>3. Holds(ready', readyNext', lineup')
      BY <1>2 DEF Data, ListsHold
    <2> QED BY <2>1, <2>2, <2>3 DEF ListsHold
  <1>8. NodesOK'
    <2>1. ASSUME NEW r \in Sessions
          PROVE  Once(mail'[r])
      BY <1>3, <1>4, <1>5
    <2>2. ASSUME NEW r \in Sessions, NEW q \in Sessions, NEW n \in Nodes,
                 Occurs(n, mail'[r]), Occurs(n, mail'[q])
          PROVE  r = q
      BY <1>3, <1>4, <1>5, <2>2 DEF Data, NodesOK
    <2>3. ASSUME NEW u \in Threads, Fresh(u)'
          PROVE  /\ next'[message'[u]] = Null
                 /\ \A r \in Sessions : ~Occurs(message'[u], mail'[r])
                 /\ \A v \in Threads : Fresh(v)' /\ message'[v] = message'[u] => v = u
      <3>1. \A v \in Threads : Fresh(v)' => v # t /\ Fresh(v) /\ message'[v] = message[v]
        BY LinkMoves DEF Control, Fresh, Home
      <3>2. u # t /\ Fresh(u) /\ message'[u] = message[u] /\ message[u] \in Nodes
        BY <2>3, <3>1, ThreadState
      <3>3. message[u] # m
        BY <1>1, <3>2 DEF Data, NodesOK, m
      <3>4. next[message[u]] = Null /\ \A r \in Sessions : ~Occurs(message[u], mail[r])
        BY <3>2 DEF Data, NodesOK
      <3>5. next'[message[u]] = Null
        BY <1>1, <1>6, <3>2, <3>4
      <3>6. \A r \in Sessions : ~Occurs(message[u], mail'[r])
        BY <1>3, <1>5, <3>3, <3>4
      <3>7. ASSUME NEW v \in Threads, Fresh(v)', message'[v] = message'[u]
            PROVE  v = u
        <4>1. Fresh(v) /\ message[v] = message[u]
          BY <3>1, <3>2, <3>7
        <4> QED BY <3>2, <4>1 DEF Data, NodesOK
      <3> QED BY <3>2, <3>5, <3>6, <3>7
    <2> QED BY <2>1, <2>2, <2>3 DEF NodesOK
  <1> QED BY <1>1, <1>2, <1>3, <1>5, <1>7, <1>8 DEF s

LEMMA LinkData ==
    ASSUME TypeOK, ThreadsOK, Data, NEW t \in Threads, Link(t)
    PROVE  Data'
  <1> DEFINE s == at[t]
  <1>1. /\ s \in Sessions /\ pc[t] = "link"
        /\ \A r \in Sessions : r # s => mail'[r] = mail[r]
        /\ mail'[s] # <<>>
        /\ UNCHANGED <<ready, readyNext, lineup>>
        /\ ListsHold' /\ NodesOK'
    BY LinkLists DEF Link
  <1>2. \A w \in Workers : at'[w] = at[w]
    BY LinkMoves DEF Control, Threads, Stays
  <1>3. \A r \in Sessions : ServedBy(r)' <=> ServedBy(r)
    BY <1>2 DEF ServedBy
  <1>4. CASE processing[s]
    <2>1. Control(t, Home(t), Stays(t), Null) /\ UNCHANGED processing
      BY <1>4, LinkMoves DEF Link
    <2>2. \A u \in Threads : (Passing(u)' <=> Passing(u)) /\ (Passing(u) => at'[u] = at[u])
      BY <1>1, <2>1 DEF Control, Passing, Home
    <2>3. \A r \in Sessions : PassedOn(r)' <=> PassedOn(r)
      BY <2>2 DEF PassedOn
    <2>4. PlacesOK'
      BY <1>1, <1>2, <1>3, <1>4, <2>1, <2>2, <2>3 DEF Data, PlacesOK
    <2>5. WaitingOK'
      BY <1>1, <2>3 DEF Data, WaitingOK
    <2> QED BY <1>1, <2>4, <2>5 DEF Data
  <1>5. CASE ~processing[s]
    <2>1. /\ Control(t, "pass", at[t], message[t])
          /\ processing' = [processing EXCEPT ![s] = TRUE]
      BY <1>5, LinkMoves DEF Link
    <2>2. /\ \A u \in Threads : Passing(u)' <=> u = t \/ Passing(u)
          /\ \A u \in Threads : at'[u] = at[u]
      BY <1>1, <2>1 DEF Control, Passing
    <2>3. \A r \in Sessions : PassedOn(r)' <=> r = s \/ PassedOn(r)
      BY <2>2 DEF PassedOn
    <2>4. ~PassedOn(s) /\ ~Occurs(s, lineup) /\ ~ServedBy(s)
      BY <1>1, <1>5 DEF Data, PlacesOK
    <2>5. \A r \in Sessions : processing'[r] <=> r = s \/ processing[r]
      BY <1>1, <2>1 DEF TypeOK
    <2>6. \A u \in Threads : Passing(u) => at[u] # s
      BY <2>4 DEF PassedOn
    <2> HIDE DEF s
    <2>7. \A u, v \in Threads : Passing(u)' /\ Passing(v)' /\ at'[u] = at'[v] => u = v
      BY <2>2, <2>6 DEF Data, PlacesOK, s
    <2>8. PlacesOK'
      BY <1>1, <1>2, <1>3, <2>3, <2>4, <2>5, <2>7 DEF Data, PlacesOK
    <2>9. WaitingOK'
      BY <1>1, <2>3 DEF Data, WaitingOK
    <2> QED BY <1>1, <2>8, <2>9 DEF Data
  <1> QED BY <1>4, <1>5

\* A session is passed on: it has left the thread's hands and stands in the queue.
LEMMA LineUpData ==
    ASSUME TypeOK, ThreadsOK, Data, NEW t \in Threads, LineUp(t)
    PROVE  Data'
  <1> DEFINE s == at[t]
  <1>1. s \in Sessions /\ pc[t] = "lineup" /\ Passing(t)
    BY ThreadState DEF LineUp, Passing
  <1>2. /\ UNCHANGED <<box, next, mail, processing>>
        /\ ready' = Enqueue(ready, s) /\ readyNext' = EnqueueNext(ready, readyNext, s)
        /\ lineup' = Append(lineup, s)
    BY DEF LineUp
  <1>3. Control(t, Home(t), Stays(t), Null)
    BY LineUpMoves
  <1>4. /\ \A u \in Threads : Passing(u)' <=> u # t /\ Passing(u)
        /\ \A u \in Threads : Passing(u)' => at'[u] = at[u]
        /\ \A u \in Threads : Fresh(u)' => Fresh(u) /\ message'[u] = message[u]
        /\ \A w \in Workers : at'[w] = at[w]
    BY <1>1, <1>3 DEF Control, Passing, Fresh, Home, Stays, Threads
  <1>5. PassedOn(s) /\ ~Occurs(s, lineup) /\ ~ServedBy(s)
    BY <1>1 DEF PassedOn, Data, PlacesOK
  <1>6. \A r \in Sessions : ServedBy(r)' <=> ServedBy(r)
    BY <1>4 DEF ServedBy
  <1>7. \A r \in Sessions : PassedOn(r)' <=> r # s /\ PassedOn(r)
    <2>1. \A u \in Threads : Passing(u) /\ at[u] = s => u = t
      BY <1>1 DEF Data, PlacesOK
    <2> QED BY <1>4, <2>1 DEF PassedOn
  <1>8. lineup \in Seq(Sessions) /\ Once(lineup) /\ Holds(ready, readyNext, lineup)
    BY DEF TypeOK, Data, PlacesOK, ListsHold
  <1>9. /\ Once(lineup')
        /\ \A r : Occurs(r, lineup') <=> r = s \/ Occurs(r, lineup)
    BY <1>1, <1>2, <1>5, <1>8, AppendOccurs
  <1> HIDE DEF s
  <1>10. ListsHold'
    <2>1. readyNext[s] = Null
      BY <1>1, <1>5 DEF Data, WaitingOK
    <2>2. readyNext \in [Sessions -> Sessions \cup {Null}] /\ Null \notin Sessions
      BY NetQueueAssumption DEF TypeOK
    <2>3. Holds(ready', readyNext', lineup')
      BY <1>1, <1>2, <1>5, <1>8, <2>1, <2>2, HoldsEnqueue
    <2> QED BY <1>2, <2>3 DEF Data, ListsHold
  <1>11. NodesOK'
    BY <1>2, <1>4 DEF Data, NodesOK
  <1>12. PlacesOK'
    <2>1. \A u, v \in Threads : Passing(u)' /\ Passing(v)' /\ at'[u] = at'[v] => u = v
      BY <1>4 DEF Data, PlacesOK
    <2> QED BY <1>2, <1>4, <1>5, <1>6, <1>7, <1>9, <2>1 DEF Data, PlacesOK
  <1>13. WaitingOK'
    <2>1. ASSUME NEW r \in Sessions, ~Occurs(r, lineup')
          PROVE  readyNext'[r] = Null
      <3>1. r # s /\ ~Occurs(r, lineup) /\ readyNext[r] = Null
        BY <1>9, <2>1 DEF Data, WaitingOK
      <3>2. CASE ready.tail = Null
        BY <1>2, <3>1, <3>2 DEF EnqueueNext
      <3>3. CASE ready.tail # Null
        <4>1. Occurs(ready.tail, lineup)
          BY <1>8, <3>3, HoldsEnds, NetQueueAssumption
        <4>2. readyNext' = [readyNext EXCEPT ![ready.tail] = s]
          BY <1>2, <3>3 DEF EnqueueNext
        <4> QED BY <3>1, <4>1, <4>2 DEF TypeOK
      <3> QED BY <3>2, <3>3
    <2>2. \A r \in Sessions : PassedOn(r)' \/ Occurs(r, lineup') => mail'[r] # <<>>
      BY <1>1, <1>2, <1>5, <1>7, <1>9 DEF Data, WaitingOK
    <2> QED BY <2>1, <2>2 DEF WaitingOK
  <1> QED BY <1>10, <1>11, <1>12, <1>13 DEF Data

\* The first session in the queue is the worker's.
LEMMA TakeData ==
    ASSUME TypeOK, ThreadsOK, Data, NEW w \in Workers, Take(w), ready.head # Null
    PROVE  /\ ready.head \in Sessions /\ Occurs(ready.head, lineup)
           /\ Data'
  <1> DEFINE s == ready.head
  <1>1. /\ UNCHANGED <<box, next, mail, processing, message>>
        /\ ready' = Dequeue(ready, readyNext) /\ readyNext' = DequeueNext(ready, readyNext)
        /\ lineup' = Tail(lineup) /\ pc[w] = "take"
    BY DEF Take, boxVars
  <1>2. Control(w, "dequeue", s, message[w]) /\ w \in Threads /\ at[w] = Null
    BY <1>1, TakeMoves DEF Threads, ThreadsOK
  <1>3. /\ lineup \in Seq(Sessions) /\ Once(lineup) /\ Holds(ready, readyNext, lineup)
        /\ Null \notin Sessions
    BY NetQueueAssumption DEF TypeOK, Data, PlacesOK, ListsHold
  <1>4. lineup # <<>> /\ s = lineup[1]
    BY <1>3, HoldsEnds
  <1>5. s \in Sessions /\ Occurs(s, lineup) /\ ~Occurs(s, lineup')
    BY <1>1, <1>3, <1>4, TailOccurs
  <1>6. Once(lineup') /\ \A r : Occurs(r, lineup') <=> r # s /\ Occurs(r, lineup)
    <2>1. /\ Once(lineup') /\ \A r : Occurs(r, lineup) => r = s \/ Occurs(r, lineup')
          /\ \A r : Occurs(r, lineup') => Occurs(r, lineup)
      BY <1>1, <1>3, <1>4, TailOccurs
    <2> QED BY <1>5, <2>1
  <1>7. /\ \A u \in Threads : (Passing(u)' <=> Passing(u)) /\ (Passing(u) => at'[u] = at[u])
        /\ \A u \in Threads : Fresh(u)' <=> Fresh(u)
        /\ \A v \in Workers : at'[v] = IF v = w THEN s ELSE at[v]
    BY <1>1, <1>2 DEF Control, Passing, Fresh, Threads
  <1>8. \A r \in Sessions : PassedOn(r)' <=> PassedOn(r)
    BY <1>7 DEF PassedOn
  <1>9. \A r \in Sessions : ServedBy(r)' <=> r = s \/ ServedBy(r)
    BY <1>2, <1>3, <1>7 DEF ServedBy
  <1>10. ~PassedOn(s) /\ ~ServedBy(s) /\ processing[s]
    BY <1>5 DEF Data, PlacesOK
  <1> HIDE DEF s
  <1>11. readyNext' = [readyNext EXCEPT ![s] = Null]
    BY <1>1 DEF DequeueNext, s
  <1>12. ListsHold'
    <2>1. readyNext \in [Sessions -> Sessions \cup {Null}]
      BY DEF TypeOK
    <2>2. Holds(ready', readyNext', lineup')
      BY <1>1, <1>3, <1>4, <2>1, HoldsDequeue
    <2> QED BY <1>1, <2>2 DEF Data, ListsHold
  <1>13. NodesOK'
    BY <1>1, <1>7 DEF Data, NodesOK
  <1>14. PlacesOK'
    <2>1. \A v \in Workers : at[v] # s
      BY <1>10 DEF ServedBy
    <2>2. \A u, v \in Workers : at'[u] = at'[v] /\ at'[u] # Null => u = v
      BY <1>7, <2>1 DEF Data, PlacesOK
    <2>3. \A u, v \in Threads : Passing(u)' /\ Passing(v)' /\ at'[u] = at'[v] => u = v
      BY <1>7 DEF Data, PlacesOK
    <2> QED BY <1>1, <1>6, <1>8, <1>9, <1>10, <2>2, <2>3 DEF Data, PlacesOK
  <1>15. WaitingOK'
    <2>1. \A r \in Sessions : readyNext'[r] = IF r = s THEN Null ELSE readyNext[r]
      BY <1>11 DEF TypeOK
    <2> QED BY <1>1, <1>6, <1>8, <2>1 DEF Data, WaitingOK
  <1> QED BY <1>5, <1>12, <1>13, <1>14, <1>15 DEF Data, s

\* A queue without messages ends the processing of its session.
LEMMA UnlinkEmptyData ==
    ASSUME TypeOK, ThreadsOK, Data, NEW w \in Workers, Unlink(w), box[at[w]].head = Null
    PROVE  /\ at[w] \in Sessions /\ mail[at[w]] = <<>>
           /\ Data'
  <1> DEFINE s == at[w]
  <1>1. /\ UNCHANGED <<box, next, mail, ready, readyNext, lineup, message>>
        /\ processing' = [processing EXCEPT ![s] = FALSE] /\ pc[w] = "unlink"
    BY DEF Unlink, readyVars
  <1>2. Control(w, "look", Null, message[w]) /\ w \in Threads /\ s \in Sessions
    BY <1>1, UnlinkMoves, ThreadState DEF Threads
  <1>3. mail[s] = <<>>
    <2>1. mail[s] \in Seq(Nodes) /\ Holds(box[s], next, mail[s]) /\ Null \notin Nodes
      BY <1>2, NetQueueAssumption DEF TypeOK, Data, ListsHold
    <2> QED BY <2>1, HoldsEnds
  <1>4. /\ \A u \in Threads : (Passing(u)' <=> Passing(u)) /\ (Passing(u) => at'[u] = at[u])
        /\ \A u \in Threads : Fresh(u)' <=> Fresh(u)
        /\ \A v \in Workers : at'[v] = IF v = w THEN Null ELSE at[v]
    BY <1>1, <1>2 DEF Control, Passing, Fresh, Threads
  <1>5. \A r \in Sessions : PassedOn(r)' <=> PassedOn(r)
    BY <1>4 DEF PassedOn
  <1>6. \A v \in Workers : at[v] = s => v = w
    BY <1>2, NetQueueAssumption DEF Data, PlacesOK
  <1>7. \A r \in Sessions : ServedBy(r)' <=> r # s /\ ServedBy(r)
    BY <1>4, <1>6, NetQueueAssumption DEF ServedBy
  <1>8. ServedBy(s) /\ ~PassedOn(s) /\ ~Occurs(s, lineup)
    BY <1>2 DEF ServedBy, Data, PlacesOK
  <1>9. \A r \in Sessions : processing'[r] <=> r # s /\ processing[r]
    BY <1>1 DEF TypeOK
  <1> HIDE DEF s
  <1>10. ListsHold' /\ NodesOK'
    BY <1>1, <1>4 DEF Data, ListsHold, NodesOK
  <1>11. PlacesOK'
    <2>1. \A u, v \in Workers : at'[u] = at'[v] /\ at'[u] # Null => u = v
      BY <1>4 DEF Data, PlacesOK
    <2>2. \A u, v \in Threads : Passing(u)' /\ Passing(v)' /\ at'[u] = at'[v] => u = v
      BY <1>4 DEF Data, PlacesOK
    <2> QED BY <1>1, <1>3, <1>5, <1>7, <1>8, <1>9, <2>1, <2>2 DEF Data, PlacesOK
  <1>12. WaitingOK'
    BY <1>1, <1>5 DEF Data, WaitingOK
  <1> QED BY <1>2, <1>3, <1>10, <1>11, <1>12 DEF Data, s

\* The worker of a session takes its first message.
LEMMA UnlinkData ==
    ASSUME TypeOK, ThreadsOK, Data, NEW w \in Workers, Unlink(w), box[at[w]].head # Null
    PROVE  /\ at[w] \in Sessions /\ mail[at[w]] # <<>> /\ box[at[w]].head = Head(mail[at[w]])
           /\ Data'
  <1> DEFINE s == at[w]
             m == box[s].head
  <1>1. /\ UNCHANGED <<ready, readyNext, lineup, message, processing, at>>
        /\ box' = [box EXCEPT ![s] = Dequeue(box[s], next)]
        /\ next' = DequeueNext(box[s], next)
        /\ mail' = [mail EXCEPT ![s] = Tail(mail[s])]
        /\ pc[w] = "unlink"
    BY DEF Unlink, readyVars
  <1>2. Control(w, "handle", at[w], message[w]) /\ w \in Threads /\ s \in Sessions
    BY <1>1, UnlinkMoves, ThreadState DEF Threads
  <1>3. /\ \A r \in Sessions : mail[r] \in Seq(Nodes) /\ Once(mail[r]) /\ Holds(box[r], next, mail[r])
        /\ Null \notin Nodes
    BY NetQueueAssumption DEF TypeOK, Data, NodesOK, ListsHold
  <1>4. mail[s] # <<>> /\ m = mail[s][1]
    BY <1>2, <1>3, HoldsEnds
  <1>5. /\ \A r \in Sessions : r # s => mail'[r] = mail[r] /\ box'[r] = box[r]
        /\ mail'[s] = Tail(mail[s]) /\ box'[s] = Dequeue(box[s], next)
    BY <1>1, <1>2 DEF TypeOK
  <1>6. /\ m \in Nodes /\ Occurs(m, mail[s]) /\ Once(mail'[s]) /\ m = Head(mail[s])
        /\ \A n : Occurs(n, mail'[s]) => Occurs(n, mail[s])
    BY <1>2, <1>3, <1>4, <1>5, TailOccurs
  <1>7. next' = [next EXCEPT ![m] = Null]
    BY <1>1 DEF DequeueNext
  <1>8. /\ \A u \in Threads : Passing(u)' <=> Passing(u)
        /\ \A u \in Threads : Fresh(u)' <=> Fresh(u)
    BY <1>1, <1>2 DEF Control, Passing, Fresh
  <1>9. \A r \in Sessions : (PassedOn(r)' <=> PassedOn(r)) /\ (ServedBy(r)' <=> ServedBy(r))
    BY <1>1, <1>8 DEF PassedOn, ServedBy
  <1>10. ServedBy(s) /\ ~PassedOn(s) /\ ~Occurs(s, lineup) /\ processing[s]
    BY <1>2 DEF ServedBy, Data, PlacesOK
  <1> HIDE DEF s, m
  <1>11. \A n \in Nodes : n # m => next'[n] = next[n]
    BY <1>7 DEF TypeOK
  <1>12. ListsHold'
    <2>1. Holds(box'[s], next', mail'[s])
      <3>1. next \in [Nodes -> Nodes \cup {Null}]
        BY DEF TypeOK
      <3> QED BY <1>1, <1>2, <1>3, <1>4, <1>5, <3>1, HoldsDequeue
    <2>2. ASSUME NEW r \in Sessions, r # s
          PROVE  Holds(box'[r], next', mail'[r])
      <3>1. ~Occurs(m, mail[r])
        BY <1>2, <1>6, <2>2 DEF Data, NodesOK
      <3>2. \A n \in Nodes : Occurs(n, mail[r]) => next'[n] = next[n]
        BY <1>11, <3>1
      <3>3. Holds(box[r], next', mail[r])
        BY <1>3, <3>2, HoldsOther
      <3> QED BY <1>5, <2>2, <3>3
    <2> QED BY <1>1, <2>1, <2>2 DEF Data, ListsHold
  <1>13. NodesOK'
    <2>1. \A r \in Sessions : Once(mail'[r])
      BY <1>3, <1>5, <1>6
    <2>2. \A r \in Sessions : \A n : Occurs(n, mail'[r]) => Occurs(n, mail[r])
      BY <1>5, <1>6
    <2>3. ASSUME NEW u \in Threads, Fresh(u)
          PROVE  next'[message[u]] = Null
      <3>1. message[u] \in Nodes /\ message[u] # m /\ next[message[u]] = Null
        BY <1>2, <1>6, <2>3, ThreadState DEF Data, NodesOK
      <3> QED BY <1>11, <3>1
    <2> QED BY <1>1, <1>8, <2>1, <2>2, <2>3 DEF Data, NodesOK
  <1>14. PlacesOK'
    BY <1>1, <1>5, <1>8, <1>9, <1>10 DEF Data, PlacesOK
  <1>15. WaitingOK'
    BY <1>1, <1>5, <1>9, <1>10 DEF Data, WaitingOK
  <1> QED BY <1>2, <1>4, <1>6, <1>12, <1>13, <1>14, <1>15 DEF Data, s, m

LEMMA StepData ==
    ASSUME TypeOK, ThreadsOK, Data, Step
    PROVE  Data'
  <1>1. ASSUME NEW t \in Threads, NEW s \in Sessions, NEW n \in Nodes, Create(t, s, n)
        PROVE  Data'
    BY <1>1, CreateData
  <1>2. ASSUME NEW t \in Threads, PushOn(t)
        PROVE  Data'
    <2>1. CASE EnqueueLock(t) \/ PassLock(t)
      BY <2>1, StillSteps, StillData
    <2>2. CASE Link(t)
      BY <2>2, LinkData
    <2>3. CASE LineUp(t)
      BY <2>3, LineUpData
    <2> QED BY <1>2, <2>1, <2>2, <2>3 DEF PushOn
  <1>3. ASSUME NEW w \in Workers, Work(w) \/ Free(w)
        PROVE  Data'
    <2>1. CASE TakeLock(w) \/ DequeueLock(w) \/ Free(w)
      BY <2>1, StillSteps, StillData DEF Threads
    <2>2. CASE Take(w)
      <3>1. CASE ready.head = Null
        BY <2>2, <3>1, StillSteps, StillData DEF Threads
      <3> QED BY <2>2, <3>1, TakeData
    <2>3. CASE Unlink(w)
      BY <2>3, UnlinkEmptyData, UnlinkData
    <2> QED BY <1>3, <2>1, <2>2, <2>3 DEF Work
  <1> QED BY <1>1, <1>2, <1>3 DEF Step, Proceed

-----------------------------------------------------------------------------
(* The invariant.                                                          *)

LEMMA QueueInit == Init => IInv
  <1> SUFFICES ASSUME Init PROVE IInv
    OBVIOUS
  <1> USE DEF Init
  <1>1. TypeOK
    <2>1. EmptyQueue \in Queues(Nodes) /\ EmptyQueue \in Queues(Sessions)
      BY DEF EmptyQueue, Queues
    <2>2. <<>> \in Seq(Nodes) /\ <<>> \in Seq(Sessions)
      BY EmptySeq
    <2> QED BY <2>1, <2>2 DEF TypeOK, PCs
  <1>2. ThreadsOK
    BY NetQueueAssumption DEF ThreadsOK, Threads, Fresh, Passing, PCs
  <1>3. LocksOK
    BY NetQueueAssumption DEF LocksOK, Threads
  <1>4. ListsHold
    BY DEF ListsHold, Holds
  <1>5. (\A n : ~Occurs(n, <<>>)) /\ Once(<<>>)
    BY DEF Occurs, Once
  <1>6. \A t \in Threads : ~Fresh(t) /\ ~Passing(t)
    BY DEF Fresh, Passing
  <1>7. NodesOK
    BY <1>5, <1>6 DEF NodesOK
  <1>8. \A s \in Sessions : ~PassedOn(s) /\ ~ServedBy(s)
    BY <1>6, NetQueueAssumption DEF PassedOn, ServedBy, Threads
  <1>9. PlacesOK
    BY <1>5, <1>6, <1>8 DEF PlacesOK, Threads
  <1>10. WaitingOK
    BY <1>5, <1>8 DEF WaitingOK
  <1> QED BY <1>1, <1>2, <1>3, <1>4, <1>7, <1>9, <1>10 DEF IInv

LEMMA QueueStutter ==
    ASSUME IInv, UNCHANGED vars, crashed' \in BOOLEAN
    PROVE  IInv'
  <1>1. UNCHANGED <<box, next, processing, boxLock, mail, ready, readyNext, readyLock, lineup,
                    pc, at, message, hand, posts>>
    BY DEF vars, boxVars, readyVars
  <1>2. \A t : (Fresh(t)' <=> Fresh(t)) /\ (Passing(t)' <=> Passing(t))
    BY <1>1 DEF Fresh, Passing
  <1>3. \A s : (PassedOn(s)' <=> PassedOn(s)) /\ (ServedBy(s)' <=> ServedBy(s))
    BY <1>1, <1>2 DEF PassedOn, ServedBy
  <1>4. TypeOK' /\ LocksOK' /\ ListsHold'
    BY <1>1 DEF IInv, TypeOK, LocksOK, ListsHold
  <1>5. ThreadsOK' /\ NodesOK'
    BY <1>1, <1>2 DEF IInv, ThreadsOK, NodesOK
  <1>6. PlacesOK' /\ WaitingOK'
    BY <1>1, <1>2, <1>3 DEF IInv, PlacesOK, WaitingOK
  <1> QED BY <1>4, <1>5, <1>6 DEF IInv

LEMMA QueueStep == IInv /\ [Next]_allVars => IInv'
  <1>1. ASSUME IInv, UNCHANGED vars, crashed' \in BOOLEAN
        PROVE  IInv'
    BY <1>1, QueueStutter
  <1>2. ASSUME IInv, Step, UNCHANGED crashed
        PROVE  IInv'
    BY <1>2, StepTypes, StepThreads, StepLocks, StepData DEF IInv, Data
  <1>3. IInv => crashed \in BOOLEAN
    BY DEF IInv, TypeOK
  <1> QED BY <1>1, <1>2, <1>3 DEF Next, Crash, allVars

\* In every behaviour the types hold, threads and locks agree, no address is of two
\* messages, every pointer is that of its queue, and a session is in one place
\* exactly while it is processing (net_queue.cpp:31-67, 118-148;
\* net_mgr.cpp:130-149, 304-353).
THEOREM QueueInvariant == Spec => []IInv
  <1> QED BY QueueInit, QueueStep, PTL DEF Spec

\* The types alone, TypeOK (net_queue.h:11-69).
THEOREM QueueTypeCorrect == Spec => []TypeOK
  <1>1. IInv => TypeOK
    BY DEF IInv
  <1> QED BY QueueInvariant, <1>1, PTL

\* The places of PlacesOK are those that ProcessingLedger counts.
LEMMA LedgerFromPlaces ==
    ASSUME TypeOK, ThreadsOK, PlacesOK
    PROVE  ProcessingLedger
  <1> SUFFICES ASSUME NEW s \in Sessions
               PROVE  /\ processing[s] <=> Places(s) # {}
                      /\ \A p, q \in Places(s) : p = q
                      /\ ~processing[s] => mail[s] = <<>>
    BY DEF ProcessingLedger
  <1> DEFINE InPlace(p) ==
                 \/ \E t \in Threads : p = <<"passing", t>> /\ Passing(t) /\ at[t] = s
                 \/ \E i \in DOMAIN lineup : p = <<"queued", i>> /\ lineup[i] = s
                 \/ \E w \in Workers : p = <<"served", w>> /\ ServedBy(s) /\ at[w] = s
  <1>1. \A p : p \in Places(s) => InPlace(p)
    BY DEF Places, Passing, ServedBy
  <1>2. Places(s) # {} <=> PassedOn(s) \/ Occurs(s, lineup) \/ ServedBy(s)
    <2>1. ASSUME Places(s) # {}
          PROVE  PassedOn(s) \/ Occurs(s, lineup) \/ ServedBy(s)
      BY <1>1, <2>1 DEF PassedOn, Occurs
    <2>2. ASSUME PassedOn(s)
          PROVE  Places(s) # {}
      <3>1. PICK t \in Threads : Passing(t) /\ at[t] = s
        BY <2>2 DEF PassedOn
      <3>2. <<"passing", t>> \in Places(s)
        BY <3>1 DEF Places, Passing
      <3> QED BY <3>2
    <2>3. ASSUME Occurs(s, lineup)
          PROVE  Places(s) # {}
      <3>1. PICK i \in DOMAIN lineup : lineup[i] = s
        BY <2>3 DEF Occurs
      <3>2. <<"queued", i>> \in Places(s)
        BY <3>1 DEF Places
      <3> QED BY <3>2
    <2>4. ASSUME ServedBy(s)
          PROVE  Places(s) # {}
      <3>1. PICK w \in Workers : at[w] = s
        BY <2>4 DEF ServedBy
      <3>2. <<"served", w>> \in Places(s)
        BY <3>1 DEF Places
      <3> QED BY <3>2
    <2> QED BY <2>1, <2>2, <2>3, <2>4
  <1>3. ASSUME NEW p \in Places(s), NEW q \in Places(s)
        PROVE  p = q
    <2>1. InPlace(p) /\ InPlace(q)
      BY <1>1, <1>3
    <2>2. CASE PassedOn(s)
      <3>1. ~Occurs(s, lineup) /\ ~ServedBy(s)
        BY <2>2 DEF PlacesOK
      <3>2. /\ \E t \in Threads : p = <<"passing", t>> /\ Passing(t) /\ at[t] = s
            /\ \E t \in Threads : q = <<"passing", t>> /\ Passing(t) /\ at[t] = s
        BY <2>1, <3>1 DEF Occurs
      <3> QED BY <3>2 DEF PlacesOK
    <2>3. CASE Occurs(s, lineup)
      <3>1. ~PassedOn(s) /\ ~ServedBy(s)
        BY <2>3 DEF PlacesOK
      <3>2. /\ \E i \in DOMAIN lineup : p = <<"queued", i>> /\ lineup[i] = s
            /\ \E i \in DOMAIN lineup : q = <<"queued", i>> /\ lineup[i] = s
        BY <2>1, <3>1 DEF PassedOn
      <3> QED BY <3>2 DEF PlacesOK, Once
    <2>4. CASE ServedBy(s)
      <3>1. ~PassedOn(s) /\ ~Occurs(s, lineup)
        BY <2>4 DEF PlacesOK
      <3>2. /\ \E w \in Workers : p = <<"served", w>> /\ ServedBy(s) /\ at[w] = s
            /\ \E w \in Workers : q = <<"served", w>> /\ ServedBy(s) /\ at[w] = s
        BY <2>1, <3>1 DEF PassedOn, Occurs
      <3> QED BY <3>2, NetQueueAssumption DEF PlacesOK
    <2> QED BY <1>2, <1>3, <2>2, <2>3, <2>4
  <1> QED BY <1>2, <1>3 DEF PlacesOK

\* QueuesTrue in every behaviour: the pointers of every queue are those of its elements
\* in order, and the flag of a session says whether it is passed on, queued or served
\* (net_queue.cpp:31-67, 118-148; net_mgr.cpp:141-148, 314-321).
THEOREM QueuesTrueCorrect == Spec => []QueuesTrue
  <1>1. IInv => QueuesTrue
    BY LedgerFromPlaces DEF IInv, QueuesTrue
  <1> QED BY QueueInvariant, <1>1, PTL

-----------------------------------------------------------------------------
(* The refinement: NetQueue implements SessionQueue.                       *)

\* A step that the promise of the queues allows.
Served == Mailbox!QueueNext \/ UNCHANGED Mailbox!queueVars

\* What SessionQueue sees of a step in which no worker changes its session.
LEMMA SameSessions ==
    ASSUME \A w \in Workers : at'[w] = at[w]
    PROVE  [w \in Workers |-> at[w]]' = [w \in Workers |-> at[w]]
  OBVIOUS

\* A step that moves neither a message nor a worker.
LEMMA UnseenServed ==
    ASSUME UNCHANGED <<mail, hand>>, \A w \in Workers : at'[w] = at[w]
    PROVE  Served
  BY SameSessions DEF Served, Mailbox!queueVars

LEMMA PostServed ==
    ASSUME IInv, NEW t \in Threads, PushOn(t) \/ \E s \in Sessions, n \in Nodes : Create(t, s, n)
    PROVE  Served
  <1> USE DEF IInv
  <1>1. CASE Link(t)
    <2>1. at[t] \in Sessions /\ message[t] \in Nodes
      BY <1>1, ThreadState DEF Link, Fresh
    <2>2. /\ mail' = [mail EXCEPT ![at[t]] = Append(@, message[t])]
          /\ UNCHANGED hand
      BY <1>1 DEF Link
    <2>3. \A w \in Workers : at'[w] = at[w]
      BY <1>1, LinkMoves DEF Control, Threads, Stays
    <2>4. Mailbox!Post(at[t], message[t])
      BY <2>2, <2>3, SameSessions DEF Mailbox!Post
    <2> QED BY <2>1, <2>4 DEF Served, Mailbox!QueueNext
  <1>2. CASE LineUp(t)
    <2>1. \A w \in Workers : at'[w] = at[w]
      BY <1>2, LineUpMoves DEF Control, Threads, Stays
    <2>2. UNCHANGED <<mail, hand>>
      BY <1>2 DEF LineUp
    <2> QED BY <2>1, <2>2, UnseenServed
  <1>3. CASE EnqueueLock(t) \/ PassLock(t)
    BY <1>3, UnseenServed DEF EnqueueLock, PassLock, boxVars
  <1>4. ASSUME NEW s \in Sessions, NEW n \in Nodes, Create(t, s, n)
        PROVE  Served
    <2>1. \A w \in Workers : at'[w] = at[w]
      BY <1>4, CreateMoves DEF Create, Control, Threads
    <2>2. UNCHANGED <<mail, hand>>
      BY <1>4 DEF Create
    <2> QED BY <2>1, <2>2, UnseenServed
  <1> QED BY <1>1, <1>2, <1>3, <1>4 DEF PushOn

\* A session that a worker takes from the queue has messages and no worker.
LEMMA TakeServed ==
    ASSUME IInv, NEW w \in Workers, Take(w)
    PROVE  Served
  <1> USE DEF IInv
  <1>1. CASE ready.head = Null
    <2>1. UNCHANGED <<at, mail, hand>>
      BY <1>1 DEF Take, boxVars
    <2> QED BY <2>1, UnseenServed
  <1>2. CASE ready.head # Null
    <2>1. PICK s \in Sessions : s = ready.head /\ Occurs(s, lineup)
      BY <1>2, TakeData DEF Data
    <2>2. at[w] = Null /\ at' = [at EXCEPT ![w] = s] /\ UNCHANGED <<mail, hand>>
      BY <1>2, <2>1 DEF Take, ThreadsOK, Threads, boxVars
    <2>3. mail[s] # <<>>
      BY <2>1 DEF WaitingOK
    <2>4. \A v \in Workers : at[v] # s
      BY <2>1 DEF PlacesOK, ServedBy
    <2>5. [v \in Workers |-> at[v]]' = [[v \in Workers |-> at[v]] EXCEPT ![w] = s]
      BY <2>2 DEF TypeOK, Threads
    <2>6. Mailbox!Serve(w, s)
      BY <2>2, <2>3, <2>4, <2>5 DEF Mailbox!Serve, Mailbox!Served
    <2> QED BY <2>6 DEF Served, Mailbox!QueueNext
  <1> QED BY <1>1, <1>2

\* The worker takes the oldest message of its session, or leaves it if it has none.
LEMMA UnlinkServed ==
    ASSUME IInv, NEW w \in Workers, Unlink(w)
    PROVE  Served
  <1> USE DEF IInv
  <1>1. hand[w] = Null /\ at[w] # Null /\ w \in Threads
    BY NetQueueAssumption DEF Unlink, ThreadsOK, Fresh, Passing, Threads, TypeOK
  <1>2. CASE box[at[w]].head = Null
    <2>1. mail[at[w]] = <<>>
      BY <1>2, UnlinkEmptyData DEF Data
    <2>2. at' = [at EXCEPT ![w] = Null] /\ UNCHANGED <<mail, hand>>
      BY <1>2 DEF Unlink
    <2>3. [v \in Workers |-> at[v]]' = [[v \in Workers |-> at[v]] EXCEPT ![w] = Null]
      BY <1>1, <2>2 DEF TypeOK, Threads
    <2>4. Mailbox!Leave(w)
      BY <1>1, <2>1, <2>2, <2>3 DEF Mailbox!Leave
    <2> QED BY <2>4 DEF Served, Mailbox!QueueNext
  <1>3. CASE box[at[w]].head # Null
    <2>1. mail[at[w]] # <<>> /\ box[at[w]].head = Head(mail[at[w]])
      BY <1>3, UnlinkData DEF Data
    <2>2. /\ hand' = [hand EXCEPT ![w] = Head(mail[at[w]])]
          /\ mail' = [mail EXCEPT ![at[w]] = Tail(@)] /\ UNCHANGED at
      BY <1>3, <2>1 DEF Unlink
    <2>3. Mailbox!Receive(w)
      BY <1>1, <2>1, <2>2, SameSessions DEF Mailbox!Receive
    <2> QED BY <2>3 DEF Served, Mailbox!QueueNext
  <1> QED BY <1>2, <1>3

LEMMA WorkServed ==
    ASSUME IInv, NEW w \in Workers, Work(w) \/ Free(w)
    PROVE  Served
  <1>1. CASE Free(w)
    <2>1. hand[w] # Null /\ hand' = [hand EXCEPT ![w] = Null] /\ UNCHANGED <<mail, at>>
      BY <1>1 DEF IInv, ThreadsOK, Free, boxVars
    <2>2. Mailbox!Release(w)
      BY <2>1 DEF Mailbox!Release
    <2> QED BY <2>2 DEF Served, Mailbox!QueueNext
  <1>2. CASE TakeLock(w) \/ DequeueLock(w)
    BY <1>2, UnseenServed DEF TakeLock, DequeueLock, boxVars
  <1> QED BY <1>1, <1>2, TakeServed, UnlinkServed DEF Work

\* SessionsServed: whatever the threads interleave, a worker is alone with its session,
\* and takes its messages in the order they were posted and each once
\* (net_mgr.cpp:304-353, net_queue.cpp:31-67).
THEOREM SessionsServedCorrect == Spec => SessionsServed
  <1>1. Init => Mailbox!QueueInit
    BY DEF Init, Mailbox!QueueInit, Threads
  <1>2. IInv /\ [Next]_allVars => [Mailbox!QueueNext]_(Mailbox!queueVars)
    <2>1. CASE UNCHANGED vars
      BY <2>1 DEF vars, boxVars, Mailbox!queueVars
    <2>2. ASSUME IInv, Step
          PROVE  Served
      BY <2>2, PostServed, WorkServed DEF Step, Proceed
    <2> QED BY <2>1, <2>2 DEF Served, Next, Crash, allVars
  <1> QED BY QueueInvariant, <1>1, <1>2, PTL DEF Spec, SessionsServed, Mailbox!QueueSpec
=============================================================================
