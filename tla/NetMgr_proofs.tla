---------------------------- MODULE NetMgr_proofs ----------------------------
(***************************************************************************)
(* What holds of the old layer's connections (NetMgr), for any number of   *)
(* connections, threads, chains, workers and clients, and any messages.    *)
(***************************************************************************)
EXTENDS NetMgr, TLAPS, SequenceTheorems, FiniteSetTheorems, WellFoundedInduction

Letters == [kind : Kinds, of : Nat]

Reads == [of : Nat, on : Nat, got : BOOLEAN]

Strands ==
    [at : {"idle", "parse", "post", "close", "tell"}, of : Nat, more : BOOLEAN]

ChainStates ==
    [at : {"startup", "wait", "refused", "connect", "read", "post", "close", "tell", "ended"},
     conn : Sessions \cup {Null}]

\* Every variable has its type.
MgrTypeOK ==
    /\ mail \in [Sessions -> Seq(Letters)]
    /\ serving \in [Workers -> Sessions \cup {Null}]
    /\ hand \in [Workers -> Letters \cup {Null}]
    /\ status \in [Sessions -> {"useless", "start", "stop"}]
    /\ open \in [Sessions -> BOOLEAN] /\ reads \in [Sessions -> Seq(Reads)]
    /\ strand \in [Sessions -> Strands] /\ rest \in [Sessions -> Nat]
    /\ chain \in [Chains -> ChainStates]
    /\ closing \in [Workers -> {"no", "close", "tell"}]
    /\ fault \in {"none", "pool", "member"}
    /\ client \in [Sessions -> Nat] /\ left \in [Sessions -> BOOLEAN]
    /\ clients \in Nat /\ data \in Nat /\ heard \in [Sessions -> Nat]
    /\ broken \in [Sessions -> BOOLEAN] /\ overtaken \in [Sessions -> BOOLEAN]
    /\ mixed \in [Sessions -> BOOLEAN]

\* A chain has a connection, and a worker a message, where it needs one; one worker
\* at a time serves a connection.
ActorsOK ==
    /\ \A a \in Chains : chain[a].conn = Null <=> chain[a].at \in {"startup", "post", "ended"}
    /\ \A w \in Workers :
          /\ hand[w] # Null => serving[w] # Null
          /\ closing[w] # "no" => hand[w] # Null /\ hand[w].kind = "write"
    /\ OneWorker

\* A message is queued for a connection, or in the hand of its worker.
Due(c, m) ==
    \/ \E i \in DOMAIN mail[c] : mail[c][i] = m
    \/ \E w \in Workers : serving[w] = c /\ hand[w] = m

DueKind(c, kind) == \E m \in Letters : m.kind = kind /\ Due(c, m)

\* A connection that was never used again too early.  A chain that holds it is alone
\* with it and has not read yet; later it has one reader as long as it is open.
SlotOK(c) ==
    ~overtaken[c] =>
        /\ \A a \in Chains : chain[a].conn = c =>
              /\ \A b \in Chains : chain[b].conn = c => b = a
              /\ status[c] = "start" /\ reads[c] = <<>> /\ strand[c].at = "idle"
              /\ chain[a].at \in {"wait", "connect", "read"}
              /\ chain[a].at = "wait" <=> ~open[c]
              /\ chain[a].at # "read" => mail[c] = <<>> /\ ~Served(c)
              /\ \A m \in Letters : Due(c, m) => m.kind \in {"connect", "error"}
        /\ open[c] =>
              /\ ~broken[c] => status[c] = "start" /\ ~DueKind(c, "disconnect")
              /\ strand[c].at # "tell"
              /\ \A w \in Workers : serving[w] = c => closing[w] # "tell"
              /\ Holders(c) # {} \/ reads[c] # <<>> \/ strand[c].at # "idle"
        /\ Len(reads[c]) <= 1
        /\ strand[c].at # "idle" => reads[c] = <<>>

\* A connection that no write, no header and no identifier has broken: its disconnect
\* is told once, by its reader, which ends with it, and its worker leaves it with
\* nothing due.
CleanOK(c) ==
    ~broken[c] =>
        /\ ~overtaken[c]
        /\ strand[c].at \in {"close", "tell"} => ~strand[c].more
        /\ \A w \in Workers : serving[w] = c => closing[w] = "no"
        /\ DueKind(c, "disconnect") => reads[c] = <<>> /\ strand[c].at = "idle"
        /\ status[c] # "start" =>
              /\ reads[c] = <<>> /\ strand[c].at = "idle"
              /\ \A m \in Letters : Due(c, m) => m.kind \in {"write", "error"}
        /\ status[c] = "stop" => Served(c)
        /\ status[c] = "useless" => mail[c] = <<>> /\ ~Served(c)

\* What a message that is due allows of one behind it.
InOrder(m, n) ==
    /\ m.kind = "disconnect" => n.kind \in {"write", "error"}
    /\ n.kind = "connect" => m.kind \in {"write", "error"}

OrderOK(c) ==
    ~broken[c] =>
        /\ \A i, j \in DOMAIN mail[c] : i < j => InOrder(mail[c][i], mail[c][j])
        /\ \A w \in Workers : serving[w] = c /\ hand[w] # Null =>
              \A i \in DOMAIN mail[c] : InOrder(hand[w], mail[c][i])

\* The client has been announced: no connect is due any more.
Announced(c) == heard[c] = client[c]

\* A connection that was not used again with bytes of the last client either.
ClientOK(c) ==
    ~broken[c] /\ ~mixed[c] =>
        /\ rest[c] \in {0, client[c]}
        /\ \A i \in DOMAIN reads[c] :
              reads[c][i].of = client[c] /\ (reads[c][i].got => reads[c][i].on = client[c])
        /\ strand[c].at # "idle" => strand[c].of = client[c]
        /\ strand[c].at = "parse" => rest[c] = client[c]
        /\ \A m \in Letters : Due(c, m) => m.of = client[c]
        /\ \A a \in Chains : chain[a].conn = c =>
              /\ chain[a].at = "wait" => rest[c] = 0
              /\ chain[a].at # "read" => heard[c] = 0
              /\ chain[a].at = "read" => DueKind(c, "connect") \/ Announced(c)
        /\ status[c] # "start" \/ DueKind(c, "connect") => heard[c] = 0
        /\ reads[c] # <<>> \/ strand[c].at # "idle" \/ DueKind(c, "data") \/ DueKind(c, "disconnect")
              => DueKind(c, "connect") \/ Announced(c)

\* A chain has ended for every connection that is lost.
LostOK ==
    (\A c \in Sessions : ~overtaken[c]) =>
        Cardinality({c \in Sessions : Lost(c)}) = Cardinality({a \in Chains : chain[a].at = "ended"})

\* Nobody reads the connection or is about to.
Quiet(c) == reads[c] = <<>> /\ strand[c].at = "idle"

\* Nobody reads a lost connection, so no message can pass for its disconnect.
QuietOK == \A c \in Sessions : ~overtaken[c] /\ Lost(c) => Quiet(c)

TypesAndActors == MgrTypeOK /\ ActorsOK

OK(c) == SlotOK(c) /\ CleanOK(c) /\ OrderOK(c) /\ ClientOK(c)

\* The inductive invariant.
MgrInv == TypesAndActors /\ LostOK /\ QuietOK /\ \A c \in Sessions : OK(c)
-----------------------------------------------------------------------------
(* Lemmas about messages and connections.                                  *)

\* A set of connections that has a member has a first one, which _accept_post() takes.
LEMMA LeastConnection ==
    ASSUME NEW free, free \subseteq Sessions, free # {}
    PROVE  (CHOOSE c \in free : \A d \in free : c <= d) \in free
<1>1. free \subseteq Nat
  BY NetMgrAssumption
<1>2. IsWellFoundedOn(OpToRel(<, Nat), Nat)
  BY NatLessThanWellFounded
<1>3. PICK c \in free : \A d \in free : ~(<<d, c>> \in OpToRel(<, Nat))
  BY <1>1, <1>2, WFMin
<1>4. \A d \in free : ~(d < c)
  BY <1>1, <1>3 DEF OpToRel
<1>5. \A d \in free : c <= d
  BY <1>1, <1>4
<1> QED
  BY <1>5

\* Pushing one message.
LEMMA PushOne ==
    ASSUME MgrTypeOK, NEW c \in Sessions, NEW m \in Letters, Push(c, <<m>>)
    PROVE  /\ mail' = [mail EXCEPT ![c] = Append(@, m)]
           /\ mail' \in [Sessions -> Seq(Letters)]
           /\ mail'[c] = Append(mail[c], m)
           /\ \A d \in Sessions : d # c => mail'[d] = mail[d]
<1>1. mail[c] \in Seq(Letters) /\ mail \in [Sessions -> Seq(Letters)]
  BY DEF MgrTypeOK
<1>2. mail[c] \o <<m>> = Append(mail[c], m)
  BY <1>1
<1>3. mail' = [mail EXCEPT ![c] = Append(@, m)]
  BY <1>2 DEF Push
<1>4. Append(mail[c], m) \in Seq(Letters)
  BY <1>1
<1> QED
  BY <1>1, <1>3, <1>4

LEMMA NullIsNoMessage == \A m \in Letters : m # Null
BY NetMgrAssumption DEF Letters

LEMMA MsgType == \A kind \in Kinds, of \in Nat : Msg(kind, of) \in Letters
BY DEF Msg, Letters

LEMMA WithoutType ==
    ASSUME NEW s \in Seq(Reads), NEW i \in DOMAIN s
    PROVE  /\ Without(s, i) \in Seq(Reads)
           /\ Len(Without(s, i)) = Len(s) - 1
<1>1. i \in 1..Len(s)
  OBVIOUS
<1>2. /\ SubSeq(s, 1, i - 1) \in Seq(Reads)
      /\ SubSeq(s, i + 1, Len(s)) \in Seq(Reads)
      /\ Len(SubSeq(s, 1, i - 1)) = i - 1
      /\ Len(SubSeq(s, i + 1, Len(s))) = Len(s) - i
  BY <1>1, SubSeqProperties
<1> DEFINE before == SubSeq(s, 1, i - 1)
           after == SubSeq(s, i + 1, Len(s))
<1>3. before \o after \in Seq(Reads) /\ Len(before \o after) = Len(before) + Len(after)
  BY <1>2, ConcatProperties
<1>4. Len(before) = i - 1 /\ Len(after) = Len(s) - i /\ Len(s) \in Nat /\ i \in Nat
  BY <1>1, <1>2
<1> HIDE DEF before, after
<1>5. Len(before) + Len(after) = Len(s) - 1
  BY <1>4
<1> USE DEF before, after
<1> QED
  BY <1>3, <1>5 DEF Without
-----------------------------------------------------------------------------
(* Types, and who holds what.                                              *)

LEMMA ChainTypes ==
    ASSUME TypesAndActors, NEW a \in Chains, ChainStep(a) \/ Accepted(a) \/ AcceptFailed(a)
    PROVE  TypesAndActors'
<1> USE DEF queueVars, socketVars, clientVars, noteVars
<1>1. chain[a] \in ChainStates /\ chain[a].conn \in Sessions \cup {Null} /\ Null \notin Sessions
  BY NetMgrAssumption DEF TypesAndActors, MgrTypeOK, ChainStates
<1>2. CASE AcceptPost(a)
  <2> DEFINE free == {c \in Sessions : status[c] = "useless"}
             first == CHOOSE c \in free : \A d \in free : c <= d
  <2>1. free # {} => first \in Sessions
    BY LeastConnection
  <2> HIDE DEF first
  <2>2. CASE free = {}
    BY <1>2, <2>2 DEF TypesAndActors, MgrTypeOK, ActorsOK, OneWorker, AcceptPost
  <2>3. CASE free # {}
    <3>1. /\ first \in Sessions /\ first # Null
          /\ status' = [status EXCEPT ![first] = "start"]
          /\ chain' = [chain EXCEPT
                ![a] = [at |-> IF open[first] THEN "refused" ELSE "wait", conn |-> first]]
          /\ overtaken' = [overtaken EXCEPT ![first] = @ \/ Held(first)]
          /\ mixed' = [mixed EXCEPT ![first] = @ \/ rest[first] # 0]
          /\ UNCHANGED <<mail, serving, hand, open, reads, strand, rest, closing, fault, client,
                         left, clients, data, heard, broken>>
      BY <1>1, <1>2, <2>1, <2>3 DEF AcceptPost, first
    <3>2. [at |-> IF open[first] THEN "refused" ELSE "wait", conn |-> first] \in ChainStates
      BY <3>1 DEF ChainStates
    <3>3. chain' \in [Chains -> ChainStates]
      BY <3>1, <3>2 DEF TypesAndActors, MgrTypeOK
    <3>4. /\ overtaken' \in [Sessions -> BOOLEAN] /\ mixed' \in [Sessions -> BOOLEAN]
          /\ status' \in [Sessions -> {"useless", "start", "stop"}]
      <4>1. (overtaken[first] \/ Held(first)) \in BOOLEAN /\ (mixed[first] \/ rest[first] # 0) \in BOOLEAN
        OBVIOUS
      <4> QED
        BY <3>1, <4>1 DEF TypesAndActors, MgrTypeOK
    <3>5. MgrTypeOK'
      BY <3>1, <3>3, <3>4 DEF TypesAndActors, MgrTypeOK
    <3>6. ActorsOK'
      BY <3>1 DEF TypesAndActors, MgrTypeOK, ActorsOK, OneWorker
    <3> QED
      BY <3>5, <3>6 DEF TypesAndActors
  <2> QED
    BY <2>2, <2>3
<1>3. CASE Accepted(a)
  <2>1. /\ chain[a].conn \in Sessions /\ clients + 1 \in Nat
        /\ chain' = [chain EXCEPT ![a] = [chain[a] EXCEPT !.at = "connect"]]
    <3>1. chain[a].conn \in Sessions
      BY <1>1, <1>3 DEF TypesAndActors, ActorsOK, Accepted
    <3>2. clients + 1 \in Nat
      BY DEF TypesAndActors, MgrTypeOK
    <3>3. chain' = [chain EXCEPT ![a] = [chain[a] EXCEPT !.at = "connect"]]
      BY <1>3 DEF Accepted
    <3> QED
      BY <3>1, <3>2, <3>3
  <2>2. [chain[a] EXCEPT !.at = "connect"] \in ChainStates
    BY <1>1 DEF ChainStates
  <2>3. MgrTypeOK'
    BY <1>3, <2>1, <2>2 DEF TypesAndActors, MgrTypeOK, Accepted
  <2>4. ActorsOK'
    BY <1>1, <1>3, <2>1 DEF TypesAndActors, MgrTypeOK, ActorsOK, OneWorker, ChainStates, Accepted
  <2> QED
    BY <2>3, <2>4 DEF TypesAndActors
<1>4. CASE AcceptFailed(a)
  BY <1>1, <1>4 DEF TypesAndActors, MgrTypeOK, ActorsOK, OneWorker, ChainStates, AcceptFailed
<1>5. CASE Connected(a)
  <2> DEFINE c == chain[a].conn
  <2>1. c \in Sessions /\ client[c] \in Nat /\ mail[c] \in Seq(Letters)
    BY <1>1, <1>5 DEF TypesAndActors, MgrTypeOK, ActorsOK, Connected
  <2>2. /\ Msg("error", client[c]) \in Letters /\ Msg("connect", client[c]) \in Letters
    BY <2>1, MsgType DEF Kinds
  <2>3. PICK e \in {<<>>, <<Msg("error", client[c])>>} :
              Push(c, e \o <<Msg("connect", client[c])>>)
    BY <1>5 DEF Connected
  <2>4. e \in Seq(Letters) /\ <<Msg("connect", client[c])>> \in Seq(Letters)
    <3> HIDE DEF c
    <3>1. \A m \in Letters : <<m>> \in Seq(Letters)
      OBVIOUS
    <3>2. <<Msg("connect", client[c])>> \in Seq(Letters)
      BY <2>2, <3>1
    <3>3. <<Msg("error", client[c])>> \in Seq(Letters)
      BY <2>2, <3>1
    <3>4. <<>> \in Seq(Letters)
      OBVIOUS
    <3> QED
      BY <3>2, <3>3, <3>4
  <2>5. mail[c] \o (e \o <<Msg("connect", client[c])>>) \in Seq(Letters)
    BY <2>1, <2>4, ConcatProperties
  <2>6. mail' \in [Sessions -> Seq(Letters)]
    BY <2>1, <2>3, <2>5 DEF TypesAndActors, MgrTypeOK, Push
  <2> QED
    BY <1>1, <1>5, <2>6
       DEF TypesAndActors, MgrTypeOK, ActorsOK, OneWorker, ChainStates, Connected
<1>6. CASE FirstRead(a)
  <2> DEFINE c == chain[a].conn
  <2>1. /\ c \in Sessions /\ client[c] \in Nat /\ reads[c] \in Seq(Reads)
        /\ open[c] \in BOOLEAN
    BY <1>1, <1>6 DEF TypesAndActors, MgrTypeOK, ActorsOK, FirstRead
  <2>2. [of |-> client[c], on |-> IF open[c] THEN client[c] ELSE 0, got |-> FALSE] \in Reads
    BY <2>1 DEF Reads
  <2>3. reads' \in [Sessions -> Seq(Reads)]
    BY <1>6, <2>1, <2>2 DEF TypesAndActors, MgrTypeOK, FirstRead, ReadPosted
  <2> QED
    BY <1>1, <1>6, <2>3
       DEF TypesAndActors, MgrTypeOK, ActorsOK, OneWorker, ChainStates, FirstRead
<1>7. CASE ChainClose(a)
  BY <1>1, <1>7 DEF TypesAndActors, MgrTypeOK, ActorsOK, OneWorker, ChainStates, ChainClose
<1>8. CASE ChainTell(a)
  <2> DEFINE c == chain[a].conn
  <2>1. c \in Sessions /\ Msg("disconnect", client[c]) \in Letters
    BY <1>1, <1>8, MsgType DEF TypesAndActors, MgrTypeOK, ActorsOK, ChainTell, Kinds
  <2>2. mail' \in [Sessions -> Seq(Letters)]
    BY <1>8, <2>1, PushOne DEF TypesAndActors, ChainTell
  <2> QED
    BY <1>1, <1>8, <2>2
       DEF TypesAndActors, MgrTypeOK, ActorsOK, OneWorker, ChainStates, ChainTell
<1> QED
  BY <1>2, <1>3, <1>4, <1>5, <1>6, <1>7, <1>8 DEF ChainStep

LEMMA ReaderTypes ==
    ASSUME TypesAndActors, NEW c \in Sessions,
           \/ StrandStep(c) \/ PeerGone(c)
           \/ \E i \in DOMAIN reads[c] : ReadArrives(c, i) \/ ReadFailed(c, i)
    PROVE  TypesAndActors'
<1> USE DEF queueVars, socketVars, clientVars, noteVars
<1>1. /\ strand[c] \in Strands /\ strand[c].of \in Nat /\ strand[c].more \in BOOLEAN
      /\ reads[c] \in Seq(Reads) /\ rest[c] \in Nat /\ client[c] \in Nat /\ open[c] \in BOOLEAN
  BY DEF TypesAndActors, MgrTypeOK, Strands
<1>2. \A i \in DOMAIN reads[c] :
         /\ reads[c][i] \in Reads /\ reads[c][i].of \in Nat /\ reads[c][i].on \in Nat
         /\ Without(reads[c], i) \in Seq(Reads)
  <2>1. \A i \in DOMAIN reads[c] : Without(reads[c], i) \in Seq(Reads)
    BY <1>1, WithoutType
  <2>2. \A i \in DOMAIN reads[c] : reads[c][i] \in Reads
    BY <1>1
  <2> QED
    BY <2>1, <2>2 DEF Reads
<1>3. CASE \E i \in DOMAIN reads[c] : ReadData(c, i)
  BY SMTT(30), <1>1, <1>2, <1>3 DEF TypesAndActors, MgrTypeOK, ActorsOK, OneWorker, Strands, ReadData
<1>4. CASE Parsed(c)
  <2>1. PICK kind \in {"data", "connect", "disconnect", "error"} :
           /\ Push(c, <<Msg(kind, rest[c])>>)
           /\ broken' = [broken EXCEPT ![c] = broken[c] \/ kind \in {"connect", "disconnect"}]
    BY <1>4 DEF Parsed
  <2>2. Msg(kind, rest[c]) \in Letters
    BY <1>1, MsgType DEF Kinds
  <2>3. mail' \in [Sessions -> Seq(Letters)]
    BY <2>1, <2>2, PushOne DEF TypesAndActors
  <2>4. broken' \in [Sessions -> BOOLEAN]
    <3>1. (broken[c] \/ kind \in {"connect", "disconnect"}) \in BOOLEAN
      OBVIOUS
    <3> QED
      BY <2>1, <3>1 DEF TypesAndActors, MgrTypeOK
  <2> QED
    BY <1>4, <2>3, <2>4 DEF TypesAndActors, MgrTypeOK, ActorsOK, OneWorker, Parsed
<1>5. CASE ParsedTooBig(c)
  <2>1. Msg("error", strand[c].of) \in Letters
    BY <1>1, MsgType DEF Kinds
  <2>2. mail' \in [Sessions -> Seq(Letters)]
    BY <1>5, <2>1, PushOne DEF TypesAndActors, ParsedTooBig
  <2> QED
    BY <1>1, <1>5, <2>2 DEF TypesAndActors, MgrTypeOK, ActorsOK, OneWorker, Strands, Idle,
       Closing, ParsedTooBig
<1>6. CASE ParsedAll(c)
  <2>1. strand' \in [Sessions -> Strands]
    BY <1>1, <1>6 DEF TypesAndActors, MgrTypeOK, Strands, ParsedAll
  <2>2. rest' \in [Sessions -> Nat]
    <3>1. rest' = [rest EXCEPT ![c] = 0] \/ rest' = rest
      BY <1>6 DEF ParsedAll
    <3>2. rest \in [Sessions -> Nat]
      BY DEF TypesAndActors, MgrTypeOK
    <3> QED
      BY <3>1, <3>2
  <2> QED
    BY <1>6, <2>1, <2>2 DEF TypesAndActors, MgrTypeOK, ActorsOK, OneWorker, ParsedAll
<1>7. CASE NextRead(c)
  <2>1. [of |-> strand[c].of, on |-> IF open[c] THEN client[c] ELSE 0, got |-> FALSE] \in Reads
    BY <1>1 DEF Reads
  <2>2. reads' \in [Sessions -> Seq(Reads)]
    BY <1>1, <1>7, <2>1 DEF TypesAndActors, MgrTypeOK, NextRead, ReadPosted
  <2> QED
    BY <1>7, <2>2 DEF TypesAndActors, MgrTypeOK, ActorsOK, OneWorker, Strands, Idle, NextRead
<1>8. CASE StrandClose(c)
  BY <1>1, <1>8 DEF TypesAndActors, MgrTypeOK, ActorsOK, OneWorker, Strands, StrandClose
<1>9. CASE StrandTell(c)
  <2>1. Msg("disconnect", strand[c].of) \in Letters
    BY <1>1, MsgType DEF Kinds
  <2>2. mail' \in [Sessions -> Seq(Letters)]
    BY <1>9, <2>1, PushOne DEF TypesAndActors, StrandTell
  <2>3. strand' \in [Sessions -> Strands]
    BY <1>1, <1>9 DEF TypesAndActors, MgrTypeOK, Strands, Idle, StrandTell
  <2> QED
    BY <1>9, <2>2, <2>3 DEF TypesAndActors, MgrTypeOK, ActorsOK, OneWorker, StrandTell
<1>10. CASE PeerGone(c)
  BY <1>10 DEF TypesAndActors, MgrTypeOK, ActorsOK, OneWorker, PeerGone
<1>11. ASSUME NEW i \in DOMAIN reads[c], ReadArrives(c, i)
       PROVE  TypesAndActors'
  <2>1. [reads[c][i] EXCEPT !.got = TRUE] \in Reads
    BY <1>2 DEF Reads
  <2>2. reads' = [reads EXCEPT ![c] = [reads[c] EXCEPT ![i] = [reads[c][i] EXCEPT !.got = TRUE]]]
    BY <1>11 DEF ReadArrives
  <2>3. [reads[c] EXCEPT ![i] = [reads[c][i] EXCEPT !.got = TRUE]] \in Seq(Reads)
    BY <1>1, <2>1
  <2>4. reads' \in [Sessions -> Seq(Reads)]
    BY <2>2, <2>3 DEF TypesAndActors, MgrTypeOK
  <2> QED
    BY <1>11, <2>4 DEF TypesAndActors, MgrTypeOK, ActorsOK, OneWorker, ReadArrives
<1>12. ASSUME NEW i \in DOMAIN reads[c], ReadFailed(c, i)
       PROVE  TypesAndActors'
  <2>1. Msg("error", reads[c][i].of) \in Letters
    BY <1>2, MsgType DEF Kinds
  <2>2. mail' \in [Sessions -> Seq(Letters)]
    BY <1>12, <2>1, PushOne DEF TypesAndActors, ReadFailed
  <2> QED
    BY <1>2, <1>12, <2>2 DEF TypesAndActors, MgrTypeOK, ActorsOK, OneWorker, Strands, Idle,
       ReadFailed
<1> QED
  BY <1>3, <1>4, <1>5, <1>6, <1>7, <1>8, <1>9, <1>10, <1>11, <1>12 DEF StrandStep

LEMMA WorkerTypes ==
    ASSUME TypesAndActors, NEW w \in Workers, WorkerStep(w)
    PROVE  TypesAndActors'
<1> USE DEF queueVars, socketVars, clientVars, noteVars, workerOnly
<1>1. /\ serving[w] \in Sessions \cup {Null} /\ hand[w] \in Letters \cup {Null}
      /\ hand[w] # Null => serving[w] \in Sessions /\ hand[w] \in Letters /\ hand[w].of \in Nat
      /\ closing[w] # "no" => hand[w] # Null /\ hand[w].kind = "write"
  BY DEF TypesAndActors, MgrTypeOK, ActorsOK, Letters
<1>2. CASE \E c \in Sessions : ServeNext(w, c)
  BY <1>2 DEF TypesAndActors, MgrTypeOK, ActorsOK, OneWorker, ServeNext, Serve, Served
<1>3. CASE TakeMessage(w)
  <2> DEFINE c == serving[w]
  <2>1. c \in Sessions /\ mail[c] \in Seq(Letters) /\ mail[c] # <<>>
    BY <1>1, <1>3 DEF TypesAndActors, MgrTypeOK, TakeMessage, Receive
  <2>2. Head(mail[c]) \in Letters /\ Tail(mail[c]) \in Seq(Letters) /\ Head(mail[c]) # Null
    BY <2>1, NullIsNoMessage
  <2>3. mail' = [mail EXCEPT ![c] = Tail(mail[c])]
    BY <1>3 DEF TakeMessage, Receive
  <2>4. mail' \in [Sessions -> Seq(Letters)] /\ hand' \in [Workers -> Letters \cup {Null}]
    BY <1>3, <2>2, <2>3 DEF TypesAndActors, MgrTypeOK, TakeMessage, Receive
  <2> QED
    BY <1>1, <1>3, <2>2, <2>4
       DEF TypesAndActors, MgrTypeOK, ActorsOK, OneWorker, TakeMessage, Receive
<1>4. CASE NoMessages(w)
  BY <1>4 DEF TypesAndActors, MgrTypeOK, ActorsOK, OneWorker, NoMessages, Leave
<1>5. CASE HandleConnect(w)
  BY <1>1, <1>5
     DEF TypesAndActors, MgrTypeOK, ActorsOK, OneWorker, HandleConnect, Handling, Release
<1>6. CASE HandleDisconnect(w)
  BY <1>1, <1>6
     DEF TypesAndActors, MgrTypeOK, ActorsOK, OneWorker, HandleDisconnect, Handling, Release
<1>7. CASE HandleError(w)
  BY <1>1, <1>7
     DEF TypesAndActors, MgrTypeOK, ActorsOK, OneWorker, HandleError, Handling, Release
<1>8. CASE HandleData(w)
  <2>1. serving[w] \in Sessions /\ Msg("write", hand[w].of) \in Letters
    BY <1>1, <1>8, MsgType DEF HandleData, Handling, Kinds
  <2>2. CASE hand' = [hand EXCEPT ![w] = Null] /\ Push(serving[w], <<Msg("write", hand[w].of)>>)
             /\ UNCHANGED fault
    <3>1. mail' \in [Sessions -> Seq(Letters)]
      BY <2>1, <2>2, PushOne DEF TypesAndActors
    <3> QED
      BY <1>1, <1>8, <2>2, <3>1
         DEF TypesAndActors, MgrTypeOK, ActorsOK, OneWorker, HandleData, Handling
  <2>3. CASE fault' = "member" /\ UNCHANGED <<mail, hand>>
    BY <1>8, <2>3 DEF TypesAndActors, MgrTypeOK, ActorsOK, OneWorker, HandleData
  <2> QED
    BY <1>8, <2>2, <2>3 DEF HandleData
<1>9. CASE Write(w)
  BY <1>1, <1>9 DEF TypesAndActors, MgrTypeOK, ActorsOK, OneWorker, Write, Handling, Release
<1>10. CASE WriteFailed(w)
  <2>1. serving[w] \in Sessions /\ Msg("error", hand[w].of) \in Letters
    BY <1>1, <1>10, MsgType DEF WriteFailed, Handling, Kinds
  <2>2. mail' \in [Sessions -> Seq(Letters)]
    BY <1>10, <2>1, PushOne DEF TypesAndActors, WriteFailed
  <2>3. MgrTypeOK'
    BY <1>1, <1>10, <2>2 DEF TypesAndActors, MgrTypeOK, WriteFailed, Handling
  <2>4. ActorsOK'
    BY ZenonT(30), <1>1, <1>10 DEF TypesAndActors, MgrTypeOK, ActorsOK, OneWorker, WriteFailed, Handling
  <2> QED
    BY <2>3, <2>4 DEF TypesAndActors
<1>11. CASE WorkerClose(w)
  BY <1>1, <1>11 DEF TypesAndActors, MgrTypeOK, ActorsOK, OneWorker, WorkerClose
<1>12. CASE WorkerTell(w)
  <2>1. serving[w] \in Sessions /\ Msg("disconnect", hand[w].of) \in Letters
    BY <1>1, <1>12, MsgType DEF WorkerTell, Kinds
  <2>2. mail' \in [Sessions -> Seq(Letters)]
    BY <1>12, <2>1, PushOne DEF TypesAndActors, WorkerTell
  <2> QED
    BY <1>1, <1>12, <2>2 DEF TypesAndActors, MgrTypeOK, ActorsOK, OneWorker, WorkerTell
<1> QED
  BY <1>2, <1>3, <1>4, <1>5, <1>6, <1>7, <1>8, <1>9, <1>10, <1>11, <1>12 DEF WorkerStep
-----------------------------------------------------------------------------
(* A step leaves every connection but one as it is.                        *)

SameSocket(c) ==
    /\ status'[c] = status[c] /\ open'[c] = open[c] /\ reads'[c] = reads[c]
    /\ strand'[c] = strand[c] /\ rest'[c] = rest[c] /\ client'[c] = client[c]

SameNotes(c) ==
    /\ heard'[c] = heard[c] /\ broken'[c] = broken[c]
    /\ overtaken'[c] = overtaken[c] /\ mixed'[c] = mixed[c]

SameHolders(c) ==
    \A a \in Chains : chain[a].conn = c \/ chain'[a].conn = c => chain'[a] = chain[a]

SameWorkers(c) ==
    \A w \in Workers : serving[w] = c \/ serving'[w] = c =>
        serving'[w] = serving[w] /\ hand'[w] = hand[w] /\ closing'[w] = closing[w]

Same(c) ==
    SameSocket(c) /\ SameNotes(c) /\ SameHolders(c) /\ SameWorkers(c) /\ mail'[c] = mail[c]

\* What every step does for every connection: what holds of it still does, and it is
\* lost after the step only if it was before.
Kept(c) ==
    /\ OK(c)'
    /\ ~overtaken'[c] => ~overtaken[c] /\ (Lost(c)' <=> Lost(c))

LEMMA SameDue ==
    ASSUME NEW c \in Sessions, SameWorkers(c), mail'[c] = mail[c]
    PROVE  /\ \A m \in Letters : Due(c, m)' <=> Due(c, m)
           /\ \A kind : DueKind(c, kind)' <=> DueKind(c, kind)
           /\ Served(c)' <=> Served(c)
<1>1. \A m \in Letters : Due(c, m)' <=> Due(c, m)
  BY DEF SameWorkers, Due
<1>2. \A kind : DueKind(c, kind)' <=> DueKind(c, kind)
  BY <1>1 DEF DueKind
<1> QED
  BY <1>1, <1>2 DEF SameWorkers, Served

LEMMA SameHolding ==
    ASSUME NEW c, SameHolders(c)
    PROVE  Holders(c)' = Holders(c)
BY DEF SameHolders, Holders

LEMMA SameKept ==
    ASSUME NEW c \in Sessions, OK(c), Same(c)
    PROVE  Kept(c)
<1>1. SameSocket(c) /\ SameNotes(c) /\ SameHolders(c) /\ SameWorkers(c) /\ mail'[c] = mail[c]
  BY DEF Same
<1>2. /\ \A m \in Letters : Due(c, m)' <=> Due(c, m)
      /\ \A kind : DueKind(c, kind)' <=> DueKind(c, kind)
      /\ Served(c)' <=> Served(c)
      /\ Holders(c)' = Holders(c)
  BY <1>1, SameDue, SameHolding
<1>3. SlotOK(c)'
  <2>1. SlotOK(c)
    BY DEF OK
  <2> QED
    BY <1>1, <1>2, <2>1 DEF SlotOK, SameSocket, SameNotes, SameHolders, SameWorkers
<1>4. CleanOK(c)'
  <2>1. CleanOK(c)
    BY DEF OK
  <2> QED
    BY <1>1, <1>2, <2>1 DEF CleanOK, SameSocket, SameNotes, SameHolders, SameWorkers
<1>5. OrderOK(c)'
  <2>1. OrderOK(c)
    BY DEF OK
  <2> QED
    BY <1>1, <1>2, <2>1 DEF OrderOK, SameSocket, SameNotes, SameHolders, SameWorkers
<1>6. ClientOK(c)'
  <2>1. ClientOK(c)
    BY DEF OK
  <2> QED
    BY <1>1, <1>2, <2>1 DEF ClientOK, Announced, SameSocket, SameNotes, SameHolders, SameWorkers
<1>7. Lost(c)' <=> Lost(c)
  BY <1>1, <1>2 DEF Lost, DisconnectDue, SameSocket, SameNotes, SameHolders, SameWorkers
<1> QED
  BY <1>1, <1>3, <1>4, <1>5, <1>6, <1>7 DEF Kept, OK, SameNotes
-----------------------------------------------------------------------------
(* What a push and the end of a message do to what is due.                 *)

\* A worker of connection c has released message m.
Dropped(c, m) == \E w \in Workers : serving[w] = c /\ hand[w] = m /\ hand'[w] = Null

\* The workers still serve what they served; their hands are as they were or empty.
HandsKeptOrEmptied ==
    serving' = serving /\ \A w \in Workers : hand'[w] \in {hand[w], Null}

LEMMA AfterPush ==
    ASSUME MgrTypeOK, NEW c \in Sessions, NEW m \in Letters, Push(c, <<m>>), HandsKeptOrEmptied
    PROVE  /\ \A n \in Letters : Due(c, n)' => Due(c, n) \/ n = m
           /\ \A n \in Letters : Due(c, n) => Due(c, n)' \/ Dropped(c, n)
           /\ Due(c, m)'
           /\ Served(c)' <=> Served(c)
           /\ \A d \in Sessions : d # c => mail'[d] = mail[d]
<1>1. /\ mail'[c] = Append(mail[c], m) /\ mail[c] \in Seq(Letters)
      /\ \A d \in Sessions : d # c => mail'[d] = mail[d]
  BY PushOne DEF MgrTypeOK
<1>2. /\ DOMAIN mail'[c] = 1..(Len(mail[c]) + 1) /\ DOMAIN mail[c] = 1..Len(mail[c])
      /\ \A i \in DOMAIN mail[c] : mail'[c][i] = mail[c][i]
      /\ mail'[c][Len(mail[c]) + 1] = m /\ Len(mail[c]) \in Nat
  BY <1>1
<1>3. \A i \in DOMAIN mail'[c] : i \in DOMAIN mail[c] \/ i = Len(mail[c]) + 1
  BY <1>2
<1>4. Len(mail[c]) + 1 \in DOMAIN mail'[c] /\ DOMAIN mail[c] \subseteq DOMAIN mail'[c]
  BY <1>2
<1>5. \A n \in Letters : Due(c, n)' => Due(c, n) \/ n = m
  BY <1>2, <1>3, NullIsNoMessage DEF Due, HandsKeptOrEmptied
<1>6. \A n \in Letters : Due(c, n) => Due(c, n)' \/ Dropped(c, n)
  BY <1>2, <1>4 DEF Due, Dropped, HandsKeptOrEmptied
<1>7. Due(c, m)'
  BY <1>2, <1>4 DEF Due
<1> QED
  BY <1>1, <1>5, <1>6, <1>7 DEF Served, HandsKeptOrEmptied

LEMMA OrderAfterPush ==
    ASSUME MgrTypeOK, NEW c \in Sessions, NEW m \in Letters, Push(c, <<m>>), HandsKeptOrEmptied,
           OrderOK(c), ~broken'[c] => ~broken[c] /\ \A n \in Letters : Due(c, n) => InOrder(n, m)
    PROVE  OrderOK(c)'
<1>1. mail'[c] = Append(mail[c], m) /\ mail[c] \in Seq(Letters)
  BY PushOne DEF MgrTypeOK
<1>2. /\ DOMAIN mail'[c] = 1..(Len(mail[c]) + 1) /\ DOMAIN mail[c] = 1..Len(mail[c])
      /\ \A i \in DOMAIN mail[c] : mail'[c][i] = mail[c][i] /\ mail[c][i] \in Letters
      /\ mail'[c][Len(mail[c]) + 1] = m /\ Len(mail[c]) \in Nat
  BY <1>1
<1>3. \A i \in DOMAIN mail'[c] : i \in DOMAIN mail[c] \/ i = Len(mail[c]) + 1
  BY <1>2
<1> SUFFICES ASSUME ~broken'[c]
             PROVE  /\ \A i, j \in DOMAIN mail'[c] : i < j => InOrder(mail'[c][i], mail'[c][j])
                    /\ \A w \in Workers : serving'[w] = c /\ hand'[w] # Null =>
                          \A i \in DOMAIN mail'[c] : InOrder(hand'[w], mail'[c][i])
  BY DEF OrderOK, InOrder
<1>4. \A i \in DOMAIN mail[c] : InOrder(mail[c][i], m)
  BY <1>2 DEF Due
<1>5. \A w \in Workers : serving[w] = c /\ hand[w] # Null => InOrder(hand[w], m)
  BY DEF Due, MgrTypeOK
<1>6. ASSUME NEW i \in DOMAIN mail'[c], NEW j \in DOMAIN mail'[c], i < j
      PROVE  InOrder(mail'[c][i], mail'[c][j])
  <2>1. i \in DOMAIN mail[c]
    BY <1>2, <1>3, <1>6
  <2>2. CASE j \in DOMAIN mail[c]
    BY <1>2, <1>6, <2>1, <2>2 DEF OrderOK
  <2>3. CASE j = Len(mail[c]) + 1
    BY <1>2, <1>4, <2>1, <2>3
  <2> QED
    BY <1>3, <2>2, <2>3
<1>7. ASSUME NEW w \in Workers, serving'[w] = c, hand'[w] # Null, NEW i \in DOMAIN mail'[c]
      PROVE  InOrder(hand'[w], mail'[c][i])
  <2>1. hand'[w] = hand[w] /\ serving[w] = c /\ hand[w] # Null
    BY <1>7 DEF HandsKeptOrEmptied
  <2>2. CASE i \in DOMAIN mail[c]
    BY <1>2, <2>1, <2>2 DEF OrderOK
  <2>3. CASE i = Len(mail[c]) + 1
    BY <1>2, <1>5, <2>1, <2>3
  <2> QED
    BY <1>3, <2>2, <2>3
<1> QED
  BY <1>6, <1>7

LEMMA AfterRelease ==
    ASSUME MgrTypeOK, NEW c \in Sessions, mail' = mail, HandsKeptOrEmptied
    PROVE  /\ \A n \in Letters : Due(c, n)' => Due(c, n)
           /\ \A n \in Letters : Due(c, n) => Due(c, n)' \/ Dropped(c, n)
           /\ Served(c)' <=> Served(c)
BY NullIsNoMessage DEF Due, Dropped, Served, HandsKeptOrEmptied

LEMMA OrderAfterRelease ==
    ASSUME NEW c \in Sessions, mail'[c] = mail[c], HandsKeptOrEmptied,
           OrderOK(c), ~broken'[c] => ~broken[c]
    PROVE  OrderOK(c)'
BY DEF OrderOK, HandsKeptOrEmptied, InOrder

\* Nothing but a push happens to the queue of connection c.
LEMMA AfterPost ==
    ASSUME MgrTypeOK, NEW c \in Sessions, NEW m \in Letters, Push(c, <<m>>),
           UNCHANGED <<serving, hand>>
    PROVE  /\ \A n \in Letters : Due(c, n)' <=> Due(c, n) \/ n = m
           /\ \A kind : DueKind(c, kind)' <=> DueKind(c, kind) \/ kind = m.kind
           /\ Served(c)' <=> Served(c)
           /\ \A d \in Sessions : d # c => mail'[d] = mail[d]
<1>1. HandsKeptOrEmptied
  BY DEF HandsKeptOrEmptied
<1>2. \A n \in Letters : ~Dropped(c, n)
  BY NullIsNoMessage DEF Dropped
<1>3. \A n \in Letters : Due(c, n)' <=> Due(c, n) \/ n = m
  BY <1>1, <1>2, AfterPush
<1>4. \A kind : DueKind(c, kind)' <=> DueKind(c, kind) \/ kind = m.kind
  BY <1>3 DEF DueKind
<1> QED
  BY <1>1, <1>3, <1>4, AfterPush

\* The queue of connection c is as it was.
LEMMA AfterNone ==
    ASSUME NEW c \in Sessions, mail'[c] = mail[c], UNCHANGED <<serving, hand>>
    PROVE  /\ \A n \in Letters : Due(c, n)' <=> Due(c, n)
           /\ \A kind : DueKind(c, kind)' <=> DueKind(c, kind)
           /\ Served(c)' <=> Served(c)
<1>1. \A n \in Letters : Due(c, n)' <=> Due(c, n)
  BY DEF Due
<1> QED
  BY <1>1 DEF DueKind, Served

\* The chains are as they were.
LEMMA SameChains ==
    ASSUME UNCHANGED chain
    PROVE  \A c : SameHolders(c) /\ Holders(c)' = Holders(c)
BY DEF SameHolders, Holders

\* A connection that somebody reads is held by no chain.
LEMMA ReadIsNotHeld ==
    ASSUME NEW c \in Sessions, OK(c), ~overtaken[c], reads[c] # <<>> \/ strand[c].at # "idle"
    PROVE  Holders(c) = {} /\ \A a \in Chains : chain[a].conn # c
BY DEF OK, SlotOK, Holders

-----------------------------------------------------------------------------
(* The read handler.                                                       *)

LEMMA StrandCloseKept ==
    ASSUME TypesAndActors, \A d \in Sessions : OK(d), NEW c \in Sessions, StrandClose(c)
    PROVE  \A d \in Sessions : Kept(d)
<1>1. /\ strand[c].at = "close" /\ ~open'[c] /\ strand'[c] = [strand[c] EXCEPT !.at = "tell"]
      /\ \A d \in Sessions : d # c => open'[d] = open[d] /\ strand'[d] = strand[d]
      /\ UNCHANGED <<mail, serving, hand, closing, status, reads, client, rest, chain, heard,
                     broken, overtaken, mixed>>
  BY DEF StrandClose, TypesAndActors, MgrTypeOK, queueVars, clientVars, noteVars
<1>2. /\ \A n \in Letters : Due(c, n)' <=> Due(c, n)
      /\ \A kind : DueKind(c, kind)' <=> DueKind(c, kind)
      /\ Served(c)' <=> Served(c)
      /\ Holders(c)' = Holders(c)
  BY <1>1, AfterNone, SameChains
<1>3. \A d \in Sessions : d # c => Kept(d)
  BY <1>1, SameKept, SameChains DEF Same, SameSocket, SameNotes, SameWorkers
<1>4. /\ strand'[c].at = "tell" /\ strand'[c].of = strand[c].of /\ strand'[c].more = strand[c].more
  BY <1>1 DEF TypesAndActors, MgrTypeOK, Strands
<1>5. ~overtaken[c] => \A a \in Chains : chain[a].conn # c
  BY <1>1, ReadIsNotHeld
<1>6. SlotOK(c)'
  BY <1>1, <1>2, <1>4, <1>5 DEF OK, SlotOK
<1>7. CleanOK(c)'
  BY <1>1, <1>2, <1>4, <1>5 DEF OK, CleanOK
<1>8. OrderOK(c)'
  BY <1>1 DEF OK, OrderOK, InOrder
<1>9. ClientOK(c)'
  BY <1>1, <1>2, <1>4, <1>5 DEF OK, ClientOK, Announced
<1>10. Lost(c)' <=> Lost(c)
  BY <1>1, <1>4 DEF Lost, DisconnectDue
<1> QED
  BY <1>1, <1>3, <1>6, <1>7, <1>8, <1>9, <1>10 DEF Kept, OK

LEMMA StrandTellKept ==
    ASSUME TypesAndActors, \A d \in Sessions : OK(d), NEW c \in Sessions, StrandTell(c)
    PROVE  \A d \in Sessions : Kept(d)
<1>1. /\ strand[c].at = "tell"
      /\ strand'[c] = IF strand[c].more THEN [strand[c] EXCEPT !.at = "post"] ELSE Idle
      /\ \A d \in Sessions : d # c => strand'[d] = strand[d]
      /\ UNCHANGED <<open, serving, hand, closing, status, reads, client, rest, chain, heard,
                     broken, overtaken, mixed>>
  BY DEF StrandTell, TypesAndActors, MgrTypeOK, socketVars, clientVars, noteVars
<1>2. PICK m \in Letters :
         Push(c, <<m>>) /\ m.kind = "disconnect" /\ m.of = strand[c].of
  <2>1. strand[c].of \in Nat
    BY DEF TypesAndActors, MgrTypeOK, Strands
  <2>2. Msg("disconnect", strand[c].of) \in Letters
    BY <2>1, MsgType DEF Kinds
  <2> QED
    BY <2>2 DEF StrandTell, Msg
<1>3. /\ \A n \in Letters : Due(c, n)' <=> Due(c, n) \/ n = m
      /\ \A kind : DueKind(c, kind)' <=> DueKind(c, kind) \/ kind = "disconnect"
      /\ Served(c)' <=> Served(c)
      /\ \A d \in Sessions : d # c => mail'[d] = mail[d]
      /\ Holders(c)' = Holders(c)
  BY <1>1, <1>2, AfterPost, SameChains DEF TypesAndActors
<1>4. \A d \in Sessions : d # c => Kept(d)
  BY <1>1, <1>3, SameKept, SameChains DEF Same, SameSocket, SameNotes, SameWorkers
<1>5. /\ strand'[c].at \in {"post", "idle"} /\ (strand'[c].at = "post" <=> strand[c].more)
      /\ strand[c].more => strand'[c].of = strand[c].of
  BY <1>1 DEF TypesAndActors, MgrTypeOK, Strands, Idle
<1>6. ~overtaken[c] => (\A a \in Chains : chain[a].conn # c) /\ reads[c] = <<>> /\ ~open[c]
  BY <1>1, ReadIsNotHeld DEF OK, SlotOK
<1>7. SlotOK(c)'
  BY <1>1, <1>3, <1>5, <1>6 DEF OK, SlotOK
<1>8. CleanOK(c)'
  <2>1. ~broken[c] =>
           /\ ~overtaken[c] /\ status[c] = "start" /\ reads[c] = <<>> /\ strand'[c].at = "idle"
           /\ \A w \in Workers : serving[w] = c => closing[w] = "no"
    BY <1>1, <1>5, <1>6 DEF OK, CleanOK
  <2> QED
    BY <1>1, <2>1 DEF CleanOK
<1>9. OrderOK(c)'
  <2>1. ~broken[c] => ~DueKind(c, "disconnect")
    BY <1>1 DEF OK, CleanOK
  <2>2. ~broken[c] => \A n \in Letters : Due(c, n) => InOrder(n, m)
    BY <1>2, <2>1 DEF InOrder, DueKind
  <2> QED
    BY <1>1, <1>2, <2>2, OrderAfterPush DEF OK, HandsKeptOrEmptied, TypesAndActors
<1>10. ClientOK(c)'
  <2> SUFFICES ASSUME ~broken[c], ~mixed[c]
               PROVE  ClientOK(c)'
    BY <1>1 DEF ClientOK
  <2>1. /\ reads[c] = <<>> /\ strand'[c].at = "idle" /\ status[c] = "start"
        /\ \A a \in Chains : chain[a].conn # c
    BY <1>1, <1>5, <1>6 DEF OK, CleanOK
  <2>2. /\ rest[c] \in {0, client[c]} /\ strand[c].of = client[c]
        /\ \A n \in Letters : Due(c, n) => n.of = client[c]
        /\ DueKind(c, "connect") => heard[c] = 0
        /\ DueKind(c, "connect") \/ heard[c] = client[c]
    BY <1>1 DEF OK, ClientOK, Announced
  <2>3. \A n \in Letters : Due(c, n)' => n.of = client[c]
    BY <1>2, <1>3, <2>2
  <2>4. DueKind(c, "connect")' <=> DueKind(c, "connect")
    BY <1>3
  <2> QED
    BY <1>1, <2>1, <2>2, <2>3, <2>4 DEF ClientOK, Announced
<1>11. ~overtaken[c] => (Lost(c)' <=> Lost(c))
  <2>1. ~Lost(c)
    BY <1>1 DEF Lost, DisconnectDue
  <2>2. DisconnectDue(c)'
    <3>1. Due(c, m)'
      BY <1>2, <1>3
    <3> QED
      BY <1>1, <1>2, <3>1, NullIsNoMessage DEF DisconnectDue, Due
  <2> QED
    BY <2>1, <2>2 DEF Lost
<1> QED
  BY <1>1, <1>4, <1>7, <1>8, <1>9, <1>10, <1>11 DEF Kept, OK

\* Nothing is claimed of a connection that was used again too early.
LEMMA OvertakenKept ==
    ASSUME NEW c \in Sessions, OK(c), overtaken[c], overtaken'[c], broken[c] => broken'[c]
    PROVE  Kept(c)
<1>1. broken[c]
  BY DEF OK, CleanOK
<1> QED
  BY <1>1 DEF Kept, OK, SlotOK, CleanOK, OrderOK, ClientOK

\* A lost connection in terms of what is due.
LEMMA LostIs ==
    ASSUME TypesAndActors, NEW c \in Sessions
    PROVE  Lost(c) <=>
               /\ status[c] = "start" /\ Holders(c) = {} /\ ~open[c]
               /\ strand[c].at \notin {"close", "tell"} /\ ~DueKind(c, "disconnect")
               /\ \A w \in Workers : serving[w] = c => closing[w] = "no"
<1>1. /\ \A w \in Workers : hand[w] \in Letters \cup {Null}
      /\ \A i \in DOMAIN mail[c] : mail[c][i] \in Letters
      /\ \A w \in Workers : closing[w] # "no" => hand[w] # Null
  BY DEF TypesAndActors, MgrTypeOK, ActorsOK
<1>2. DueKind(c, "disconnect") <=>
          \/ \E i \in DOMAIN mail[c] : mail[c][i].kind = "disconnect"
          \/ \E w \in Workers : serving[w] = c /\ hand[w] # Null /\ hand[w].kind = "disconnect"
  BY <1>1, NullIsNoMessage DEF DueKind, Due
<1> QED
  BY <1>1, <1>2 DEF Lost, DisconnectDue

LEMMA LostIsNext ==
    ASSUME TypesAndActors', NEW c \in Sessions
    PROVE  Lost(c)' <=>
               /\ status'[c] = "start" /\ Holders(c)' = {} /\ ~open'[c]
               /\ strand'[c].at \notin {"close", "tell"} /\ ~DueKind(c, "disconnect")'
               /\ \A w \in Workers : serving'[w] = c => closing'[w] = "no"
<1>1. /\ \A w \in Workers : hand'[w] \in Letters \cup {Null}
      /\ \A i \in DOMAIN mail'[c] : mail'[c][i] \in Letters
      /\ \A w \in Workers : closing'[w] # "no" => hand'[w] # Null
  BY DEF TypesAndActors, MgrTypeOK, ActorsOK
<1>2. DueKind(c, "disconnect")' <=>
          \/ \E i \in DOMAIN mail'[c] : mail'[c][i].kind = "disconnect"
          \/ \E w \in Workers :
                serving'[w] = c /\ hand'[w] # Null /\ hand'[w].kind = "disconnect"
  BY <1>1, NullIsNoMessage DEF DueKind, Due
<1> QED
  BY <1>1, <1>2 DEF Lost, DisconnectDue

LEMMA WithoutOnlyOne ==
    ASSUME NEW s \in Seq(Reads), NEW i \in DOMAIN s, Len(s) <= 1
    PROVE  s # <<>> /\ Len(s) = 1 /\ i = 1 /\ Without(s, i) = <<>>
<1>1. Without(s, i) \in Seq(Reads) /\ Len(Without(s, i)) = Len(s) - 1
  BY WithoutType
<1>2. Len(s) \in Nat /\ i \in 1..Len(s)
  OBVIOUS
<1> QED
  BY <1>1, <1>2

LEMMA PeerGoneKept ==
    ASSUME \A d \in Sessions : OK(d), NEW c \in Sessions, PeerGone(c)
    PROVE  \A d \in Sessions : Kept(d)
BY SameKept DEF PeerGone, Same, SameSocket, SameNotes, SameHolders, SameWorkers, queueVars,
   noteVars

LEMMA ReadArrivesKept ==
    ASSUME TypesAndActors, \A d \in Sessions : OK(d), NEW c \in Sessions,
           NEW i \in DOMAIN reads[c], ReadArrives(c, i)
    PROVE  \A d \in Sessions : Kept(d)
<1>1. /\ reads[c] \in Seq(Reads) /\ reads[c][i] \in Reads
      /\ reads[c][i].on = client[c]
      /\ reads'[c] = [reads[c] EXCEPT ![i] = [reads[c][i] EXCEPT !.got = TRUE]]
      /\ \A d \in Sessions : d # c => reads'[d] = reads[d]
      /\ UNCHANGED <<mail, serving, hand, closing, status, open, client, strand, rest, chain,
                     heard, broken, overtaken, mixed>>
  BY DEF ReadArrives, TypesAndActors, MgrTypeOK, queueVars, clientVars, noteVars
<1>2. /\ \A n \in Letters : Due(c, n)' <=> Due(c, n)
      /\ \A kind : DueKind(c, kind)' <=> DueKind(c, kind)
      /\ Served(c)' <=> Served(c)
      /\ Holders(c)' = Holders(c)
  BY <1>1, AfterNone, SameChains
<1>3. \A d \in Sessions : d # c => Kept(d)
  BY <1>1, SameKept, SameChains DEF Same, SameSocket, SameNotes, SameWorkers
<1>4. /\ DOMAIN reads'[c] = DOMAIN reads[c] /\ Len(reads'[c]) = Len(reads[c])
      /\ reads[c] # <<>> /\ reads'[c] # <<>>
      /\ \A j \in DOMAIN reads[c] :
            /\ reads'[c][j].of = reads[c][j].of /\ reads'[c][j].on = reads[c][j].on
            /\ reads'[c][j].got => reads[c][j].got \/ reads[c][j].on = client[c]
  BY <1>1 DEF Reads
<1>5. CASE overtaken[c]
  BY <1>1, <1>3, <1>5, OvertakenKept
<1>6. CASE ~overtaken[c]
  <2>1. \A a \in Chains : chain[a].conn # c
    BY <1>4, <1>6, ReadIsNotHeld
  <2>2. SlotOK(c)'
    BY <1>1, <1>2, <1>4, <1>6, <2>1 DEF OK, SlotOK
  <2>3. CleanOK(c)'
    BY <1>1, <1>2, <1>4 DEF OK, CleanOK
  <2>4. OrderOK(c)'
    BY <1>1 DEF OK, OrderOK, InOrder
  <2>5. ClientOK(c)'
    BY <1>1, <1>2, <1>4, <2>1 DEF OK, ClientOK, Announced
  <2>6. Lost(c)' <=> Lost(c)
    BY <1>1 DEF Lost, Holders, DisconnectDue
  <2> QED
    BY <1>1, <1>3, <1>6, <2>2, <2>3, <2>4, <2>5, <2>6 DEF Kept, OK
<1> QED
  BY <1>3, <1>5, <1>6

LEMMA ReadDataKept ==
    ASSUME TypesAndActors, \A d \in Sessions : OK(d), NEW c \in Sessions,
           NEW i \in DOMAIN reads[c], ReadData(c, i)
    PROVE  \A d \in Sessions : Kept(d)
<1>1. /\ reads[c] \in Seq(Reads) /\ reads[c][i].got /\ strand[c].at = "idle"
      /\ strand'[c] = [at |-> "parse", of |-> reads[c][i].on, more |-> TRUE]
      /\ rest'[c] = IF rest[c] = 0 THEN reads[c][i].on ELSE rest[c]
      /\ reads'[c] = Without(reads[c], i)
      /\ \A d \in Sessions : d # c =>
            reads'[d] = reads[d] /\ strand'[d] = strand[d] /\ rest'[d] = rest[d]
      /\ UNCHANGED <<mail, serving, hand, closing, status, open, client, chain,
                     heard, broken, overtaken, mixed>>
  BY DEF ReadData, TypesAndActors, MgrTypeOK, queueVars, clientVars, noteVars
<1>2. /\ \A n \in Letters : Due(c, n)' <=> Due(c, n)
      /\ \A kind : DueKind(c, kind)' <=> DueKind(c, kind)
      /\ Served(c)' <=> Served(c)
      /\ Holders(c)' = Holders(c)
  BY <1>1, AfterNone, SameChains
<1>3. \A d \in Sessions : d # c => Kept(d)
  BY <1>1, SameKept, SameChains DEF Same, SameSocket, SameNotes, SameWorkers
<1>4. CASE overtaken[c]
  BY <1>1, <1>3, <1>4, OvertakenKept
<1>5. CASE ~overtaken[c]
  <2>1. Len(reads[c]) <= 1
    BY <1>5 DEF OK, SlotOK
  <2>2. reads[c] # <<>> /\ i = 1 /\ reads'[c] = <<>>
    BY <1>1, <2>1, WithoutOnlyOne
  <2>3. \A a \in Chains : chain[a].conn # c
    BY <1>5, <2>2, ReadIsNotHeld
  <2>4. SlotOK(c)'
    BY <1>1, <1>2, <1>5, <2>2, <2>3 DEF OK, SlotOK
  <2>5. CleanOK(c)'
    BY <1>1, <1>2, <2>2 DEF OK, CleanOK
  <2>6. OrderOK(c)'
    BY <1>1 DEF OK, OrderOK, InOrder
  <2>7. ClientOK(c)'
    BY <1>1, <1>2, <2>2, <2>3 DEF OK, ClientOK, Announced
  <2>8. Lost(c)' <=> Lost(c)
    BY <1>1 DEF Lost, Holders, DisconnectDue
  <2> QED
    BY <1>1, <1>3, <1>5, <2>4, <2>5, <2>6, <2>7, <2>8 DEF Kept, OK
<1> QED
  BY <1>3, <1>4, <1>5

LEMMA ParsedKept ==
    ASSUME TypesAndActors, TypesAndActors', QuietOK, \A d \in Sessions : OK(d),
           NEW c \in Sessions, Parsed(c)
    PROVE  \A d \in Sessions : Kept(d)
<1>1. /\ strand[c].at = "parse"
      /\ UNCHANGED <<serving, hand, closing, status, open, reads, client, strand, rest, chain,
                     heard, overtaken, mixed>>
  BY DEF Parsed
<1>2. PICK m \in Letters :
         /\ Push(c, <<m>>) /\ m.of = rest[c]
         /\ m.kind \in {"data", "connect", "disconnect", "error"}
         /\ broken' = [broken EXCEPT ![c] = broken[c] \/ m.kind \in {"connect", "disconnect"}]
  <2>1. PICK kind \in {"data", "connect", "disconnect", "error"} :
           /\ Push(c, <<Msg(kind, rest[c])>>)
           /\ broken' = [broken EXCEPT ![c] = broken[c] \/ kind \in {"connect", "disconnect"}]
    BY DEF Parsed
  <2>2. rest[c] \in Nat
    BY DEF TypesAndActors, MgrTypeOK
  <2>3. Msg(kind, rest[c]) \in Letters
    BY <2>2, MsgType DEF Kinds
  <2> QED
    BY <2>1, <2>3 DEF Msg
<1>3. /\ \A n \in Letters : Due(c, n)' <=> Due(c, n) \/ n = m
      /\ \A kind : DueKind(c, kind)' <=> DueKind(c, kind) \/ kind = m.kind
      /\ Served(c)' <=> Served(c)
      /\ \A d \in Sessions : d # c => mail'[d] = mail[d]
      /\ Holders(c)' = Holders(c)
  BY <1>1, <1>2, AfterPost, SameChains DEF TypesAndActors
<1>4. /\ \A d \in Sessions : d # c => broken'[d] = broken[d]
      /\ broken[c] => broken'[c]
      /\ ~broken'[c] => ~broken[c] /\ m.kind \in {"data", "error"}
  BY <1>2 DEF TypesAndActors, MgrTypeOK
<1>5. \A d \in Sessions : d # c => Kept(d)
  BY <1>1, <1>3, <1>4, SameKept, SameChains DEF Same, SameSocket, SameNotes, SameWorkers
<1>6. CASE overtaken[c]
  BY <1>1, <1>4, <1>6, <1>5, OvertakenKept
<1>7. CASE ~overtaken[c]
  <2>1. (\A a \in Chains : chain[a].conn # c) /\ reads[c] = <<>>
    BY <1>1, <1>7, ReadIsNotHeld DEF OK, SlotOK
  <2>2. SlotOK(c)'
    BY <1>1, <1>3, <1>4, <1>7, <2>1 DEF OK, SlotOK
  <2>3. ~broken[c] =>
           /\ status[c] = "start" /\ ~DueKind(c, "disconnect")
           /\ \A w \in Workers : serving[w] = c => closing[w] = "no"
    BY <1>1 DEF OK, CleanOK
  <2>4. CleanOK(c)'
    BY <1>1, <1>3, <1>4, <1>7, <2>3 DEF CleanOK
  <2>5. OrderOK(c)'
    <3>1. ~broken'[c] => \A n \in Letters : Due(c, n) => InOrder(n, m)
      BY <1>4, <2>3 DEF InOrder, DueKind
    <3> QED
      BY <1>1, <1>2, <1>4, <3>1, OrderAfterPush DEF OK, HandsKeptOrEmptied, TypesAndActors
  <2>6. ClientOK(c)'
    <3> SUFFICES ASSUME ~broken'[c], ~mixed[c]
                 PROVE  ClientOK(c)'
      BY <1>1 DEF ClientOK
    <3>4. ~broken[c] /\ m.kind \in {"data", "error"}
      BY <1>4
    <3>1. /\ rest[c] = client[c] /\ strand[c].of = client[c]
          /\ \A n \in Letters : Due(c, n) => n.of = client[c]
          /\ DueKind(c, "connect") => heard[c] = 0
          /\ DueKind(c, "connect") \/ heard[c] = client[c]
      BY <1>1, <3>4 DEF OK, ClientOK, Announced
    <3>2. \A n \in Letters : Due(c, n)' => n.of = client[c]
      BY <1>2, <1>3, <3>1
    <3>3. DueKind(c, "connect")' <=> DueKind(c, "connect")
      BY <1>3, <3>4
    <3> QED
      BY <1>1, <2>1, <2>3, <3>1, <3>2, <3>3, <3>4 DEF ClientOK, Announced
  <2>7. ~Lost(c) /\ ~Lost(c)'
    <3>1. ~Lost(c)
      BY <1>1, <1>7 DEF QuietOK, Quiet
    <3> QED
      BY <1>1, <1>3, <3>1, LostIs, LostIsNext
  <2> QED
    BY <1>1, <1>7, <1>5, <2>2, <2>4, <2>5, <2>6, <2>7 DEF Kept, OK
<1> QED
  BY <1>6, <1>7, <1>5

LEMMA ParsedTooBigKept ==
    ASSUME TypesAndActors, TypesAndActors', \A d \in Sessions : OK(d), NEW c \in Sessions,
           ParsedTooBig(c)
    PROVE  \A d \in Sessions : Kept(d)
<1>1. /\ strand[c].at = "parse" /\ strand[c] \in Strands /\ broken'[c]
      /\ strand'[c] = Closing(c, TRUE)
      /\ \A d \in Sessions : d # c => strand'[d] = strand[d] /\ broken'[d] = broken[d]
      /\ UNCHANGED <<serving, hand, closing, status, open, reads, client, rest, chain, heard,
                     overtaken, mixed>>
  BY DEF ParsedTooBig, TypesAndActors, MgrTypeOK, socketVars, clientVars
<1>2. PICK m \in Letters : Push(c, <<m>>) /\ m.kind = "error"
  <2>1. Msg("error", strand[c].of) \in Letters
    BY <1>1, MsgType DEF Kinds, Strands
  <2> QED
    BY <2>1 DEF ParsedTooBig, Msg
<1>3. /\ \A n \in Letters : Due(c, n)' <=> Due(c, n) \/ n = m
      /\ \A kind : DueKind(c, kind)' <=> DueKind(c, kind) \/ kind = "error"
      /\ Served(c)' <=> Served(c)
      /\ \A d \in Sessions : d # c => mail'[d] = mail[d]
      /\ Holders(c)' = Holders(c)
  BY <1>1, <1>2, AfterPost, SameChains DEF TypesAndActors
<1>4. \A d \in Sessions : d # c => Kept(d)
  BY <1>1, <1>3, SameKept, SameChains DEF Same, SameSocket, SameNotes, SameWorkers
<1>5. strand'[c].at = IF open[c] THEN "close" ELSE "post"
  BY <1>1 DEF Closing, Strands
<1>6. CASE overtaken[c]
  BY <1>1, <1>4, <1>6, OvertakenKept
<1>7. CASE ~overtaken[c]
  <2>1. (\A a \in Chains : chain[a].conn # c) /\ reads[c] = <<>>
    BY <1>1, <1>7, ReadIsNotHeld DEF OK, SlotOK
  <2>2. SlotOK(c)'
    BY <1>1, <1>3, <1>5, <1>7, <2>1 DEF OK, SlotOK
  <2>3. CleanOK(c)' /\ OrderOK(c)' /\ ClientOK(c)'
    BY <1>1 DEF CleanOK, OrderOK, ClientOK
  <2>4. Lost(c)' <=> Lost(c)
    <3>1. CASE open[c]
      BY <1>1, <3>1, LostIs, LostIsNext
    <3>2. CASE ~open[c]
      <4>1. strand[c].at \notin {"close", "tell"} /\ strand'[c].at \notin {"close", "tell"}
        BY <1>1, <1>5, <3>2
      <4>2. DueKind(c, "disconnect")' <=> DueKind(c, "disconnect")
        BY <1>3
      <4>3. UNCHANGED <<status, open, serving, closing>> /\ Holders(c)' = Holders(c)
        BY <1>1, <1>3
      <4> QED
        BY <4>1, <4>2, <4>3, LostIs, LostIsNext
    <3> QED
      BY <3>1, <3>2
  <2> QED
    BY <1>1, <1>4, <1>7, <2>2, <2>3, <2>4 DEF Kept, OK
<1> QED
  BY <1>4, <1>6, <1>7

LEMMA ParsedAllKept ==
    ASSUME TypesAndActors, TypesAndActors', \A d \in Sessions : OK(d), NEW c \in Sessions,
           ParsedAll(c)
    PROVE  \A d \in Sessions : Kept(d)
<1>1. /\ strand[c].at = "parse"
      /\ strand'[c] = [strand[c] EXCEPT !.at = "post"]
      /\ rest'[c] \in {0, rest[c]}
      /\ \A d \in Sessions : d # c => strand'[d] = strand[d] /\ rest'[d] = rest[d]
      /\ UNCHANGED <<mail, serving, hand, closing, status, open, reads, client, chain, heard,
                     broken, overtaken, mixed>>
  BY DEF ParsedAll, TypesAndActors, MgrTypeOK, queueVars, socketVars, clientVars, noteVars
<1>2. /\ \A n \in Letters : Due(c, n)' <=> Due(c, n)
      /\ \A kind : DueKind(c, kind)' <=> DueKind(c, kind)
      /\ Served(c)' <=> Served(c)
      /\ Holders(c)' = Holders(c)
  BY <1>1, AfterNone, SameChains
<1>3. \A d \in Sessions : d # c => Kept(d)
  BY <1>1, SameKept, SameChains DEF Same, SameSocket, SameNotes, SameWorkers
<1>4. strand'[c].at = "post" /\ strand'[c].of = strand[c].of
  BY <1>1 DEF TypesAndActors, MgrTypeOK, Strands
<1>5. CASE overtaken[c]
  BY <1>1, <1>3, <1>5, OvertakenKept
<1>6. CASE ~overtaken[c]
  <2>1. (\A a \in Chains : chain[a].conn # c) /\ reads[c] = <<>>
    BY <1>1, <1>6, ReadIsNotHeld DEF OK, SlotOK
  <2>2. SlotOK(c)'
    BY <1>1, <1>2, <1>4, <1>6, <2>1 DEF OK, SlotOK
  <2>3. CleanOK(c)'
    BY <1>1, <1>2, <1>4 DEF OK, CleanOK
  <2>4. OrderOK(c)'
    BY <1>1 DEF OK, OrderOK, InOrder
  <2>5. ClientOK(c)'
    BY <1>1, <1>2, <1>4, <2>1 DEF OK, ClientOK, Announced
  <2>6. Lost(c)' <=> Lost(c)
    <3>1. /\ status'[c] = status[c] /\ open'[c] = open[c] /\ strand'[c].at = "post"
          /\ strand[c].at = "parse" /\ UNCHANGED <<serving, closing>>
      BY <1>1, <1>4
    <3> QED
      BY <3>1, <1>2, LostIs, LostIsNext
  <2> QED
    BY <1>1, <1>3, <1>6, <2>2, <2>3, <2>4, <2>5, <2>6 DEF Kept, OK
<1> QED
  BY <1>3, <1>5, <1>6

LEMMA NextReadKept ==
    ASSUME TypesAndActors, TypesAndActors', \A d \in Sessions : OK(d), NEW c \in Sessions,
           NextRead(c)
    PROVE  \A d \in Sessions : Kept(d)
<1>1. /\ strand[c].at = "post" /\ strand'[c] = Idle
      /\ \A d \in Sessions : d # c => strand'[d] = strand[d] /\ reads'[d] = reads[d]
      /\ UNCHANGED <<mail, serving, hand, closing, status, open, client, rest, chain, heard,
                     broken, overtaken, mixed>>
  BY DEF NextRead, ReadPosted, TypesAndActors, MgrTypeOK, queueVars, clientVars, noteVars
<1>2. PICK r \in Reads : reads'[c] = Append(reads[c], r) /\ r.of = strand[c].of /\ ~r.got
  <2>1. strand[c].of \in Nat /\ client[c] \in Nat
    BY DEF TypesAndActors, MgrTypeOK, Strands
  <2>2. [of |-> strand[c].of, on |-> IF open[c] THEN client[c] ELSE 0, got |-> FALSE] \in Reads
    BY <2>1 DEF Reads
  <2> QED
    BY ZenonT(30), <2>2 DEF NextRead, ReadPosted, TypesAndActors, MgrTypeOK
<1>3. /\ \A n \in Letters : Due(c, n)' <=> Due(c, n)
      /\ \A kind : DueKind(c, kind)' <=> DueKind(c, kind)
      /\ Served(c)' <=> Served(c)
      /\ Holders(c)' = Holders(c)
  BY <1>1, AfterNone, SameChains
<1>4. \A d \in Sessions : d # c => Kept(d)
  BY <1>1, SameKept, SameChains DEF Same, SameSocket, SameNotes, SameWorkers
<1>5. strand'[c].at = "idle"
  BY <1>1 DEF Idle
<1>6. CASE overtaken[c]
  BY <1>1, <1>4, <1>6, OvertakenKept
<1>7. CASE ~overtaken[c]
  <2>1. (\A a \in Chains : chain[a].conn # c) /\ reads[c] = <<>>
    BY <1>1, <1>7, ReadIsNotHeld DEF OK, SlotOK
  <2>2. /\ Len(reads'[c]) = 1 /\ reads'[c] # <<>> /\ DOMAIN reads'[c] = {1}
        /\ reads'[c][1].of = strand[c].of /\ ~reads'[c][1].got
    <3>1. reads'[c] = <<r>>
      BY <1>2, <2>1
    <3> QED
      BY <1>2, <3>1
  <2>3. SlotOK(c)'
    BY <1>1, <1>3, <1>5, <1>7, <2>1, <2>2 DEF OK, SlotOK
  <2>4. CleanOK(c)'
    BY <1>1, <1>3, <1>5, <2>2 DEF OK, CleanOK
  <2>5. OrderOK(c)'
    BY <1>1 DEF OK, OrderOK, InOrder
  <2>6. ClientOK(c)'
    BY <1>1, <1>3, <1>5, <2>1, <2>2 DEF OK, ClientOK, Announced
  <2>7. Lost(c)' <=> Lost(c)
    BY <1>1, <1>3, <1>5, LostIs, LostIsNext
  <2> QED
    BY <1>1, <1>4, <1>7, <2>3, <2>4, <2>5, <2>6, <2>7 DEF Kept, OK
<1> QED
  BY <1>4, <1>6, <1>7

LEMMA ReadFailedKept ==
    ASSUME TypesAndActors, TypesAndActors', \A d \in Sessions : OK(d), NEW c \in Sessions,
           NEW i \in DOMAIN reads[c], ReadFailed(c, i)
    PROVE  \A d \in Sessions : Kept(d)
<1>1. /\ strand[c].at = "idle" /\ reads[c] \in Seq(Reads) /\ reads[c][i] \in Reads
      /\ reads'[c] = Without(reads[c], i)
      /\ strand'[c] = IF open[c] THEN [at |-> "close", of |-> reads[c][i].of, more |-> FALSE]
                      ELSE Idle
      /\ \A d \in Sessions : d # c => strand'[d] = strand[d] /\ reads'[d] = reads[d]
      /\ UNCHANGED <<serving, hand, closing, status, open, client, rest, chain, heard,
                     broken, overtaken, mixed>>
  BY DEF ReadFailed, TypesAndActors, MgrTypeOK, clientVars, noteVars
<1>2. PICK m \in Letters : Push(c, <<m>>) /\ m.kind = "error" /\ m.of = reads[c][i].of
  <2>1. Msg("error", reads[c][i].of) \in Letters
    BY <1>1, MsgType DEF Kinds, Reads
  <2> QED
    BY <2>1 DEF ReadFailed, Msg
<1>3. /\ \A n \in Letters : Due(c, n)' <=> Due(c, n) \/ n = m
      /\ \A kind : DueKind(c, kind)' <=> DueKind(c, kind) \/ kind = "error"
      /\ Served(c)' <=> Served(c)
      /\ \A d \in Sessions : d # c => mail'[d] = mail[d]
      /\ Holders(c)' = Holders(c)
  BY <1>1, <1>2, AfterPost, SameChains DEF TypesAndActors
<1>4. \A d \in Sessions : d # c => Kept(d)
  BY <1>1, <1>3, SameKept, SameChains DEF Same, SameSocket, SameNotes, SameWorkers
<1>5. /\ strand'[c].at = (IF open[c] THEN "close" ELSE "idle") /\ ~strand'[c].more
      /\ open[c] => strand'[c].of = reads[c][i].of
  BY <1>1 DEF Idle
<1>6. CASE overtaken[c]
  BY <1>1, <1>4, <1>6, OvertakenKept
<1>7. CASE ~overtaken[c]
  <2>1. Len(reads[c]) <= 1
    BY <1>7 DEF OK, SlotOK
  <2>2. reads[c] # <<>> /\ i = 1 /\ reads'[c] = <<>>
    BY <1>1, <2>1, WithoutOnlyOne
  <2>3. \A a \in Chains : chain[a].conn # c
    BY <1>7, <2>2, ReadIsNotHeld
  <2>4. SlotOK(c)'
    BY <1>1, <1>3, <1>5, <1>7, <2>2, <2>3 DEF OK, SlotOK
  <2>5. CleanOK(c)'
    <3>1. ~broken[c] =>
             /\ status[c] = "start" /\ ~DueKind(c, "disconnect")
             /\ \A w \in Workers : serving[w] = c => closing[w] = "no"
      BY <2>2 DEF OK, CleanOK
    <3> QED
      BY <1>1, <1>3, <1>5, <1>7, <2>2, <3>1 DEF CleanOK
  <2>6. OrderOK(c)'
    <3>1. \A n \in Letters : InOrder(n, m)
      BY <1>2 DEF InOrder
    <3> QED
      BY <1>1, <1>2, <3>1, OrderAfterPush DEF OK, HandsKeptOrEmptied, TypesAndActors
  <2>7. ClientOK(c)'
    <3> SUFFICES ASSUME ~broken[c], ~mixed[c]
                 PROVE  ClientOK(c)'
      BY <1>1 DEF ClientOK
    <3>1. /\ rest[c] \in {0, client[c]} /\ reads[c][i].of = client[c] /\ status[c] = "start"
          /\ \A n \in Letters : Due(c, n) => n.of = client[c]
          /\ DueKind(c, "connect") => heard[c] = 0
          /\ DueKind(c, "connect") \/ heard[c] = client[c]
      BY <2>2 DEF OK, ClientOK, CleanOK, Announced
    <3>2. \A n \in Letters : Due(c, n)' => n.of = client[c]
      BY <1>2, <1>3, <3>1
    <3>3. DueKind(c, "connect")' <=> DueKind(c, "connect")
      BY <1>3
    <3> QED
      BY <1>1, <1>5, <2>2, <2>3, <3>1, <3>2, <3>3 DEF ClientOK, Announced
  <2>8. Lost(c)' <=> Lost(c)
    BY <1>1, <1>3, <1>5, LostIs, LostIsNext
  <2> QED
    BY <1>1, <1>4, <1>7, <2>4, <2>5, <2>6, <2>7, <2>8 DEF Kept, OK
<1> QED
  BY <1>4, <1>6, <1>7

-----------------------------------------------------------------------------
(* The workers.                                                            *)

\* Worker w releases message m of connection c.
LEMMA AfterDrop ==
    ASSUME MgrTypeOK, NEW c \in Sessions, NEW w \in Workers, NEW m \in Letters,
           serving[w] = c, hand[w] = m, hand' = [hand EXCEPT ![w] = Null],
           UNCHANGED <<mail, serving>>
    PROVE  /\ HandsKeptOrEmptied
           /\ \A n \in Letters : Due(c, n)' => Due(c, n)
           /\ \A n \in Letters : Due(c, n) => Due(c, n)' \/ n = m
           /\ \A kind : DueKind(c, kind)' => DueKind(c, kind)
           /\ \A kind : kind # m.kind => (DueKind(c, kind)' <=> DueKind(c, kind))
           /\ Due(c, m) /\ \A kind : kind = m.kind => DueKind(c, kind)
           /\ Served(c)' /\ Served(c)
<1>1. HandsKeptOrEmptied
  BY DEF HandsKeptOrEmptied, MgrTypeOK
<1>2. \A n \in Letters : Dropped(c, n) => n = m
  BY NullIsNoMessage DEF Dropped, MgrTypeOK
<1>3. \A n \in Letters : Due(c, n)' => Due(c, n)
  BY <1>1, AfterRelease
<1>4. \A n \in Letters : Due(c, n) => Due(c, n)' \/ n = m
  BY <1>1, <1>2, AfterRelease
<1>5. Due(c, m)
  BY DEF Due
<1> QED
  BY <1>1, <1>3, <1>4, <1>5 DEF DueKind, Served

\* It also pushes message n to the same connection.
LEMMA AfterDropPush ==
    ASSUME MgrTypeOK, NEW c \in Sessions, NEW w \in Workers, NEW n \in Letters,
           serving[w] = c, hand[w] \in Letters, hand' = [hand EXCEPT ![w] = Null],
           Push(c, <<n>>), UNCHANGED serving
    PROVE  /\ HandsKeptOrEmptied
           /\ \A k \in Letters : Due(c, k)' => Due(c, k) \/ k = n
           /\ \A k \in Letters : Due(c, k) => Due(c, k)' \/ k = hand[w]
           /\ \A kind : DueKind(c, kind)' => DueKind(c, kind) \/ kind = n.kind
           /\ \A kind : kind \notin {hand[w].kind, n.kind} =>
                 (DueKind(c, kind)' <=> DueKind(c, kind))
           /\ Due(c, hand[w]) /\ \A kind : kind = hand[w].kind => DueKind(c, kind)
           /\ \A kind : kind = n.kind => DueKind(c, kind)'
           /\ Served(c)' /\ Served(c)
           /\ \A d \in Sessions : d # c => mail'[d] = mail[d]
<1>1. HandsKeptOrEmptied
  BY DEF HandsKeptOrEmptied, MgrTypeOK
<1>2. \A k \in Letters : Dropped(c, k) => k = hand[w]
  BY NullIsNoMessage DEF Dropped, MgrTypeOK
<1>3. \A k \in Letters : Due(c, k)' => Due(c, k) \/ k = n
  BY <1>1, AfterPush
<1>4. \A k \in Letters : Due(c, k) => Due(c, k)' \/ k = hand[w]
  BY <1>1, <1>2, AfterPush
<1>5. Due(c, hand[w]) /\ Due(c, n)'
  BY <1>1, AfterPush DEF Due
<1>6. \A d \in Sessions : d # c => mail'[d] = mail[d]
  BY PushOne
<1> QED
  BY <1>1, <1>3, <1>4, <1>5, <1>6 DEF DueKind, Served

\* Errors and writes that succeed.
LEMMA ReleaseKept ==
    ASSUME TypesAndActors, TypesAndActors', \A d \in Sessions : OK(d), NEW w \in Workers,
           HandleError(w) \/ Write(w)
    PROVE  \A d \in Sessions : Kept(d)
<1>1. PICK c \in Sessions, m \in Letters :
         serving[w] = c /\ hand[w] = m /\ m.kind \in {"error", "write"}
  BY DEF TypesAndActors, MgrTypeOK, ActorsOK, HandleError, Write, Handling
<1>2. /\ hand' = [hand EXCEPT ![w] = Null]
      /\ UNCHANGED <<mail, serving, closing, status, open, reads, client, strand, rest, chain,
                     heard, broken, overtaken, mixed>>
  BY DEF HandleError, Write, Release, workerOnly, socketVars, clientVars, noteVars
<1>3. /\ HandsKeptOrEmptied
      /\ \A n \in Letters : Due(c, n)' => Due(c, n)
      /\ \A kind : DueKind(c, kind)' => DueKind(c, kind)
      /\ \A kind : kind \notin {"error", "write"} => (DueKind(c, kind)' <=> DueKind(c, kind))
      /\ Served(c)' /\ Served(c)
      /\ Holders(c)' = Holders(c)
  BY <1>1, <1>2, AfterDrop, SameChains DEF TypesAndActors
<1>4. \A d \in Sessions : d # c => Kept(d)
  BY <1>1, <1>2, SameKept, SameChains
     DEF Same, SameSocket, SameNotes, SameWorkers, TypesAndActors, MgrTypeOK
<1>5. SlotOK(c)'
  BY <1>2, <1>3 DEF OK, SlotOK
<1>6. CleanOK(c)'
  BY <1>2, <1>3 DEF OK, CleanOK
<1>7. OrderOK(c)'
  BY <1>2, <1>3, OrderAfterRelease DEF OK
<1>8. ClientOK(c)'
  BY <1>2, <1>3 DEF OK, ClientOK, Announced
<1>9. Lost(c)' <=> Lost(c)
  BY <1>2, <1>3, LostIs, LostIsNext
<1> QED
  BY <1>2, <1>4, <1>5, <1>6, <1>7, <1>8, <1>9 DEF Kept, OK

LEMMA HandleConnectKept ==
    ASSUME TypesAndActors, TypesAndActors', \A d \in Sessions : OK(d), NEW w \in Workers,
           HandleConnect(w)
    PROVE  \A d \in Sessions : Kept(d)
<1>1. PICK c \in Sessions, m \in Letters : serving[w] = c /\ hand[w] = m /\ m.kind = "connect"
  BY DEF TypesAndActors, MgrTypeOK, ActorsOK, HandleConnect, Handling
<1>2. /\ hand' = [hand EXCEPT ![w] = Null]
      /\ heard'[c] = m.of /\ \A d \in Sessions : d # c => heard'[d] = heard[d]
      /\ UNCHANGED <<mail, serving, closing, status, open, reads, client, strand, rest, chain,
                     broken, overtaken, mixed>>
  BY <1>1 DEF HandleConnect, Release, workerOnly, socketVars, clientVars, TypesAndActors,
     MgrTypeOK
<1>3. /\ HandsKeptOrEmptied
      /\ \A n \in Letters : Due(c, n)' => Due(c, n)
      /\ \A kind : DueKind(c, kind)' => DueKind(c, kind)
      /\ \A kind : kind # "connect" => (DueKind(c, kind)' <=> DueKind(c, kind))
      /\ DueKind(c, "connect") /\ Due(c, m)
      /\ Served(c)' /\ Served(c)
      /\ Holders(c)' = Holders(c)
  <2>1. MgrTypeOK /\ hand' = [hand EXCEPT ![w] = Null] /\ UNCHANGED <<mail, serving>>
    BY <1>2 DEF TypesAndActors
  <2>2. Holders(c)' = Holders(c)
    BY <1>2, SameChains
  <2> QED
    BY <1>1, <2>1, <2>2, AfterDrop
<1>4. \A d \in Sessions : d # c => Kept(d)
  BY <1>1, <1>2, SameKept, SameChains
     DEF Same, SameSocket, SameNotes, SameWorkers, TypesAndActors, MgrTypeOK
<1>5. SlotOK(c)'
  BY <1>2, <1>3 DEF OK, SlotOK
<1>6. CleanOK(c)'
  BY <1>2, <1>3 DEF OK, CleanOK
<1>7. OrderOK(c)'
  BY <1>2, <1>3, OrderAfterRelease DEF OK
<1>8. ClientOK(c)'
  <2> SUFFICES ASSUME ~broken[c], ~mixed[c]
               PROVE  ClientOK(c)'
    BY <1>2 DEF ClientOK
  <2>1. ~DueKind(c, "connect")'
    <3>1. \A i \in DOMAIN mail[c] : mail[c][i].kind # "connect"
      BY <1>1, NullIsNoMessage DEF OK, OrderOK, InOrder
    <3>2. \A v \in Workers : serving[v] = c => v = w
      BY <1>1, NetMgrAssumption DEF TypesAndActors, ActorsOK, OneWorker
    <3>3. hand'[w] = Null
      BY <1>2 DEF TypesAndActors, MgrTypeOK
    <3> QED
      BY <1>2, <3>1, <3>2, <3>3, NullIsNoMessage DEF DueKind, Due
  <2>2. heard'[c] = client'[c]
    BY <1>2, <1>3 DEF OK, ClientOK
  <2>3. status[c] = "start" /\ \A a \in Chains : chain[a].conn = c => chain[a].at = "read"
    <3>1. status[c] = "start"
      BY <1>1, <1>3 DEF OK, CleanOK
    <3>2. \A a \in Chains : chain[a].conn = c => chain[a].at = "read"
      BY <1>3 DEF OK, SlotOK, CleanOK
    <3> QED
      BY <3>1, <3>2
  <2>4. /\ rest'[c] \in {0, client'[c]}
        /\ \A i \in DOMAIN reads'[c] :
              /\ reads'[c][i].of = client'[c]
              /\ reads'[c][i].got => reads'[c][i].on = client'[c]
        /\ strand'[c].at # "idle" => strand'[c].of = client'[c]
        /\ strand'[c].at = "parse" => rest'[c] = client'[c]
        /\ \A n \in Letters : Due(c, n)' => n.of = client'[c]
    BY <1>2, <1>3 DEF OK, ClientOK
  <2> QED
    BY <1>2, <2>1, <2>2, <2>3, <2>4 DEF ClientOK, Announced
<1>9. Lost(c)' <=> Lost(c)
  BY <1>2, <1>3, LostIs, LostIsNext
<1> QED
  BY <1>2, <1>4, <1>5, <1>6, <1>7, <1>8, <1>9 DEF Kept, OK

LEMMA HandleDisconnectKept ==
    ASSUME TypesAndActors, TypesAndActors', \A d \in Sessions : OK(d), NEW w \in Workers,
           HandleDisconnect(w)
    PROVE  \A d \in Sessions : Kept(d)
<1>1. PICK c \in Sessions, m \in Letters : serving[w] = c /\ hand[w] = m /\ m.kind = "disconnect"
  BY DEF TypesAndActors, MgrTypeOK, ActorsOK, HandleDisconnect, Handling
<1>2. /\ hand' = [hand EXCEPT ![w] = Null]
      /\ heard'[c] = 0 /\ status'[c] = "stop"
      /\ \A d \in Sessions : d # c => heard'[d] = heard[d] /\ status'[d] = status[d]
      /\ UNCHANGED <<mail, serving, closing, open, reads, client, strand, rest, chain,
                     broken, overtaken, mixed>>
  BY <1>1 DEF HandleDisconnect, Release, workerOnly, socketVars, clientVars, TypesAndActors,
     MgrTypeOK
<1>3. /\ HandsKeptOrEmptied
      /\ \A n \in Letters : Due(c, n)' => Due(c, n)
      /\ \A kind : DueKind(c, kind)' => DueKind(c, kind)
      /\ DueKind(c, "disconnect") /\ Due(c, m)
      /\ Served(c)' /\ Served(c)
      /\ Holders(c)' = Holders(c)
  <2>1. MgrTypeOK /\ hand' = [hand EXCEPT ![w] = Null] /\ UNCHANGED <<mail, serving>>
    BY <1>2 DEF TypesAndActors
  <2>2. Holders(c)' = Holders(c)
    BY <1>2, SameChains
  <2> QED
    BY <1>1, <2>1, <2>2, AfterDrop
<1>4. \A d \in Sessions : d # c => Kept(d)
  BY <1>1, <1>2, SameKept, SameChains
     DEF Same, SameSocket, SameNotes, SameWorkers, TypesAndActors, MgrTypeOK
<1>5. ~overtaken[c] => (open[c] => broken[c]) /\ \A a \in Chains : chain[a].conn # c
  BY <1>1, <1>3 DEF OK, SlotOK
<1>6. SlotOK(c)'
  BY <1>2, <1>3, <1>5 DEF OK, SlotOK
<1>7. ~broken[c] => /\ reads[c] = <<>> /\ strand[c].at = "idle"
                    /\ \A n \in Letters : Due(c, n)' => n.kind \in {"write", "error"}
  <2> SUFFICES ASSUME ~broken[c]
               PROVE  /\ reads[c] = <<>> /\ strand[c].at = "idle"
                      /\ \A n \in Letters : Due(c, n)' => n.kind \in {"write", "error"}
    OBVIOUS
  <2>1. reads[c] = <<>> /\ strand[c].at = "idle"
    BY <1>3 DEF OK, CleanOK
  <2>2. \A i \in DOMAIN mail[c] : mail[c][i].kind \in {"write", "error"}
    BY <1>1, NullIsNoMessage DEF OK, OrderOK, InOrder
  <2>3. \A v \in Workers : serving[v] = c => v = w
    BY <1>1, NetMgrAssumption DEF TypesAndActors, ActorsOK, OneWorker
  <2>4. hand'[w] = Null
    BY <1>2 DEF TypesAndActors, MgrTypeOK
  <2>5. \A n \in Letters : Due(c, n)' => n.kind \in {"write", "error"}
    BY <1>2, <2>2, <2>3, <2>4, NullIsNoMessage DEF Due
  <2> QED
    BY <2>1, <2>5
<1>8. CleanOK(c)'
  BY <1>2, <1>3, <1>7 DEF OK, CleanOK, DueKind
<1>9. OrderOK(c)'
  BY <1>2, <1>3, OrderAfterRelease DEF OK
<1>10. ClientOK(c)'
  BY <1>2, <1>3, <1>5, <1>7 DEF OK, CleanOK, ClientOK, Announced, DueKind
<1>11. ~Lost(c)' /\ ~Lost(c)
  BY <1>2, <1>3, LostIs, LostIsNext
<1> QED
  BY <1>2, <1>4, <1>6, <1>8, <1>9, <1>10, <1>11 DEF Kept, OK

LEMMA HandleDataKept ==
    ASSUME TypesAndActors, TypesAndActors', \A d \in Sessions : OK(d), NEW w \in Workers,
           HandleData(w)
    PROVE  \A d \in Sessions : Kept(d)
<1>0. UNCHANGED <<serving, closing, status, open, reads, client, strand, rest, chain,
                  heard, broken, overtaken, mixed>>
  BY DEF HandleData, socketVars, clientVars, noteVars
<1>A. ASSUME UNCHANGED <<mail, hand>>
      PROVE  \A d \in Sessions : Kept(d)
  BY <1>0, <1>A, SameKept, SameChains DEF Same, SameSocket, SameNotes, SameWorkers
<1> SUFFICES ASSUME Push(serving[w], <<Msg("write", hand[w].of)>>),
                    hand' = [hand EXCEPT ![w] = Null]
             PROVE  \A d \in Sessions : Kept(d)
  BY <1>A DEF HandleData
<1>1. PICK c \in Sessions, m \in Letters : serving[w] = c /\ hand[w] = m /\ m.kind = "data"
  BY DEF TypesAndActors, MgrTypeOK, ActorsOK, HandleData, Handling
<1>2. PICK n \in Letters : Push(c, <<n>>) /\ n.kind = "write" /\ n.of = m.of
  <2>1. Msg("write", m.of) \in Letters
    BY MsgType DEF Kinds, Letters
  <2> QED
    BY <1>1, <2>1 DEF Msg
<1>3. /\ hand' = [hand EXCEPT ![w] = Null]
      /\ UNCHANGED <<serving, closing, status, open, reads, client, strand, rest, chain,
                     heard, broken, overtaken, mixed>>
  BY <1>0
<1>4. /\ HandsKeptOrEmptied
      /\ \A k \in Letters : Due(c, k)' => Due(c, k) \/ k = n
      /\ \A kind : DueKind(c, kind)' => DueKind(c, kind) \/ kind = "write"
      /\ \A kind : kind \notin {"data", "write"} => (DueKind(c, kind)' <=> DueKind(c, kind))
      /\ DueKind(c, "data") /\ Due(c, m)
      /\ Served(c)' /\ Served(c)
      /\ \A d \in Sessions : d # c => mail'[d] = mail[d]
  <2>1. /\ MgrTypeOK /\ hand' = [hand EXCEPT ![w] = Null] /\ UNCHANGED serving
        /\ serving[w] = c /\ hand[w] \in Letters /\ Push(c, <<n>>)
    BY <1>1, <1>2, <1>3 DEF TypesAndActors
  <2>2. /\ HandsKeptOrEmptied
        /\ \A k \in Letters : Due(c, k)' => Due(c, k) \/ k = n
        /\ \A kind : DueKind(c, kind)' => DueKind(c, kind) \/ kind = n.kind
        /\ \A kind : kind \notin {hand[w].kind, n.kind} =>
              (DueKind(c, kind)' <=> DueKind(c, kind))
        /\ Due(c, hand[w]) /\ \A kind : kind = hand[w].kind => DueKind(c, kind)
        /\ Served(c)' /\ Served(c)
        /\ \A d \in Sessions : d # c => mail'[d] = mail[d]
    BY <2>1, AfterDropPush
  <2> QED
    BY <1>1, <1>2, <2>2
<1>5. Holders(c)' = Holders(c)
  BY <1>3, SameChains
<1>6. \A d \in Sessions : d # c => Kept(d)
  BY <1>1, <1>3, <1>4, SameKept, SameChains
     DEF Same, SameSocket, SameNotes, SameWorkers, TypesAndActors, MgrTypeOK
<1>7. ~overtaken[c] => \A a \in Chains : chain[a].conn # c
  BY <1>1, <1>4 DEF OK, SlotOK
<1>8. SlotOK(c)'
  BY <1>3, <1>4, <1>5, <1>7 DEF OK, SlotOK
<1>9. CleanOK(c)'
  <2>1. ~broken[c] => status[c] = "start"
    BY <1>1, <1>4 DEF OK, CleanOK
  <2> QED
    BY <1>3, <1>4, <2>1 DEF OK, CleanOK
<1>10. OrderOK(c)'
  <2>1. \A k \in Letters : InOrder(k, n)
    BY <1>2 DEF InOrder
  <2> QED
    BY <1>2, <1>3, <1>4, <2>1, OrderAfterPush DEF OK, TypesAndActors
<1>11. ClientOK(c)'
  <2> SUFFICES ASSUME ~broken[c], ~mixed[c]
               PROVE  ClientOK(c)'
    BY <1>3 DEF ClientOK
  <2>1. status[c] = "start" /\ \A a \in Chains : chain[a].conn # c
    BY <1>1, <1>4, <1>7 DEF OK, CleanOK
  <2>2. m.of = client[c] /\ (DueKind(c, "connect") \/ heard[c] = client[c])
    BY <1>4 DEF OK, ClientOK, Announced
  <2>3. \A k \in Letters : Due(c, k)' => k.of = client[c]
    BY <1>2, <1>4, <2>2 DEF OK, ClientOK
  <2>4. (DueKind(c, "connect")' <=> DueKind(c, "connect"))
    BY <1>4
  <2>5. /\ rest[c] \in {0, client[c]}
        /\ \A i \in DOMAIN reads[c] :
              reads[c][i].of = client[c] /\ (reads[c][i].got => reads[c][i].on = client[c])
        /\ strand[c].at # "idle" => strand[c].of = client[c]
        /\ strand[c].at = "parse" => rest[c] = client[c]
        /\ DueKind(c, "connect") => heard[c] = 0
    BY DEF OK, ClientOK
  <2> QED
    BY <1>3, <2>1, <2>2, <2>3, <2>4, <2>5 DEF ClientOK, Announced
<1>12. Lost(c)' <=> Lost(c)
  BY <1>3, <1>4, <1>5, LostIs, LostIsNext
<1> QED
  BY <1>3, <1>6, <1>8, <1>9, <1>10, <1>11, <1>12 DEF Kept, OK

LEMMA WriteFailedKept ==
    ASSUME TypesAndActors, TypesAndActors', \A d \in Sessions : OK(d), NEW w \in Workers,
           WriteFailed(w)
    PROVE  \A d \in Sessions : Kept(d)
<1>1. PICK c \in Sessions, m \in Letters :
         serving[w] = c /\ hand[w] = m /\ m.kind = "write" /\ closing[w] = "no"
  BY DEF TypesAndActors, MgrTypeOK, ActorsOK, WriteFailed, Handling
<1>2. PICK n \in Letters : Push(c, <<n>>) /\ n.kind = "error" /\ n.of = m.of
  <2>1. Msg("error", m.of) \in Letters
    BY MsgType DEF Kinds, Letters
  <2> QED
    BY <1>1, <2>1 DEF WriteFailed, Msg
<1>3. UNCHANGED <<serving, status, open, reads, client, strand, rest, chain, heard, overtaken,
                  mixed>>
  BY DEF WriteFailed, workerOnly, socketVars, clientVars
<1>4. Due(c, m) /\ Holders(c)' = Holders(c) /\ DueKind(c, "write") /\ Served(c)
  BY <1>1, <1>3, SameChains DEF Due, DueKind, Served
<1>5. ~overtaken[c] => \A a \in Chains : chain[a].conn # c
  BY <1>1, <1>4 DEF OK, SlotOK
<1>6. \A v \in Workers : serving[v] = c => v = w
  BY <1>1, NetMgrAssumption DEF TypesAndActors, ActorsOK, OneWorker
<1>7. CASE open[c]
  <2>1. /\ broken'[c] /\ closing'[w] = "close" /\ UNCHANGED hand
        /\ \A v \in Workers : v # w => closing'[v] = closing[v]
        /\ \A d \in Sessions : d # c => broken'[d] = broken[d]
    BY SMTT(30), <1>1, <1>7 DEF WriteFailed, TypesAndActors, MgrTypeOK
  <2>2. /\ \A k \in Letters : Due(c, k)' <=> Due(c, k) \/ k = n
        /\ \A kind : DueKind(c, kind)' <=> DueKind(c, kind) \/ kind = "error"
        /\ Served(c)' <=> Served(c)
        /\ \A d \in Sessions : d # c => mail'[d] = mail[d]
    BY <1>2, <1>3, <2>1, AfterPost DEF TypesAndActors
  <2>3. \A d \in Sessions : d # c => Kept(d)
    BY <1>1, <1>3, <2>1, <2>2, SameKept, SameChains
       DEF Same, SameSocket, SameNotes, SameWorkers
  <2>4. SlotOK(c)'
    BY <1>3, <1>4, <1>5, <1>6, <2>1, <2>2 DEF OK, SlotOK
  <2>5. CleanOK(c)' /\ OrderOK(c)' /\ ClientOK(c)'
    BY <2>1 DEF CleanOK, OrderOK, ClientOK
  <2>6. ~Lost(c)' /\ ~Lost(c)
    BY <1>3, <1>7 DEF Lost, DisconnectDue
  <2> QED
    BY <1>3, <2>3, <2>4, <2>5, <2>6 DEF Kept, OK
<1>8. CASE ~open[c]
  <2>1. hand' = [hand EXCEPT ![w] = Null] /\ UNCHANGED <<closing, broken>>
    BY <1>1, <1>8 DEF WriteFailed
  <2>2. /\ HandsKeptOrEmptied
        /\ \A k \in Letters : Due(c, k)' => Due(c, k) \/ k = n
        /\ \A kind : DueKind(c, kind)' => DueKind(c, kind) \/ kind = "error"
        /\ \A kind : kind \notin {"write", "error"} => (DueKind(c, kind)' <=> DueKind(c, kind))
        /\ Served(c)'
        /\ \A d \in Sessions : d # c => mail'[d] = mail[d]
    <3>1. /\ MgrTypeOK /\ hand' = [hand EXCEPT ![w] = Null] /\ UNCHANGED serving
          /\ serving[w] = c /\ hand[w] \in Letters /\ Push(c, <<n>>)
      BY <1>1, <1>2, <1>3, <2>1 DEF TypesAndActors
    <3>2. /\ HandsKeptOrEmptied
          /\ \A k \in Letters : Due(c, k)' => Due(c, k) \/ k = n
          /\ \A kind : DueKind(c, kind)' => DueKind(c, kind) \/ kind = n.kind
          /\ \A kind : kind \notin {hand[w].kind, n.kind} =>
                (DueKind(c, kind)' <=> DueKind(c, kind))
          /\ Due(c, hand[w]) /\ \A kind : kind = hand[w].kind => DueKind(c, kind)
          /\ Served(c)' /\ Served(c)
          /\ \A d \in Sessions : d # c => mail'[d] = mail[d]
      BY <3>1, AfterDropPush
    <3> QED
      BY <1>1, <1>2, <3>2
  <2>3. \A d \in Sessions : d # c => Kept(d)
    BY <1>1, <1>3, <2>1, <2>2, SameKept, SameChains
       DEF Same, SameSocket, SameNotes, SameWorkers, TypesAndActors, MgrTypeOK
  <2>4. SlotOK(c)'
    BY <1>3, <1>4, <1>5, <1>8, <2>1, <2>2 DEF OK, SlotOK
  <2>5. CleanOK(c)'
    BY <1>2, <1>3, <1>4, <2>1, <2>2 DEF OK, CleanOK
  <2>6. OrderOK(c)'
    <3>1. \A k \in Letters : InOrder(k, n)
      BY <1>2 DEF InOrder
    <3> QED
      BY <1>2, <2>1, <2>2, <3>1, OrderAfterPush DEF OK, TypesAndActors
  <2>7. ClientOK(c)'
    <3> SUFFICES ASSUME ~broken[c], ~mixed[c]
                 PROVE  ClientOK(c)'
      BY <2>1, <1>3 DEF ClientOK
    <3>1. ~overtaken[c]
      BY DEF OK, CleanOK
    <3>2. \A k \in Letters : Due(c, k)' => k.of = client[c]
      BY <1>2, <1>4, <2>2 DEF OK, ClientOK
    <3>3. /\ DueKind(c, "connect")' <=> DueKind(c, "connect")
          /\ DueKind(c, "data")' <=> DueKind(c, "data")
          /\ DueKind(c, "disconnect")' <=> DueKind(c, "disconnect")
      BY <2>2
    <3> QED
      BY <1>3, <1>5, <3>1, <3>2, <3>3 DEF OK, ClientOK, Announced
  <2>8. Lost(c)' <=> Lost(c)
    BY <1>3, <1>4, <2>1, <2>2, LostIs, LostIsNext
  <2> QED
    BY <1>3, <2>3, <2>4, <2>5, <2>6, <2>7, <2>8 DEF Kept, OK
<1> QED
  BY <1>7, <1>8

LEMMA WorkerCloseKept ==
    ASSUME TypesAndActors, TypesAndActors', \A d \in Sessions : OK(d), NEW w \in Workers,
           WorkerClose(w)
    PROVE  \A d \in Sessions : Kept(d)
<1>1. PICK c \in Sessions, m \in Letters :
         serving[w] = c /\ hand[w] = m /\ m.kind = "write" /\ closing[w] = "close"
  BY SMTT(30) DEF TypesAndActors, MgrTypeOK, ActorsOK, WorkerClose
<1>2. /\ ~open'[c] /\ closing'[w] = "tell"
      /\ \A v \in Workers : v # w => closing'[v] = closing[v]
      /\ \A d \in Sessions : d # c => open'[d] = open[d]
      /\ UNCHANGED <<mail, serving, hand, status, reads, client, strand, rest, chain,
                     heard, broken, overtaken, mixed>>
  BY <1>1 DEF WorkerClose, queueVars, clientVars, noteVars, TypesAndActors, MgrTypeOK
<1>3. /\ \A n \in Letters : Due(c, n)' <=> Due(c, n)
      /\ \A kind : DueKind(c, kind)' <=> DueKind(c, kind)
      /\ Served(c)' <=> Served(c)
      /\ Holders(c)' = Holders(c)
  BY <1>2, AfterNone, SameChains
<1>4. \A d \in Sessions : d # c => Kept(d)
  BY <1>1, <1>2, SameKept, SameChains DEF Same, SameSocket, SameNotes, SameWorkers
<1>5. broken[c]
  BY <1>1 DEF OK, CleanOK
<1>6. ~overtaken[c] => \A a \in Chains : chain[a].conn # c
  BY <1>1 DEF OK, SlotOK, Due
<1>7. SlotOK(c)'
  BY <1>2, <1>3, <1>6 DEF OK, SlotOK
<1>8. CleanOK(c)' /\ OrderOK(c)' /\ ClientOK(c)'
  BY <1>2, <1>5 DEF CleanOK, OrderOK, ClientOK
<1>9. ~Lost(c)' /\ ~Lost(c)
  BY <1>1, <1>2, LostIs, LostIsNext
<1> QED
  BY <1>2, <1>4, <1>7, <1>8, <1>9 DEF Kept, OK

LEMMA WorkerTellKept ==
    ASSUME TypesAndActors, TypesAndActors', \A d \in Sessions : OK(d), NEW w \in Workers,
           WorkerTell(w)
    PROVE  \A d \in Sessions : Kept(d)
<1>1. PICK c \in Sessions, m \in Letters :
         serving[w] = c /\ hand[w] = m /\ m.kind = "write" /\ closing[w] = "tell"
  BY DEF TypesAndActors, MgrTypeOK, ActorsOK, WorkerTell
<1>2. PICK n \in Letters : Push(c, <<n>>) /\ n.kind = "disconnect"
  <2>1. Msg("disconnect", m.of) \in Letters
    BY MsgType DEF Kinds, Letters
  <2> QED
    BY <1>1, <2>1 DEF WorkerTell, Msg
<1>3. /\ hand' = [hand EXCEPT ![w] = Null] /\ closing' = [closing EXCEPT ![w] = "no"]
      /\ UNCHANGED <<serving, status, open, reads, client, strand, rest, chain,
                     heard, broken, overtaken, mixed>>
  BY DEF WorkerTell, workerOnly, socketVars, clientVars, noteVars
<1>4. /\ HandsKeptOrEmptied
      /\ \A k \in Letters : Due(c, k)' => Due(c, k) \/ k = n
      /\ DueKind(c, "disconnect")' /\ Due(c, m)
      /\ Served(c)' /\ Served(c)
      /\ \A d \in Sessions : d # c => mail'[d] = mail[d]
  <2>1. MgrTypeOK /\ hand' = [hand EXCEPT ![w] = Null] /\ UNCHANGED serving
    BY <1>3 DEF TypesAndActors
  <2> QED
    BY ZenonT(30), <1>1, <1>2, <2>1, AfterDropPush
<1>5. Holders(c)' = Holders(c)
  BY <1>3, SameChains
<1>6. \A d \in Sessions : d # c => Kept(d)
  BY <1>1, <1>3, <1>4, SameKept, SameChains
     DEF Same, SameSocket, SameNotes, SameWorkers, TypesAndActors, MgrTypeOK
<1>7. broken[c]
  BY <1>1 DEF OK, CleanOK
<1>8. ~overtaken[c] => ~open[c] /\ \A a \in Chains : chain[a].conn # c
  BY <1>1, <1>4 DEF OK, SlotOK
<1>9. SlotOK(c)'
  BY <1>3, <1>8 DEF OK, SlotOK
<1>10. CleanOK(c)' /\ OrderOK(c)' /\ ClientOK(c)'
  BY <1>3, <1>7 DEF CleanOK, OrderOK, ClientOK
<1>11. ~Lost(c)' /\ ~Lost(c)
  BY <1>1, <1>4, LostIs, LostIsNext
<1> QED
  BY <1>3, <1>6, <1>9, <1>10, <1>11 DEF Kept, OK

LEMMA ServeNextKept ==
    ASSUME TypesAndActors, TypesAndActors', \A d \in Sessions : OK(d), NEW w \in Workers,
           NEW c \in Sessions, ServeNext(w, c)
    PROVE  \A d \in Sessions : Kept(d)
<1>1. /\ serving[w] = Null /\ serving'[w] = c /\ mail[c] # <<>> /\ ~Served(c)
      /\ \A v \in Workers : v # w => serving'[v] = serving[v]
      /\ UNCHANGED <<mail, hand, closing, status, open, reads, client, strand, rest, chain,
                     heard, broken, overtaken, mixed>>
  BY DEF ServeNext, Serve, workerOnly, socketVars, clientVars, noteVars, TypesAndActors,
     MgrTypeOK
<1>2. hand[w] = Null /\ closing[w] = "no" /\ Null \notin Sessions
  BY <1>1, NetMgrAssumption DEF TypesAndActors, ActorsOK
<1>3. \A v \in Workers : serving'[v] = c => v = w
  BY <1>1 DEF Served
<1>4. \A n \in Letters : Due(c, n)' <=> Due(c, n)
  BY <1>1, <1>2, <1>3, NullIsNoMessage DEF Due, Served
<1>5. /\ \A kind : DueKind(c, kind)' <=> DueKind(c, kind)
      /\ Served(c)' /\ Holders(c)' = Holders(c)
  BY <1>1, <1>4, SameChains DEF DueKind, Served
<1>6. \A d \in Sessions : d # c => Kept(d)
  BY <1>1, <1>2, SameKept, SameChains DEF Same, SameSocket, SameNotes, SameWorkers
<1>7. SlotOK(c)'
  BY <1>1, <1>2, <1>3, <1>4, <1>5 DEF OK, SlotOK
<1>8. CleanOK(c)'
  BY <1>1, <1>2, <1>3, <1>4, <1>5 DEF OK, CleanOK
<1>9. OrderOK(c)'
  BY <1>1, <1>2, <1>3 DEF OK, OrderOK, InOrder
<1>10. ClientOK(c)'
  BY <1>1, <1>4, <1>5 DEF OK, ClientOK, Announced
<1>11. Lost(c)' <=> Lost(c)
  BY <1>1, <1>2, <1>3, <1>5, LostIs, LostIsNext DEF Served
<1> QED
  BY <1>1, <1>6, <1>7, <1>8, <1>9, <1>10, <1>11 DEF Kept, OK

LEMMA TakeMessageKept ==
    ASSUME TypesAndActors, TypesAndActors', \A d \in Sessions : OK(d), NEW w \in Workers,
           TakeMessage(w)
    PROVE  \A d \in Sessions : Kept(d)
<1>1. PICK c \in Sessions : serving[w] = c
  BY DEF TakeMessage, Receive, TypesAndActors, MgrTypeOK
<1>2. /\ mail[c] \in Seq(Letters) /\ mail[c] # <<>> /\ hand[w] = Null
      /\ hand'[w] = Head(mail[c]) /\ mail'[c] = Tail(mail[c])
      /\ \A v \in Workers : v # w => hand'[v] = hand[v]
      /\ \A d \in Sessions : d # c => mail'[d] = mail[d]
      /\ UNCHANGED <<serving, closing, status, open, reads, client, strand, rest, chain,
                     heard, broken, overtaken, mixed>>
  BY <1>1 DEF TakeMessage, Receive, workerOnly, socketVars, clientVars, noteVars,
     TypesAndActors, MgrTypeOK
<1>3. /\ hand'[w] = mail[c][1] /\ hand'[w] \in Letters /\ 1 \in DOMAIN mail[c]
      /\ \A i \in DOMAIN mail'[c] : i + 1 \in DOMAIN mail[c] /\ mail'[c][i] = mail[c][i + 1]
      /\ \A i \in DOMAIN mail[c] : i = 1 \/ (i - 1 \in DOMAIN mail'[c] /\ mail'[c][i - 1] = mail[c][i])
      /\ \A i \in DOMAIN mail'[c] : i \in Nat /\ i >= 1
  BY <1>2
<1>4. \A v \in Workers : serving[v] = c => v = w
  BY <1>1, NetMgrAssumption DEF TypesAndActors, ActorsOK, OneWorker
<1>5. \A n \in Letters : Due(c, n)' <=> Due(c, n)
  <2>1. \A n \in Letters : Due(c, n)' => Due(c, n)
    BY <1>1, <1>2, <1>3, <1>4 DEF Due
  <2>2. ASSUME NEW n \in Letters, Due(c, n)
        PROVE  Due(c, n)'
    <3>1. PICK i \in DOMAIN mail[c] : mail[c][i] = n
      BY <1>2, <1>4, <2>2, NullIsNoMessage DEF Due
    <3>2. CASE i = 1
      BY <1>1, <1>2, <1>3, <3>1, <3>2 DEF Due
    <3>3. CASE i # 1
      <4>1. i - 1 \in DOMAIN mail'[c] /\ mail'[c][i - 1] = n
        BY <1>3, <3>1, <3>3
      <4> QED
        BY <4>1 DEF Due
    <3> QED
      BY <3>2, <3>3
  <2> QED
    BY <2>1, <2>2
<1>6. /\ \A kind : DueKind(c, kind)' <=> DueKind(c, kind)
      /\ Served(c)' /\ Served(c) /\ Holders(c)' = Holders(c)
  BY <1>1, <1>2, <1>5, SameChains DEF DueKind, Served
<1>7. \A d \in Sessions : d # c => Kept(d)
  BY <1>1, <1>2, SameKept, SameChains DEF Same, SameSocket, SameNotes, SameWorkers
<1>8. SlotOK(c)'
  BY <1>2, <1>5, <1>6 DEF OK, SlotOK
<1>9. CleanOK(c)'
  BY <1>2, <1>5, <1>6 DEF OK, CleanOK
<1>10. OrderOK(c)'
  <2> SUFFICES ASSUME ~broken'[c]
               PROVE  /\ \A i, j \in DOMAIN mail'[c] :
                            i < j => InOrder(mail'[c][i], mail'[c][j])
                      /\ \A i \in DOMAIN mail'[c] : InOrder(hand'[w], mail'[c][i])
    BY <1>2, <1>4 DEF OrderOK, InOrder
  <2>1. \A i, j \in DOMAIN mail[c] : i < j => InOrder(mail[c][i], mail[c][j])
    BY <1>2 DEF OK, OrderOK
  <2>2. ASSUME NEW i \in DOMAIN mail'[c], NEW j \in DOMAIN mail'[c], i < j
        PROVE  InOrder(mail'[c][i], mail'[c][j])
    <3>1. i + 1 < j + 1 /\ i + 1 \in DOMAIN mail[c] /\ j + 1 \in DOMAIN mail[c]
      BY <1>3, <2>2
    <3> QED
      BY <1>3, <2>1, <3>1
  <2>3. ASSUME NEW i \in DOMAIN mail'[c]
        PROVE  InOrder(hand'[w], mail'[c][i])
    <3>1. 1 < i + 1 /\ i + 1 \in DOMAIN mail[c]
      BY <1>3
    <3> QED
      BY <1>3, <2>1, <3>1
  <2> QED
    BY <2>2, <2>3
<1>11. ClientOK(c)'
  BY <1>2, <1>5, <1>6 DEF OK, ClientOK, Announced
<1>12. Lost(c)' <=> Lost(c)
  BY <1>2, <1>6, LostIs, LostIsNext
<1> QED
  BY <1>2, <1>7, <1>8, <1>9, <1>10, <1>11, <1>12 DEF Kept, OK

LEMMA NoMessagesKept ==
    ASSUME TypesAndActors, TypesAndActors', \A d \in Sessions : OK(d), NEW w \in Workers,
           NoMessages(w)
    PROVE  \A d \in Sessions : Kept(d)
<1>1. PICK c \in Sessions : serving[w] = c
  BY DEF NoMessages, Leave, TypesAndActors, MgrTypeOK
<1>2. /\ mail[c] = <<>> /\ hand[w] = Null /\ serving'[w] = Null /\ Null \notin Sessions
      /\ \A v \in Workers : v # w => serving'[v] = serving[v]
      /\ status'[c] = (IF status[c] = "stop" THEN "useless" ELSE status[c])
      /\ \A d \in Sessions : d # c => status'[d] = status[d]
      /\ UNCHANGED <<mail, hand, closing, open, reads, client, strand, rest, chain,
                     heard, broken, overtaken, mixed>>
  BY <1>1, NetMgrAssumption DEF NoMessages, Leave, workerOnly, socketVars, clientVars, noteVars,
     TypesAndActors, MgrTypeOK
<1>3. \A v \in Workers : serving[v] = c => v = w
  BY <1>1, <1>2 DEF TypesAndActors, ActorsOK, OneWorker
<1>4. \A n \in Letters : ~Due(c, n) /\ ~Due(c, n)'
  BY <1>2, <1>3, NullIsNoMessage DEF Due
<1>5. /\ \A kind : ~DueKind(c, kind) /\ ~DueKind(c, kind)'
      /\ ~Served(c)' /\ Served(c) /\ Holders(c)' = Holders(c)
  BY <1>1, <1>2, <1>3, <1>4, SameChains DEF DueKind, Served
<1>6. closing[w] = "no"
  BY <1>2 DEF TypesAndActors, ActorsOK
<1>7. \A d \in Sessions : d # c => Kept(d)
  BY <1>1, <1>2, SameKept, SameChains DEF Same, SameSocket, SameNotes, SameWorkers
<1>8. SlotOK(c)'
  BY <1>2, <1>4, <1>5 DEF OK, SlotOK, Served
<1>9. CleanOK(c)'
  BY <1>2, <1>4, <1>5 DEF OK, CleanOK, Served
<1>10. OrderOK(c)'
  BY <1>2, <1>5 DEF OK, OrderOK, InOrder, Served
<1>11. ClientOK(c)'
  BY <1>2, <1>4, <1>5 DEF OK, ClientOK, Announced
<1>12. Lost(c)' <=> Lost(c)
  BY <1>2, <1>3, <1>5, <1>6, LostIs, LostIsNext
<1> QED
  BY <1>2, <1>7, <1>8, <1>9, <1>10, <1>11, <1>12 DEF Kept, OK

-----------------------------------------------------------------------------
(* The chains of accepts.                                                  *)

LEMMA AcceptPostKept ==
    ASSUME TypesAndActors, TypesAndActors', \A d \in Sessions : OK(d), NEW a \in Chains,
           AcceptPost(a)
    PROVE  \A d \in Sessions : Kept(d)
<1> DEFINE free == {c \in Sessions : status[c] = "useless"}
           first == CHOOSE c \in free : \A d \in free : c <= d
<1>1. UNCHANGED <<mail, serving, hand, closing, open, reads, client, strand, rest, heard, broken>>
  BY DEF AcceptPost, queueVars, socketVars, clientVars
<1>2. CASE free = {}
  <2>1. UNCHANGED <<status, chain, overtaken, mixed>>
    BY <1>2 DEF AcceptPost
  <2> QED
    BY <1>1, <2>1, SameKept, SameChains DEF Same, SameSocket, SameNotes, SameWorkers
<1>3. CASE free # {}
  <2>1. first \in free
    BY <1>3, LeastConnection
  <2> HIDE DEF first
  <2>2. PICK c \in Sessions : c = first
    BY <2>1
  <2>3. /\ status[c] = "useless" /\ status'[c] = "start"
        /\ chain'[a] = [at |-> IF open[c] THEN "refused" ELSE "wait", conn |-> c]
        /\ overtaken'[c] = (overtaken[c] \/ Held(c))
        /\ mixed'[c] = (mixed[c] \/ rest[c] # 0)
        /\ \A b \in Chains : b # a => chain'[b] = chain[b]
        /\ \A d \in Sessions : d # c =>
              status'[d] = status[d] /\ overtaken'[d] = overtaken[d] /\ mixed'[d] = mixed[d]
    <3>1. /\ status' = [status EXCEPT ![c] = "start"]
          /\ chain' = [chain EXCEPT
                ![a] = [at |-> IF open[c] THEN "refused" ELSE "wait", conn |-> c]]
          /\ overtaken' = [overtaken EXCEPT ![c] = overtaken[c] \/ Held(c)]
          /\ mixed' = [mixed EXCEPT ![c] = mixed[c] \/ rest[c] # 0]
      BY <1>3, <2>2 DEF AcceptPost, first
    <3>2. status[c] = "useless"
      BY <2>1, <2>2
    <3> QED
      BY <3>1, <3>2 DEF TypesAndActors, MgrTypeOK
  <2>4. chain[a].conn = Null /\ Null \notin Sessions
    BY NetMgrAssumption DEF AcceptPost, TypesAndActors, ActorsOK
  <2>5. \A d \in Sessions : d # c => Kept(d)
    <3>1. \A d \in Sessions : d # c => SameHolders(d)
      BY <2>3, <2>4 DEF SameHolders
    <3> QED
      BY <1>1, <2>3, <3>1, SameKept DEF Same, SameSocket, SameNotes, SameWorkers
  <2>6. /\ \A n \in Letters : Due(c, n)' <=> Due(c, n)
        /\ \A kind : DueKind(c, kind)' <=> DueKind(c, kind)
        /\ Served(c)' <=> Served(c)
    BY <1>1, AfterNone
  <2>7. ~broken[c] => ~overtaken[c] /\ ~Held(c)
    <3> SUFFICES ASSUME ~broken[c]
                 PROVE  ~overtaken[c] /\ ~Held(c)
      OBVIOUS
    <3>1. ~overtaken[c] /\ reads[c] = <<>> /\ strand[c].at = "idle" /\ mail[c] = <<>> /\ ~Served(c)
      BY <2>3 DEF OK, CleanOK
    <3>2. \A b \in Chains : chain[b].conn # c
      BY <2>3, <3>1 DEF OK, SlotOK
    <3> QED
      BY <3>1, <3>2 DEF Held
  <2>8. ~overtaken'[c] =>
           /\ ~overtaken[c] /\ reads[c] = <<>> /\ strand[c].at = "idle"
           /\ mail[c] = <<>> /\ ~Served(c) /\ ~open[c]
           /\ \A b \in Chains : chain'[b].conn = c => b = a
           /\ chain'[a].at = "wait" /\ chain'[a].conn = c
           /\ \A n \in Letters : ~Due(c, n)
    <3> SUFFICES ASSUME ~overtaken'[c]
                 PROVE  /\ ~overtaken[c] /\ reads[c] = <<>> /\ strand[c].at = "idle"
                        /\ mail[c] = <<>> /\ ~Served(c) /\ ~open[c]
                        /\ \A b \in Chains : chain'[b].conn = c => b = a
                        /\ chain'[a].at = "wait" /\ chain'[a].conn = c
                        /\ \A n \in Letters : ~Due(c, n)
      OBVIOUS
    <3>1. ~overtaken[c] /\ ~Held(c)
      BY <2>3
    <3>2. ~open[c]
      BY <2>3, <3>1 DEF OK, SlotOK, Held, Holders
    <3>3. \A n \in Letters : ~Due(c, n)
      BY <3>1 DEF Held, Due, Served
    <3> QED
      BY <2>3, <3>1, <3>2, <3>3 DEF Held
  <2>9. SlotOK(c)'
    BY <1>1, <2>3, <2>6, <2>8 DEF SlotOK, DueKind
  <2>10. CleanOK(c)'
    <3>1. ~broken[c] => ~overtaken'[c]
      BY <2>3, <2>7
    <3> QED
      BY <1>1, <2>3, <2>6, <2>8, <3>1 DEF OK, CleanOK
  <2>11. OrderOK(c)'
    BY <1>1 DEF OK, OrderOK, InOrder
  <2>12. ClientOK(c)'
    <3> SUFFICES ASSUME ~broken[c], ~mixed'[c]
                 PROVE  ClientOK(c)'
      BY <1>1 DEF ClientOK
    <3>1. ~overtaken'[c] /\ rest[c] = 0 /\ ~mixed[c]
      BY <2>3, <2>7
    <3>2. heard[c] = 0
      BY <2>3, <3>1 DEF OK, ClientOK
    <3> QED
      BY <1>1, <2>3, <2>6, <2>8, <3>1, <3>2 DEF ClientOK, DueKind
  <2>13. ~overtaken'[c] => ~Lost(c)' /\ ~Lost(c)
    <3>1. Holders(c)' # {}
      BY <2>3 DEF Holders
    <3> QED
      BY <2>3, <3>1 DEF Lost
  <2> QED
    BY <1>1, <2>3, <2>5, <2>9, <2>10, <2>11, <2>12, <2>13 DEF Kept, OK
<1> QED
  BY <1>2, <1>3

LEMMA AcceptedKept ==
    ASSUME TypesAndActors, TypesAndActors', \A d \in Sessions : OK(d), NEW a \in Chains,
           Accepted(a)
    PROVE  \A d \in Sessions : Kept(d)
<1>1. PICK c \in Sessions : c = chain[a].conn
  BY DEF Accepted, TypesAndActors, MgrTypeOK, ActorsOK, ChainStates
<1>2. /\ chain[a].at = "wait" /\ ~open[c] /\ open'[c]
      /\ chain'[a].at = "connect" /\ chain'[a].conn = c
      /\ \A b \in Chains : b # a => chain'[b] = chain[b]
      /\ \A d \in Sessions : d # c => open'[d] = open[d] /\ client'[d] = client[d]
      /\ UNCHANGED <<mail, serving, hand, closing, status, reads, strand, rest, heard,
                     broken, overtaken, mixed>>
  BY <1>1 DEF Accepted, TypesAndActors, MgrTypeOK, ChainStates, queueVars, noteVars
<1>3. /\ \A n \in Letters : Due(c, n)' <=> Due(c, n)
      /\ \A kind : DueKind(c, kind)' <=> DueKind(c, kind)
      /\ Served(c)' <=> Served(c)
  BY <1>2, AfterNone
<1>4. \A d \in Sessions : d # c => Kept(d)
  <2>1. \A d \in Sessions : d # c => SameHolders(d)
    BY <1>1, <1>2 DEF SameHolders
  <2> QED
    BY <1>2, <2>1, SameKept DEF Same, SameSocket, SameNotes, SameWorkers
<1>5. CASE overtaken[c]
  BY <1>2, <1>4, <1>5, OvertakenKept
<1>6. CASE ~overtaken[c]
  <2>1. /\ status[c] = "start" /\ reads[c] = <<>> /\ strand[c].at = "idle"
        /\ mail[c] = <<>> /\ ~Served(c)
        /\ \A b \in Chains : chain[b].conn = c => b = a
    BY <1>1, <1>2, <1>6 DEF OK, SlotOK
  <2>2. \A n \in Letters : ~Due(c, n)
    BY <2>1 DEF Due, Served
  <2>3. \A kind : ~DueKind(c, kind)
    BY <2>2 DEF DueKind
  <2>4. \A b \in Chains : chain'[b].conn = c => b = a
    BY <1>2, <2>1
  <2>5. SlotOK(c)'
    <3>1. Holders(c)' # {}
      BY <1>2 DEF Holders
    <3>2. \A w \in Workers : serving[w] # c
      BY <2>1 DEF Served
    <3> QED
      BY <1>2, <1>3, <2>1, <2>2, <2>3, <2>4, <3>1, <3>2 DEF SlotOK
  <2>6. CleanOK(c)'
    BY <1>2, <1>3, <1>6, <2>1, <2>2, <2>3 DEF OK, CleanOK
  <2>7. OrderOK(c)'
    BY <1>2 DEF OK, OrderOK, InOrder
  <2>8. ClientOK(c)'
    <3> SUFFICES ASSUME ~broken[c], ~mixed[c]
                 PROVE  ClientOK(c)'
      BY <1>2 DEF ClientOK
    <3>1. rest[c] = 0 /\ heard[c] = 0
      BY <1>1, <1>2 DEF OK, ClientOK
    <3> QED
      BY <1>2, <1>3, <2>1, <2>2, <2>3, <2>4, <3>1 DEF ClientOK
  <2>9. ~Lost(c)' /\ ~Lost(c)
    BY <1>1, <1>2 DEF Lost, Holders
  <2> QED
    BY <1>2, <1>4, <1>6, <2>5, <2>6, <2>7, <2>8, <2>9 DEF Kept, OK
<1> QED
  BY <1>4, <1>5, <1>6

LEMMA ConnectedKept ==
    ASSUME TypesAndActors, TypesAndActors', \A d \in Sessions : OK(d), NEW a \in Chains,
           Connected(a)
    PROVE  \A d \in Sessions : Kept(d)
<1>1. PICK c \in Sessions : c = chain[a].conn
  BY DEF Connected, TypesAndActors, MgrTypeOK, ActorsOK, ChainStates
<1>2. /\ chain[a].at = "connect" /\ chain'[a].at = "read" /\ chain'[a].conn = c
      /\ \A b \in Chains : b # a => chain'[b] = chain[b]
      /\ UNCHANGED <<serving, hand, closing, status, open, client, reads, strand, rest, heard,
                     broken, overtaken, mixed>>
  BY <1>1 DEF Connected, TypesAndActors, MgrTypeOK, ChainStates, socketVars, clientVars, noteVars
<1>3. PICK m \in Letters, n \in Letters :
         /\ m.kind = "error" /\ m.of = client[c] /\ n.kind = "connect" /\ n.of = client[c]
         /\ Push(c, <<n>>) \/ Push(c, <<m, n>>)
  <2>1. client[c] \in Nat
    BY DEF TypesAndActors, MgrTypeOK
  <2>2. Msg("error", client[c]) \in Letters /\ Msg("connect", client[c]) \in Letters
    BY <2>1, MsgType DEF Kinds
  <2>3. PICK m \in Letters, n \in Letters :
           m = Msg("error", client[c]) /\ n = Msg("connect", client[c])
    BY <2>2
  <2>4. \E e \in {<<>>, <<m>>} : Push(c, e \o <<n>>)
    BY <1>1, <2>3 DEF Connected
  <2>5. <<>> \o <<n>> = <<n>> /\ <<m>> \o <<n>> = <<m, n>>
    <3>1. <<m>> \in Seq(Letters) /\ <<n>> \in Seq(Letters)
      OBVIOUS
    <3>2. <<m>> \o <<n>> = Append(<<m>>, n)
      BY <3>1, AppendIsConcat
    <3>3. Append(<<m>>, n) = <<m, n>>
      <4>1. <<m, n>> \in Seq(Letters) /\ Append(<<m>>, n) \in Seq(Letters)
        BY <3>1
      <4>2. /\ Len(Append(<<m>>, n)) = 2 /\ Len(<<m, n>>) = 2
            /\ \A i \in 1 .. 2 : Append(<<m>>, n)[i] = <<m, n>>[i]
        BY <3>1, AppendProperties
      <4> QED
        BY <4>1, <4>2, SeqEqual
    <3>4. <<>> \o <<n>> = <<n>>
      BY <3>1, ConcatEmptySeq
    <3> QED
      BY <3>2, <3>3, <3>4
  <2>6. Push(c, <<n>>) \/ Push(c, <<m, n>>)
    BY <2>4, <2>5
  <2> QED
    BY <2>3, <2>6 DEF Msg
<1>4. \A d \in Sessions : d # c => mail'[d] = mail[d]
  BY <1>3 DEF Push, TypesAndActors, MgrTypeOK
<1>5. \A d \in Sessions : d # c => Kept(d)
  <2>1. \A d \in Sessions : d # c => SameHolders(d)
    BY <1>1, <1>2 DEF SameHolders
  <2> QED
    BY <1>2, <1>4, <2>1, SameKept DEF Same, SameSocket, SameNotes, SameWorkers
<1>6. CASE overtaken[c]
  BY <1>2, <1>5, <1>6, OvertakenKept
<1>7. CASE ~overtaken[c]
  <2>1. /\ status[c] = "start" /\ reads[c] = <<>> /\ strand[c].at = "idle"
        /\ mail[c] = <<>> /\ ~Served(c) /\ open[c]
        /\ \A b \in Chains : chain[b].conn = c => b = a
    BY <1>1, <1>2, <1>7 DEF OK, SlotOK
  <2>2. mail'[c] = <<n>> \/ mail'[c] = <<m, n>>
    BY <1>3, <2>1 DEF Push, TypesAndActors, MgrTypeOK
  <2>3. \A w \in Workers : serving'[w] # c
    BY <1>2, <2>1 DEF Served
  <2>4. \A k \in Letters : Due(c, k)' => k \in {m, n}
    BY <2>2, <2>3 DEF Due
  <2>5. Due(c, n)'
    BY <2>2 DEF Due
  <2>6. DueKind(c, "connect")' /\ ~DueKind(c, "disconnect")' /\ ~DueKind(c, "data")'
    BY <1>3, <2>4, <2>5 DEF DueKind
  <2>7. \A b \in Chains : chain'[b].conn = c => b = a
    BY <1>2, <2>1
  <2>8. SlotOK(c)'
    <3>1. Holders(c)' # {}
      BY <1>2 DEF Holders
    <3> QED
      BY <1>2, <1>3, <2>1, <2>3, <2>4, <2>6, <2>7, <3>1 DEF SlotOK
  <2>9. CleanOK(c)'
    BY <1>2, <1>7, <2>1, <2>3, <2>6 DEF CleanOK
  <2>10. OrderOK(c)'
    <3>1. \A i, j \in DOMAIN mail'[c] : i < j => InOrder(mail'[c][i], mail'[c][j])
      BY <1>3, <2>2 DEF InOrder
    <3> QED
      BY <2>3, <3>1 DEF OrderOK, InOrder
  <2>11. ClientOK(c)'
    <3> SUFFICES ASSUME ~broken[c], ~mixed[c]
                 PROVE  ClientOK(c)'
      BY <1>2 DEF ClientOK
    <3>1. rest[c] \in {0, client[c]} /\ heard[c] = 0
      BY <1>1, <1>2 DEF OK, ClientOK
    <3>2. \A k \in Letters : Due(c, k)' => k.of = client[c]
      BY <1>3, <2>4
    <3> QED
      BY <1>2, <2>1, <2>6, <2>7, <3>1, <3>2 DEF ClientOK
  <2>12. ~Lost(c)' /\ ~Lost(c)
    BY <1>1, <1>2 DEF Lost, Holders
  <2> QED
    BY <1>2, <1>5, <1>7, <2>8, <2>9, <2>10, <2>11, <2>12 DEF Kept, OK
<1> QED
  BY <1>5, <1>6, <1>7

LEMMA FirstReadKept ==
    ASSUME TypesAndActors, TypesAndActors', \A d \in Sessions : OK(d), NEW a \in Chains,
           FirstRead(a)
    PROVE  \A d \in Sessions : Kept(d)
<1>1. PICK c \in Sessions : c = chain[a].conn
  BY DEF FirstRead, TypesAndActors, MgrTypeOK, ActorsOK, ChainStates
<1>2. /\ chain[a].at = "read" /\ chain'[a] = [at |-> "post", conn |-> Null]
      /\ \A b \in Chains : b # a => chain'[b] = chain[b]
      /\ \A d \in Sessions : d # c => reads'[d] = reads[d]
      /\ UNCHANGED <<mail, serving, hand, closing, status, open, client, strand, rest, heard,
                     broken, overtaken, mixed>>
  BY <1>1 DEF FirstRead, ReadPosted, TypesAndActors, MgrTypeOK, queueVars, clientVars, noteVars
<1>3. PICK r \in Reads : reads'[c] = Append(reads[c], r) /\ r.of = client[c] /\ ~r.got
  <2>1. client[c] \in Nat
    BY DEF TypesAndActors, MgrTypeOK
  <2>2. [of |-> client[c], on |-> IF open[c] THEN client[c] ELSE 0, got |-> FALSE] \in Reads
    BY <2>1 DEF Reads
  <2> QED
    BY <1>1, <2>2 DEF FirstRead, ReadPosted, TypesAndActors, MgrTypeOK
<1>4. /\ \A n \in Letters : Due(c, n)' <=> Due(c, n)
      /\ \A kind : DueKind(c, kind)' <=> DueKind(c, kind)
      /\ Served(c)' <=> Served(c)
  BY <1>2, AfterNone
<1>5. Null \notin Sessions
  BY NetMgrAssumption
<1>6. \A d \in Sessions : d # c => Kept(d)
  <2>1. \A d \in Sessions : d # c => SameHolders(d)
    BY <1>1, <1>2, <1>5 DEF SameHolders
  <2> QED
    BY <1>2, <2>1, SameKept DEF Same, SameSocket, SameNotes, SameWorkers
<1>7. CASE overtaken[c]
  BY <1>2, <1>6, <1>7, OvertakenKept
<1>8. CASE ~overtaken[c]
  <2>1. /\ status[c] = "start" /\ reads[c] = <<>> /\ strand[c].at = "idle" /\ open[c]
        /\ \A b \in Chains : chain[b].conn = c => b = a
        /\ \A n \in Letters : Due(c, n) => n.kind \in {"connect", "error"}
    BY <1>1, <1>2, <1>8 DEF OK, SlotOK
  <2>2. /\ Len(reads'[c]) = 1 /\ reads'[c] # <<>> /\ DOMAIN reads'[c] = {1}
        /\ reads'[c][1].of = client[c] /\ ~reads'[c][1].got
    <3>1. reads'[c] = <<r>>
      BY <1>3, <2>1
    <3> QED
      BY <1>3, <3>1
  <2>3. \A b \in Chains : chain'[b].conn # c
    BY <1>2, <1>5, <2>1
  <2>4. ~DueKind(c, "disconnect") /\ ~DueKind(c, "data")
    BY <2>1 DEF DueKind
  <2>5. SlotOK(c)'
    <3>1. \A w \in Workers : serving[w] = c => closing[w] # "tell"
      BY <1>8, <2>1 DEF OK, SlotOK
    <3> QED
      BY <1>2, <1>4, <2>1, <2>2, <2>3, <2>4, <3>1 DEF SlotOK
  <2>6. CleanOK(c)'
    BY <1>2, <1>4, <2>1, <2>4 DEF OK, CleanOK
  <2>7. OrderOK(c)'
    BY <1>2 DEF OK, OrderOK, InOrder
  <2>8. ClientOK(c)'
    <3> SUFFICES ASSUME ~broken[c], ~mixed[c]
                 PROVE  ClientOK(c)'
      BY <1>2 DEF ClientOK
    <3>1. /\ rest[c] \in {0, client[c]}
          /\ DueKind(c, "connect") \/ heard[c] = client[c]
          /\ DueKind(c, "connect") => heard[c] = 0
          /\ \A n \in Letters : Due(c, n) => n.of = client[c]
      BY <1>1, <1>2 DEF OK, ClientOK, Announced
    <3> QED
      BY <1>2, <1>4, <2>1, <2>2, <2>3, <3>1 DEF ClientOK, Announced
  <2>9. ~Lost(c)' /\ ~Lost(c)
    BY <1>2, <2>1 DEF Lost, DisconnectDue
  <2> QED
    BY <1>2, <1>6, <1>8, <2>5, <2>6, <2>7, <2>8, <2>9 DEF Kept, OK
<1> QED
  BY <1>6, <1>7, <1>8

\* Only a chain whose connection was used again too early closes it itself.
LEMMA ChainClosesKept ==
    ASSUME TypesAndActors, TypesAndActors', \A d \in Sessions : OK(d), NEW a \in Chains,
           ChainClose(a) \/ ChainTell(a)
    PROVE  (\A d \in Sessions : Kept(d)) /\ \E d \in Sessions : overtaken'[d]
<1>1. PICK c \in Sessions : c = chain[a].conn
  BY DEF ChainClose, ChainTell, TypesAndActors, MgrTypeOK, ActorsOK, ChainStates
<1>2. /\ chain[a].at \in {"close", "tell"} /\ chain'[a].conn \in {c, Null}
      /\ \A b \in Chains : b # a => chain'[b] = chain[b]
      /\ \A d \in Sessions : d # c => open'[d] = open[d]
      /\ UNCHANGED <<serving, hand, closing, status, reads, client, strand, rest, heard,
                     broken, overtaken, mixed>>
  BY <1>1 DEF ChainClose, ChainTell, TypesAndActors, MgrTypeOK, ChainStates, queueVars,
     socketVars, clientVars, noteVars
<1>3. \A d \in Sessions : d # c => mail'[d] = mail[d]
  BY <1>1 DEF ChainClose, ChainTell, Push, queueVars, TypesAndActors, MgrTypeOK
<1>4. overtaken[c]
  BY <1>1, <1>2 DEF OK, SlotOK
<1>5. Kept(c)
  BY <1>2, <1>4, OvertakenKept
<1>6. \A d \in Sessions : d # c => SameHolders(d)
  BY <1>1, <1>2, NetMgrAssumption DEF SameHolders
<1>7. \A d \in Sessions : d # c => Kept(d)
  BY <1>2, <1>3, <1>6, SameKept DEF Same, SameSocket, SameNotes, SameWorkers
<1> QED
  BY <1>2, <1>4, <1>5, <1>7

\* A failed accept loses a connection and ends a chain.
LEMMA AcceptFailedLoses ==
    ASSUME TypesAndActors, TypesAndActors', \A d \in Sessions : OK(d), NEW a \in Chains,
           AcceptFailed(a)
    PROVE  \E c \in Sessions :
              /\ \A d \in Sessions : d # c => Kept(d)
              /\ OK(c)' /\ overtaken'[c] = overtaken[c]
              /\ ~overtaken[c] => ~Lost(c) /\ Lost(c)' /\ chain[a].at # "ended"
                                  /\ chain'[a].at = "ended" /\ Quiet(c)
              /\ \A b \in Chains : b # a => chain'[b] = chain[b]
<1>1. PICK c \in Sessions : c = chain[a].conn
  BY DEF AcceptFailed, TypesAndActors, MgrTypeOK, ActorsOK, ChainStates
<1>2. /\ chain[a].at \in {"wait", "refused"}
      /\ chain'[a] = (IF open[c] THEN [at |-> "close", conn |-> c]
                      ELSE [at |-> "ended", conn |-> Null])
      /\ \A b \in Chains : b # a => chain'[b] = chain[b]
      /\ UNCHANGED <<mail, serving, hand, closing, status, open, reads, client, strand, rest,
                     heard, broken, overtaken, mixed>>
  BY <1>1 DEF AcceptFailed, TypesAndActors, MgrTypeOK, queueVars, socketVars, clientVars, noteVars
<1>3. /\ \A n \in Letters : Due(c, n)' <=> Due(c, n)
      /\ \A kind : DueKind(c, kind)' <=> DueKind(c, kind)
      /\ Served(c)' <=> Served(c)
  BY <1>2, AfterNone
<1>4. Null \notin Sessions
  BY NetMgrAssumption
<1>5. \A d \in Sessions : d # c => Kept(d)
  <2>1. \A d \in Sessions : d # c => SameHolders(d)
    BY <1>1, <1>2, <1>4 DEF SameHolders
  <2> QED
    BY <1>2, <2>1, SameKept DEF Same, SameSocket, SameNotes, SameWorkers
<1>6. CASE overtaken[c]
  <2>1. Kept(c)
    BY <1>2, <1>6, OvertakenKept
  <2> QED
    BY <1>2, <1>5, <1>6, <2>1 DEF Kept
<1>7. CASE ~overtaken[c]
  <2>1. /\ status[c] = "start" /\ reads[c] = <<>> /\ strand[c].at = "idle"
        /\ chain[a].at = "wait" /\ ~open[c] /\ mail[c] = <<>> /\ ~Served(c)
        /\ \A b \in Chains : chain[b].conn = c => b = a
    BY <1>1, <1>2, <1>7 DEF OK, SlotOK
  <2>2. \A kind : ~DueKind(c, kind)
    BY <2>1 DEF DueKind, Due, Served
  <2>3. (\A b \in Chains : chain'[b].conn # c) /\ chain'[a].at = "ended"
    BY <1>2, <1>4, <2>1
  <2>4. SlotOK(c)'
    BY <1>2, <2>1, <2>3 DEF SlotOK
  <2>5. CleanOK(c)'
    BY <1>2, <1>3, <2>1 DEF OK, CleanOK
  <2>6. OrderOK(c)'
    BY <1>2 DEF OK, OrderOK, InOrder
  <2>7. ClientOK(c)'
    BY <1>2, <1>3, <2>3 DEF OK, ClientOK, Announced
  <2>8. ~Lost(c)
    BY <1>1 DEF Lost, Holders
  <2>9. Lost(c)'
    BY <1>2, <1>3, <2>1, <2>2, <2>3, LostIsNext DEF Holders, Served
  <2> QED
    BY <1>2, <1>5, <2>1, <2>3, <2>4, <2>5, <2>6, <2>7, <2>8, <2>9 DEF OK, Quiet
<1> QED
  BY <1>6, <1>7

\* The lost connections stay as many as the chains that have ended.
LEMMA LostStaysEqual ==
    ASSUME LostOK, \A d \in Sessions : Kept(d),
           \A a \in Chains : chain'[a].at = "ended" <=> chain[a].at = "ended"
    PROVE  LostOK'
<1> SUFFICES ASSUME \A c \in Sessions : ~overtaken'[c]
             PROVE  Cardinality({c \in Sessions : Lost(c)'})
                        = Cardinality({a \in Chains : chain'[a].at = "ended"})
  BY DEF LostOK
<1>1. {c \in Sessions : Lost(c)'} = {c \in Sessions : Lost(c)}
  BY DEF Kept
<1>2. {a \in Chains : chain'[a].at = "ended"} = {a \in Chains : chain[a].at = "ended"}
  OBVIOUS
<1> QED
  BY <1>1, <1>2 DEF LostOK, Kept

LEMMA AcceptFailedLost ==
    ASSUME TypesAndActors, TypesAndActors', LostOK, QuietOK, \A d \in Sessions : OK(d),
           NEW a \in Chains, AcceptFailed(a)
    PROVE  LostOK' /\ QuietOK' /\ \A d \in Sessions : OK(d)'
<1>1. PICK c \in Sessions :
         /\ \A d \in Sessions : d # c => Kept(d)
         /\ OK(c)' /\ overtaken'[c] = overtaken[c]
         /\ ~overtaken[c] => ~Lost(c) /\ Lost(c)' /\ chain[a].at # "ended"
                             /\ chain'[a].at = "ended" /\ Quiet(c)
         /\ \A b \in Chains : b # a => chain'[b] = chain[b]
  BY AcceptFailedLoses
<1>2. \A d \in Sessions : OK(d)'
  BY <1>1 DEF Kept
<1>3. LostOK'
  <2> SUFFICES ASSUME \A d \in Sessions : ~overtaken'[d]
               PROVE  Cardinality({d \in Sessions : Lost(d)'})
                          = Cardinality({b \in Chains : chain'[b].at = "ended"})
    BY DEF LostOK
  <2> DEFINE lost == {d \in Sessions : Lost(d)}
             ended == {b \in Chains : chain[b].at = "ended"}
  <2>1. \A d \in Sessions : ~overtaken[d]
    BY <1>1 DEF Kept
  <2>2. {d \in Sessions : Lost(d)'} = lost \cup {c} /\ c \notin lost
    BY <1>1, <2>1 DEF Kept
  <2>3. {b \in Chains : chain'[b].at = "ended"} = ended \cup {a} /\ a \notin ended
    BY <1>1, <2>1
  <2>4. IsFiniteSet(lost) /\ IsFiniteSet(ended)
    BY FS_Subset, NetMgrAssumption
  <2>5. Cardinality(lost) = Cardinality(ended)
    BY <2>1 DEF LostOK
  <2>6. /\ Cardinality(lost \cup {c}) = Cardinality(lost) + 1
        /\ Cardinality(ended \cup {a}) = Cardinality(ended) + 1
    <3> HIDE DEF lost, ended
    <3> QED
      BY <2>2, <2>3, <2>4, FS_AddElement
  <2> QED
    BY <2>2, <2>3, <2>5, <2>6
<1>4. QuietOK'
  <2>1. UNCHANGED <<reads, strand>>
    BY DEF AcceptFailed, socketVars
  <2> QED
    BY <1>1, <2>1 DEF QuietOK, Quiet, Kept
<1> QED
  BY <1>2, <1>3, <1>4

\* Nobody begins to read a connection that no chain holds and nobody reads.
LEMMA QuietStays ==
    ASSUME TypesAndActors, NEW d \in Sessions, Quiet(d), Holders(d) = {},
           \/ \E a \in Chains : ChainStep(a) \/ Accepted(a) \/ AcceptFailed(a)
           \/ \E c \in Sessions :
                 \/ StrandStep(c) \/ PeerGone(c)
                 \/ \E i \in DOMAIN reads[c] : ReadArrives(c, i) \/ ReadFailed(c, i)
           \/ \E w \in Workers : WorkerStep(w)
    PROVE  Quiet(d)'
<1>1. /\ reads \in [Sessions -> Seq(Reads)] /\ strand \in [Sessions -> Strands]
      /\ reads[d] = <<>> /\ strand[d].at = "idle" /\ \A a \in Chains : chain[a].conn # d
  BY DEF TypesAndActors, MgrTypeOK, Quiet, Holders
<1>2. ASSUME NEW a \in Chains, ChainStep(a) \/ Accepted(a) \/ AcceptFailed(a)
      PROVE  reads'[d] = reads[d] /\ strand'[d] = strand[d]
  BY <1>1, <1>2 DEF ChainStep, AcceptPost, Connected, FirstRead, ReadPosted, ChainClose, ChainTell,
     Accepted, AcceptFailed, socketVars
<1>3. ASSUME NEW c \in Sessions,
             \/ StrandStep(c) \/ PeerGone(c)
             \/ \E i \in DOMAIN reads[c] : ReadArrives(c, i) \/ ReadFailed(c, i)
      PROVE  reads'[d] = reads[d] /\ strand'[d] = strand[d]
  <2>1. c # d \/ PeerGone(c)
    <3>1. DOMAIN reads[d] = {}
      BY <1>1
    <3> QED
      BY <1>1, <1>3, <3>1 DEF StrandStep, ReadData, Parsed, ParsedTooBig, ParsedAll, NextRead,
         StrandClose, StrandTell
  <2>2. CASE PeerGone(c)
    BY <2>2 DEF PeerGone
  <2>3. CASE c # d
    BY <1>1, <1>3, <2>3 DEF StrandStep, ReadData, Parsed, ParsedTooBig, ParsedAll, NextRead,
       ReadPosted, StrandClose, StrandTell, PeerGone, ReadArrives, ReadFailed, socketVars
  <2> QED
    BY <2>1, <2>2, <2>3
<1>4. ASSUME NEW w \in Workers, WorkerStep(w)
      PROVE  UNCHANGED <<reads, strand>>
  BY <1>4 DEF WorkerStep, ServeNext, TakeMessage, NoMessages, HandleConnect, HandleDisconnect,
     HandleError, HandleData, Write, WriteFailed, WorkerClose, WorkerTell, workerOnly, socketVars
<1> QED
  BY <1>1, <1>2, <1>3, <1>4 DEF Quiet

-----------------------------------------------------------------------------
(* The inductive invariant holds at first and after every step.            *)

LEMMA MgrInit == Init => MgrInv
<1> SUFFICES ASSUME Init
             PROVE  MgrInv
  OBVIOUS
<1> USE DEF Init, QueueInit
<1>1. MgrTypeOK
  BY NetMgrAssumption DEF MgrTypeOK, Strands, Idle, ChainStates
<1>2. ActorsOK
  BY NetMgrAssumption DEF ActorsOK, OneWorker
<1>3. LostOK
  <2>1. {c \in Sessions : Lost(c)} = {}
    BY DEF Lost
  <2>2. {a \in Chains : chain[a].at = "ended"} = {}
    OBVIOUS
  <2> QED
    BY <2>1, <2>2 DEF LostOK
<1>4. ASSUME NEW c \in Sessions
      PROVE  OK(c)
  <2>1. Null \notin Sessions
    BY NetMgrAssumption
  <2>2. \A n \in Letters : ~Due(c, n)
    BY <2>1 DEF Due
  <2>3. \A kind : ~DueKind(c, kind)
    BY <2>2 DEF DueKind
  <2>4. (\A a \in Chains : chain[a].conn # c) /\ ~Served(c) /\ strand[c].at = "idle"
    BY <2>1 DEF Served, Idle
  <2>5. SlotOK(c)
    BY <2>3, <2>4 DEF SlotOK
  <2>6. CleanOK(c)
    BY <2>1, <2>2, <2>3, <2>4 DEF CleanOK
  <2>7. OrderOK(c)
    BY DEF OrderOK, InOrder
  <2>8. ClientOK(c)
    BY <2>2, <2>3, <2>4 DEF ClientOK
  <2> QED
    BY <2>5, <2>6, <2>7, <2>8 DEF OK
<1>5. QuietOK
  BY DEF QuietOK, Lost
<1> QED
  BY <1>1, <1>2, <1>3, <1>4, <1>5 DEF MgrInv, TypesAndActors

LEMMA MgrStep == MgrInv /\ [Next]_vars => MgrInv'
<1> SUFFICES ASSUME MgrInv, [Next]_vars
             PROVE  MgrInv'
  OBVIOUS
<1>1. TypesAndActors /\ LostOK /\ QuietOK /\ \A d \in Sessions : OK(d)
  BY DEF MgrInv
<1>2. ASSUME \A d \in Sessions : Kept(d)
      PROVE  QuietOK'
  <2> SUFFICES ASSUME NEW d \in Sessions, ~overtaken'[d], Lost(d)'
               PROVE  Quiet(d)'
    BY DEF QuietOK
  <2>1. Quiet(d) /\ Holders(d) = {}
    BY <1>1, <1>2 DEF QuietOK, Kept, Lost
  <2>2. CASE UNCHANGED vars
    BY <2>1, <2>2 DEF Quiet, vars, socketVars
  <2> QED
    BY <1>1, <2>1, <2>2, QuietStays DEF Next, Rest
<1>3. ASSUME TypesAndActors', \A d \in Sessions : Kept(d),
             \A a \in Chains : chain'[a].at = "ended" <=> chain[a].at = "ended"
      PROVE  MgrInv'
  BY <1>1, <1>3, <1>2, LostStaysEqual DEF MgrInv, Kept
<1>4. ASSUME NEW a \in Chains, ChainStep(a) \/ Accepted(a) \/ AcceptFailed(a)
      PROVE  MgrInv'
  <2>1. TypesAndActors'
    BY <1>1, <1>4, ChainTypes
  <2>2. CASE AcceptFailed(a)
    BY <1>1, <2>1, <2>2, AcceptFailedLost DEF MgrInv
  <2>3. CASE ChainClose(a) \/ ChainTell(a)
    <3>1. (\A d \in Sessions : Kept(d)) /\ \E d \in Sessions : overtaken'[d]
      BY <1>1, <2>1, <2>3, ChainClosesKept
    <3> QED
      BY <1>2, <2>1, <3>1 DEF MgrInv, LostOK, Kept
  <2>4. CASE AcceptPost(a) \/ Accepted(a) \/ Connected(a) \/ FirstRead(a)
    <3>1. \A d \in Sessions : Kept(d)
      BY <1>1, <2>1, <2>4, AcceptPostKept, AcceptedKept, ConnectedKept, FirstReadKept
    <3>2. chain[a].at # "ended" /\ chain'[a].at # "ended" /\ chain[a] \in ChainStates
      <4>1. chain[a] \in ChainStates
        BY <1>1 DEF TypesAndActors, MgrTypeOK
      <4>2. CASE AcceptPost(a)
        <5>1. chain[a].at \in {"startup", "post"}
          BY <4>2 DEF AcceptPost
        <5>2. \/ chain' = chain
              \/ \E c : chain' = [chain EXCEPT
                    ![a] = [at |-> IF open[c] THEN "refused" ELSE "wait", conn |-> c]]
          BY <4>2 DEF AcceptPost
        <5>3. chain \in [Chains -> ChainStates]
          BY <1>1 DEF TypesAndActors, MgrTypeOK
        <5> QED
          BY <4>1, <5>1, <5>2, <5>3
      <4>3. CASE Accepted(a) \/ Connected(a) \/ FirstRead(a)
        BY <1>1, <4>1, <4>3 DEF Accepted, Connected, FirstRead, TypesAndActors, MgrTypeOK,
           ChainStates
      <4> QED
        BY <2>4, <4>1, <4>2, <4>3
    <3>3. \A b \in Chains : b # a => chain'[b] = chain[b]
      BY <1>1, <2>4 DEF AcceptPost, Accepted, Connected, FirstRead, TypesAndActors, MgrTypeOK
    <3> QED
      BY <1>3, <2>1, <3>1, <3>2, <3>3
  <2> QED
    BY <1>4, <2>2, <2>3, <2>4 DEF ChainStep
<1>5. ASSUME NEW c \in Sessions,
             \/ StrandStep(c) \/ PeerGone(c)
             \/ \E i \in DOMAIN reads[c] : ReadArrives(c, i) \/ ReadFailed(c, i)
      PROVE  MgrInv'
  <2>1. TypesAndActors'
    BY <1>1, <1>5, ReaderTypes
  <2>2. \A d \in Sessions : Kept(d)
    BY <1>1, <1>5, <2>1, PeerGoneKept, ReadArrivesKept, ReadFailedKept, ReadDataKept, ParsedKept,
       ParsedTooBigKept, ParsedAllKept, NextReadKept, StrandCloseKept, StrandTellKept
       DEF StrandStep
  <2>3. UNCHANGED chain
    BY <1>5 DEF StrandStep, PeerGone, ReadArrives, ReadFailed, ReadData, Parsed, ParsedTooBig,
       ParsedAll, NextRead, StrandClose, StrandTell
  <2> QED
    BY <1>3, <2>1, <2>2, <2>3
<1>6. ASSUME NEW w \in Workers, WorkerStep(w)
      PROVE  MgrInv'
  <2>1. TypesAndActors'
    BY <1>1, <1>6, WorkerTypes
  <2>2. \A d \in Sessions : Kept(d)
    BY <1>1, <1>6, <2>1, ServeNextKept, TakeMessageKept, NoMessagesKept, HandleConnectKept,
       HandleDisconnectKept, ReleaseKept, HandleDataKept, WriteFailedKept, WorkerCloseKept,
       WorkerTellKept
       DEF WorkerStep
  <2>3. UNCHANGED chain
    BY <1>6 DEF WorkerStep, ServeNext, TakeMessage, NoMessages, HandleConnect, HandleDisconnect,
       HandleError, HandleData, Write, WriteFailed, WorkerClose, WorkerTell, workerOnly
  <2> QED
    BY <1>3, <2>1, <2>2, <2>3
<1>7. ASSUME UNCHANGED vars
      PROVE  MgrInv'
  <2>1. UNCHANGED <<mail, serving, hand, status, open, reads, client, left, clients, data,
                    strand, rest, chain, closing, fault, heard, broken, overtaken, mixed>>
    BY <1>7 DEF vars, queueVars, socketVars, clientVars, noteVars
  <2>2. TypesAndActors'
    BY <1>1, <2>1 DEF TypesAndActors, MgrTypeOK, ActorsOK, OneWorker
  <2>3. \A d \in Sessions : Kept(d)
    BY <1>1, <2>1, SameKept DEF Same, SameSocket, SameNotes, SameHolders, SameWorkers
  <2> QED
    BY <1>3, <2>1, <2>2, <2>3
<1> QED
  BY <1>4, <1>5, <1>6, <1>7 DEF Next, Rest

\* The connections of the old layer stay in order: whoever works on one does so alone,
\* what is due on it fits its state, and every lost connection has its ended chain
\* (net_mgr.cpp:72-189, 314-412).
THEOREM MgrInvariant == Spec => []MgrInv
BY MgrInit, MgrStep, PTL DEF Spec

\* A connection is unused, waits for a client, has one or is being freed, never two of
\* these, for any number of connections, chains, threads and workers
\* (net_mgr.cpp:314-321, 370-412).
THEOREM SlotLedgerCorrect == Spec => []SlotLedger
<1>1. MgrInv => SlotLedger
  <2> SUFFICES ASSUME MgrInv
               PROVE  SlotLedger
    OBVIOUS
  <2>1. ASSUME NEW c \in Sessions
        PROVE  /\ overtaken[c] => broken[c]
               /\ ~overtaken[c] =>
                     /\ Cardinality(Holders(c)) <= 1
                     /\ status[c] # "start" => Holders(c) = {} /\ (open[c] => broken[c])
                     /\ \A a \in Holders(c) :
                           /\ chain[a].at \in {"wait", "connect", "read"}
                           /\ chain[a].at = "wait" =>
                                 ~open[c] /\ reads[c] = <<>> /\ mail[c] = <<>>
    <3>1. OK(c)
      BY DEF MgrInv
    <3>2. overtaken[c] => broken[c]
      BY <3>1 DEF OK, CleanOK
    <3>3. ~overtaken[c] => Cardinality(Holders(c)) <= 1
      <4> SUFFICES ASSUME ~overtaken[c]
                   PROVE  Cardinality(Holders(c)) <= 1
        OBVIOUS
      <4>1. CASE Holders(c) = {}
        BY <4>1, FS_EmptySet
      <4>2. CASE Holders(c) # {}
        <5>1. PICK a \in Chains : Holders(c) = {a}
          BY <3>1, <4>2 DEF OK, SlotOK, Holders
        <5>2. Cardinality({a}) = 1
          BY FS_Singleton
        <5> QED
          BY <5>1, <5>2
      <4> QED
        BY <4>1, <4>2
    <3>4. ~overtaken[c] =>
             /\ status[c] # "start" => Holders(c) = {} /\ (open[c] => broken[c])
             /\ \A a \in Holders(c) :
                   /\ chain[a].at \in {"wait", "connect", "read"}
                   /\ chain[a].at = "wait" => ~open[c] /\ reads[c] = <<>> /\ mail[c] = <<>>
      BY <3>1 DEF OK, SlotOK, Holders
    <3> QED
      BY <3>2, <3>3, <3>4
  <2> QED
    BY <2>1 DEF SlotLedger, MgrInv, LostOK
<1> QED
  BY <1>1, MgrInvariant, PTL

\* While a connection is open it has exactly one reader, and never two: its chain, a
\* pending read, or the read handler (net_mgr.cpp:86, 152-173).
THEOREM OneReaderCorrect == Spec => []OneReader
<1>1. MgrInv => OneReader
  <2> SUFFICES ASSUME MgrInv, NEW c \in Sessions, ~overtaken[c]
               PROVE  LET readers == Len(reads[c]) + (IF strand[c].at = "idle" THEN 0 ELSE 1)
                            + Cardinality({a \in Holders(c) : chain[a].at \in {"connect", "read"}})
                      IN  readers <= 1 /\ (open[c] => readers = 1)
    BY DEF OneReader
  <2> DEFINE chained == {a \in Holders(c) : chain[a].at \in {"connect", "read"}}
  <2>1. SlotOK(c) /\ reads[c] \in Seq(Reads)
    BY DEF MgrInv, OK, TypesAndActors, MgrTypeOK
  <2>2. Len(reads[c]) \in Nat /\ (reads[c] = <<>> <=> Len(reads[c]) = 0)
    BY <2>1
  <2>3. CASE Holders(c) = {}
    <3>1. chained = {}
      BY <2>3
    <3>2. Cardinality(chained) = 0
      BY <3>1, FS_EmptySet
    <3>3. PICK n \in Nat : n = Len(reads[c])
      BY <2>2
    <3>4. n <= 1 /\ (strand[c].at # "idle" => n = 0)
      BY <2>1, <2>2, <3>3 DEF SlotOK
    <3>5. open[c] => n # 0 \/ strand[c].at # "idle"
      BY <2>1, <2>2, <2>3, <3>3 DEF SlotOK
    <3> HIDE DEF chained
    <3>6. CASE strand[c].at = "idle"
      <4>1. n + 0 + Cardinality(chained) = n
        BY <3>2
      <4>2. n \in {0, 1}
        BY <3>4
      <4>3. open[c] => n = 1
        BY <3>5, <3>6, <4>2
      <4> QED
        BY <3>3, <3>4, <3>6, <4>1, <4>3 DEF chained
    <3>7. CASE strand[c].at # "idle"
      <4>1. n + 1 + Cardinality(chained) = 1
        BY <3>2, <3>4, <3>7
      <4> QED
        BY <3>3, <3>7, <4>1 DEF chained
    <3> QED
      BY <3>6, <3>7
  <2>4. CASE Holders(c) # {}
    <3>1. PICK a \in Chains : chain[a].conn = c
      BY <2>4 DEF Holders
    <3>2. /\ Len(reads[c]) = 0 /\ strand[c].at = "idle" /\ Holders(c) = {a}
          /\ chain[a].at \in {"wait", "connect", "read"}
          /\ open[c] => chain[a].at # "wait"
      BY <2>1, <2>2, <3>1 DEF SlotOK, Holders
    <3>3. chained = {} \/ chained = {a}
      BY <3>2
    <3>4. open[c] => chained = {a}
      BY <3>2
    <3>5. Cardinality({}) = 0 /\ Cardinality({a}) = 1
      BY FS_EmptySet, FS_Singleton
    <3>6. Cardinality(chained) \in {0, 1} /\ (open[c] => Cardinality(chained) = 1)
      BY <3>3, <3>4, <3>5
    <3> HIDE DEF chained
    <3>7. Len(reads[c]) + 0 + Cardinality(chained) = Cardinality(chained)
      BY <3>2, <3>6
    <3>8. Cardinality(chained) <= 1
      BY <3>6
    <3> QED
      BY <3>2, <3>6, <3>7, <3>8 DEF chained
  <2> QED
    BY <2>3, <2>4
<1> QED
  BY <1>1, MgrInvariant, PTL

\* What is read, queued and handled on a connection belongs to the client it has now, as
\* long as no write fails on an open socket, no header is too big and no client leaves
\* within a message (net_mgr.cpp:130-173, 314-348).
THEOREM AllOfThisClientCorrect == Spec => []AllOfThisClient
<1>1. MgrInv => AllOfThisClient
  <2> SUFFICES ASSUME MgrInv, NEW c \in Sessions, ~broken[c], ~mixed[c]
               PROVE  /\ \A i \in DOMAIN reads[c] : reads[c][i].of = client[c]
                      /\ \A i \in DOMAIN mail[c] : mail[c][i].of = client[c]
                      /\ \A w \in Workers :
                            serving[w] = c /\ hand[w] # Null => hand[w].of = client[c]
    BY DEF AllOfThisClient
  <2>1. ClientOK(c) /\ MgrTypeOK
    BY DEF MgrInv, OK, TypesAndActors
  <2>2. /\ \A i \in DOMAIN mail[c] : mail[c][i] \in Letters
        /\ \A w \in Workers : hand[w] # Null => hand[w] \in Letters
    BY <2>1 DEF MgrTypeOK
  <2> QED
    BY <2>1, <2>2 DEF ClientOK, Due
<1> QED
  BY <1>1, MgrInvariant, PTL

\* The application hears that a client connected, then its messages, then that it has
\* gone, each once and of one client at a time (net_mgr.cpp:84-86, 152-189, 326-348).
THEOREM HeardInOrderCorrect == Spec => []HeardInOrder
<1>1. MgrInv => HeardInOrder
  <2> SUFFICES ASSUME MgrInv, NEW w \in Workers, serving[w] # Null, hand[w] # Null,
                      ~broken[serving[w]], ~mixed[serving[w]]
               PROVE  /\ hand[w].kind = "connect" => heard[serving[w]] = 0
                      /\ hand[w].kind \in {"data", "disconnect"} =>
                            heard[serving[w]] = hand[w].of
    BY DEF HeardInOrder
  <2>1. PICK c \in Sessions : c = serving[w]
    BY DEF MgrInv, TypesAndActors, MgrTypeOK
  <2>2. ClientOK(c) /\ OrderOK(c) /\ MgrTypeOK /\ ActorsOK
    BY DEF MgrInv, OK, TypesAndActors
  <2>3. hand[w] \in Letters /\ Due(c, hand[w])
    BY <2>1, <2>2 DEF MgrTypeOK, Due
  <2>4. hand[w].kind = "connect" => heard[c] = 0
    BY <2>1, <2>2, <2>3 DEF ClientOK, DueKind
  <2>5. ASSUME hand[w].kind \in {"data", "disconnect"}
        PROVE  heard[c] = hand[w].of
    <3>1. ~DueKind(c, "connect")
      <4>1. \A i \in DOMAIN mail[c] : mail[c][i].kind # "connect"
        BY <2>1, <2>2, <2>5 DEF OrderOK, InOrder
      <4>2. \A v \in Workers : serving[v] = c => v = w
        BY <2>1, <2>2 DEF ActorsOK, OneWorker
      <4> QED
        BY <2>5, <4>1, <4>2 DEF DueKind, Due
    <3>2. DueKind(c, "data") \/ DueKind(c, "disconnect")
      BY <2>3, <2>5 DEF DueKind
    <3>3. heard[c] = client[c] /\ hand[w].of = client[c]
      BY <2>1, <2>2, <2>3, <3>1, <3>2 DEF ClientOK, Announced
    <3> QED
      BY <3>3
  <2> QED
    BY <2>1, <2>4, <2>5
<1> QED
  BY <1>1, MgrInvariant, PTL
=============================================================================
