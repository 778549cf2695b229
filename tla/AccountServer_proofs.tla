------------------------ MODULE AccountServer_proofs ------------------------
(***************************************************************************)
(* What holds of the HTTP workers (NetHttp) and of the accounts on them    *)
(* (AccountServer), for every number of workers, nicknames and passwords,  *)
(* every length of the deadline and every size of the pool.                *)
(***************************************************************************)
EXTENDS AccountServer, TLAPS, SequenceTheorems

Ops == [kind : {"accept", "read", "write"}, result : {"pending", "ok", "failed"}]

Pools == [count : Nat, used : Nat]

HttpTypeOK ==
    /\ ops \in [Workers -> Seq(Ops)]
    /\ open \in [Workers -> BOOLEAN]
    /\ remaining \in [Workers -> 0..Never]
    /\ waits \in [Workers -> Nat] /\ due \in [Workers -> Nat]
    /\ age \in [Workers -> 0..Limit]

PoolTypeOK ==
    /\ pool \in [Workers -> Pools]
    /\ request \in [Workers -> Nat] /\ response \in [Workers -> Nat]

\* The response is there while it is written, and an empty pool is unused.
PoolLedger ==
    \A w \in Workers :
        /\ response[w] = IF ops[w][1].kind = "write" THEN ReplyFields ELSE 0
        /\ pool[w].count = 0 => pool[w].used = 0

Grants == [path : {"register", "login"}, nickname : Nicknames, password : Passwords]

AccountTypeOK ==
    /\ accounts \in [Nicknames -> Passwords \cup {Null}]
    /\ reply \in [Workers -> Grants \cup {Null}]
    /\ told \in [Nicknames -> Passwords \cup {Null}]

HttpInv == HttpTypeOK /\ WorkerLedger

PoolInv == PoolTypeOK /\ PoolLedger /\ PoolOfOneRequest

AccountInv == AccountTypeOK /\ AnswersHold

-----------------------------------------------------------------------------
(* One operation: a worker's list of operations is its only one.           *)

\* A list of one operation, seen from its handler.
LEMMA OneOperation ==
    ASSUME HttpInv, NEW w \in Workers
    PROVE  /\ DOMAIN ops[w] = {1}
           /\ ops[w][1] \in Ops
           /\ ops[w] = <<ops[w][1]>>
           /\ Others(w, 1) = <<>>
  <1>1. ops[w] \in Seq(Ops) /\ Len(ops[w]) = 1
    BY DEF HttpInv, HttpTypeOK, WorkerLedger
  <1>2. DOMAIN ops[w] = {1} /\ ops[w][1] \in Ops /\ ops[w] = <<ops[w][1]>>
    BY <1>1
  <1>3. SubSeq(ops[w], 1, 0) = <<>> /\ SubSeq(ops[w], 2, 1) = <<>>
    BY <1>1
  <1>4. Others(w, 1) = <<>>
    BY <1>1, <1>3 DEF Others
  <1> QED BY <1>2, <1>4

\* Nothing is left for close() to abort when a handler runs.
LEMMA AbortedNone == Aborted(<<>>) = <<>>
  BY DEF Aborted

\* An operation that close() aborts.
LEMMA AbortedOne ==
    ASSUME NEW op \in Ops
    PROVE  Aborted(<<op>>) =
               <<IF op.kind # "accept" /\ op.result = "pending"
                 THEN Op(op.kind, "failed") ELSE op>>
  BY DEF Aborted, Ops, Op

\* accept() leaves one operation, the accept.
LEMMA AcceptLeavesOne ==
    ASSUME HttpInv, NEW w \in Workers, Accept(w, 1)
    PROVE  ops' = [ops EXCEPT ![w] = <<Op("accept", "pending")>>]
  <1>1. Aborted(Others(w, 1)) = <<>>
    BY OneOperation, AbortedNone
  <1>2. Append(<<>>, Op("accept", "pending")) = <<Op("accept", "pending")>>
    OBVIOUS
  <1> QED BY <1>1, <1>2 DEF Accept

-----------------------------------------------------------------------------
(* The invariant of the workers.                                           *)

\* What a worker's ledger asks of one operation.
Ledger(w, op, isOpen, left, years) ==
    IF op.kind = "accept" THEN ~isOpen
    ELSE IF isOpen THEN left = Limit - years
    ELSE op.result # "pending" /\ years = Limit

\* A step after which a worker has one operation that fits its socket and its
\* deadline, and which leaves the other workers alone, keeps the invariant.
LEMMA OneWorkerSteps ==
    ASSUME HttpInv, NEW w \in Workers, NEW op \in Ops,
           NEW isOpen \in BOOLEAN, NEW left \in 0..Never, NEW years \in 0..Limit,
           NEW nwaits \in Nat, NEW ndue \in Nat, nwaits + ndue = 1,
           ops' = [ops EXCEPT ![w] = <<op>>],
           open' = [open EXCEPT ![w] = isOpen],
           remaining' = [remaining EXCEPT ![w] = left],
           waits' = [waits EXCEPT ![w] = nwaits],
           due' = [due EXCEPT ![w] = ndue],
           age' = [age EXCEPT ![w] = years],
           Ledger(w, op, isOpen, left, years)
    PROVE  HttpInv'
  <1>1. <<op>> \in Seq(Ops) /\ Len(<<op>>) = 1 /\ <<op>>[1] = op
    OBVIOUS
  <1>2. HttpTypeOK'
    BY <1>1 DEF HttpInv, HttpTypeOK
  <1>3. WorkerLedger'
    <2> SUFFICES ASSUME NEW v \in Workers
                 PROVE  /\ Len(ops'[v]) = 1
                        /\ waits'[v] + due'[v] = 1
                        /\ Ledger(v, ops'[v][1], open'[v], remaining'[v], age'[v])
      BY DEF WorkerLedger, Ledger
    <2>1. CASE v = w
      BY <1>1, <2>1 DEF HttpInv, HttpTypeOK
    <2>2. CASE v # w
      <3>1. /\ ops'[v] = ops[v] /\ open'[v] = open[v] /\ remaining'[v] = remaining[v]
            /\ waits'[v] = waits[v] /\ due'[v] = due[v] /\ age'[v] = age[v]
        BY <2>2 DEF HttpInv, HttpTypeOK
      <3> QED BY <3>1 DEF HttpInv, WorkerLedger, Ledger
    <2> QED BY <2>1, <2>2
  <1> QED BY <1>2, <1>3 DEF HttpInv

\* The state of one worker under the invariant.
LEMMA WorkerState ==
    ASSUME HttpInv, NEW w \in Workers
    PROVE  /\ ops[w][1] \in Ops /\ open[w] \in BOOLEAN
           /\ remaining[w] \in 0..Never /\ age[w] \in 0..Limit
           /\ waits[w] \in Nat /\ due[w] \in Nat /\ waits[w] + due[w] = 1
           /\ Ledger(w, ops[w][1], open[w], remaining[w], age[w])
  BY OneOperation DEF HttpInv, HttpTypeOK, WorkerLedger, Ledger

\* What a function keeps that is not changed.
LEMMA Same ==
    ASSUME HttpInv, NEW w \in Workers
    PROVE  /\ open = [open EXCEPT ![w] = open[w]]
           /\ remaining = [remaining EXCEPT ![w] = remaining[w]]
           /\ waits = [waits EXCEPT ![w] = waits[w]]
           /\ due = [due EXCEPT ![w] = due[w]]
           /\ age = [age EXCEPT ![w] = age[w]]
           /\ ops = [ops EXCEPT ![w] = <<ops[w][1]>>]
  BY OneOperation DEF HttpInv, HttpTypeOK

LEMMA ClientStepHttp ==
    ASSUME HttpInv, NEW w \in Workers, NEW i \in DOMAIN ops[w], ClientStep(w, i)
    PROVE  HttpInv'
  <1>1. PICK kind \in {"accept", "read", "write"}, result \in {"ok", "failed"} :
            Done(w, i, kind, result)
    BY DEF ClientStep
  <1>2. i = 1
    BY OneOperation
  <1> DEFINE op == Op(kind, result)
  <1>3. ops[w][1] = Op(kind, "pending")
    BY <1>1, <1>2 DEF Done, Pending
  <1>4. ops' = [ops EXCEPT ![w] = <<op>>]
    <2>1. ops' = [ops EXCEPT ![w] = [ops[w] EXCEPT ![1] = op]]
      BY <1>1, <1>2 DEF Done
    <2>2. [<<ops[w][1]>> EXCEPT ![1] = op] = <<op>>
      OBVIOUS
    <2> QED BY <2>1, <2>2, OneOperation
  <1>5. op \in Ops
    BY DEF Ops, Op
  <1>6. Ledger(w, op, open[w], remaining[w], age[w])
    BY <1>3, WorkerState DEF Ledger, Op
  <1>7. UNCHANGED <<open, remaining, waits, due, age>>
    BY <1>1 DEF Done, timerVars
  <1>8. /\ open' = [open EXCEPT ![w] = open[w]]
        /\ remaining' = [remaining EXCEPT ![w] = remaining[w]]
        /\ waits' = [waits EXCEPT ![w] = waits[w]]
        /\ due' = [due EXCEPT ![w] = due[w]]
        /\ age' = [age EXCEPT ![w] = age[w]]
    BY <1>7, Same
  <1> HIDE DEF op
  <1> QED BY <1>4, <1>5, <1>6, <1>8, WorkerState, OneWorkerSteps

\* The handlers that end in accept().
LEMMA AcceptHttp ==
    ASSUME HttpInv, NEW w \in Workers,
           \/ HandleAcceptFailed(w, 1) \/ HandleReadFailed(w, 1)
           \/ \E result \in {"ok", "failed"} : HandleWrite(w, 1, result)
    PROVE  HttpInv'
  <1> DEFINE op == Op("accept", "pending")
  <1>1. Accept(w, 1) /\ UNCHANGED <<remaining, waits, due, age>>
    BY DEF HandleAcceptFailed, HandleReadFailed, HandleWrite, timerVars
  <1>2. ops' = [ops EXCEPT ![w] = <<op>>]
    BY <1>1, AcceptLeavesOne
  <1>3. op \in Ops /\ open' = [open EXCEPT ![w] = FALSE]
    BY <1>1 DEF Ops, Op, Accept
  <1>4. Ledger(w, op, FALSE, remaining[w], age[w])
    BY DEF Ledger, Op
  <1>5. /\ remaining' = [remaining EXCEPT ![w] = remaining[w]]
        /\ waits' = [waits EXCEPT ![w] = waits[w]]
        /\ due' = [due EXCEPT ![w] = due[w]]
        /\ age' = [age EXCEPT ![w] = age[w]]
    BY <1>1, Same
  <1> HIDE DEF op
  <1> QED BY <1>2, <1>3, <1>4, <1>5, WorkerState, OneWorkerSteps

LEMMA HandleAcceptHttp ==
    ASSUME HttpInv, NEW w \in Workers, HandleAccept(w, 1)
    PROVE  HttpInv'
  <1> DEFINE op == Op("read", "pending")
  <1>1. ops' = [ops EXCEPT ![w] = <<op>>]
    <2>1. Append(<<>>, op) = <<op>>
      OBVIOUS
    <2> QED BY <2>1, OneOperation DEF HandleAccept
  <1>2. op \in Ops /\ open' = [open EXCEPT ![w] = TRUE]
    BY DEF Ops, Op, HandleAccept
  <1>3. /\ remaining' = [remaining EXCEPT ![w] = Limit]
        /\ age' = [age EXCEPT ![w] = 0]
        /\ waits' = [waits EXCEPT ![w] = 0]
        /\ due' = [due EXCEPT ![w] = due[w] + waits[w]]
    BY DEF HandleAccept, ExpiresAfterLimit
  <1>4. Limit \in 0..Never /\ 0 \in 0..Limit /\ due[w] + waits[w] \in Nat
    BY NetHttpAssumption, WorkerState DEF Never
  <1>5. Ledger(w, op, TRUE, Limit, 0) /\ 0 + (due[w] + waits[w]) = 1
    BY NetHttpAssumption, WorkerState DEF Ledger, Op
  <1> HIDE DEF op
  <1> QED BY <1>1, <1>2, <1>3, <1>4, <1>5, OneWorkerSteps

LEMMA HandleReadHttp ==
    ASSUME HttpInv, NEW w \in Workers, HandleRead(w, 1)
    PROVE  HttpInv'
  <1>1. UNCHANGED <<open, remaining, waits, due, age>>
    BY DEF HandleRead, timerVars
  <1>2. CASE HasRoom(pool[w], ReplyFields)
    <2> DEFINE op == Op("write", IF open[w] THEN "pending" ELSE "failed")
    <2>1. ops' = [ops EXCEPT ![w] = <<op>>]
      <3>1. Append(<<>>, op) = <<op>>
        OBVIOUS
      <3> QED BY <1>2, <3>1, OneOperation DEF HandleRead
    <2>2. op \in Ops
      BY DEF Ops, Op
    <2>3. ops[w][1] = Op("read", "ok")
      BY DEF HandleRead, Ready
    <2>4. Ledger(w, op, open[w], remaining[w], age[w])
      BY <2>3, WorkerState DEF Ledger, Op
    <2>5. /\ open' = [open EXCEPT ![w] = open[w]]
          /\ remaining' = [remaining EXCEPT ![w] = remaining[w]]
          /\ waits' = [waits EXCEPT ![w] = waits[w]]
          /\ due' = [due EXCEPT ![w] = due[w]]
          /\ age' = [age EXCEPT ![w] = age[w]]
      BY <1>1, Same
    <2> HIDE DEF op
    <2> QED BY <2>1, <2>2, <2>4, <2>5, WorkerState, OneWorkerSteps
  <1>3. CASE ~HasRoom(pool[w], ReplyFields)
    <2>1. UNCHANGED ops
      BY <1>3 DEF HandleRead
    <2> QED BY <1>1, <2>1 DEF HttpInv, HttpTypeOK, WorkerLedger
  <1> QED BY <1>2, <1>3

LEMMA ExpiredHttp ==
    ASSUME HttpInv, NEW w \in Workers, Expired(w)
    PROVE  HttpInv'
  <1>1. UNCHANGED <<ops, open, remaining, age>>
    BY DEF Expired
  <1>2. waits' = [waits EXCEPT ![w] = 0] /\ due' = [due EXCEPT ![w] = due[w] + waits[w]]
    BY DEF Expired
  <1>3. due[w] + waits[w] \in Nat /\ 0 + (due[w] + waits[w]) = 1
    BY WorkerState
  <1>4. /\ ops' = [ops EXCEPT ![w] = <<ops[w][1]>>]
        /\ open' = [open EXCEPT ![w] = open[w]]
        /\ remaining' = [remaining EXCEPT ![w] = remaining[w]]
        /\ age' = [age EXCEPT ![w] = age[w]]
    BY <1>1, Same
  <1> QED BY ZenonT(30), <1>2, <1>3, <1>4, WorkerState, OneWorkerSteps

LEMMA CheckDeadlineHttp ==
    ASSUME HttpInv, NEW w \in Workers, CheckDeadline(w)
    PROVE  HttpInv'
  <1>1. due[w] = 1 /\ waits[w] = 0
    BY WorkerState DEF CheckDeadline
  <1>2. UNCHANGED age
    BY DEF CheckDeadline
  <1>3. CASE remaining[w] = 0
    <2> DEFINE op == IF ops[w][1].kind # "accept" /\ ops[w][1].result = "pending"
                     THEN Op(ops[w][1].kind, "failed") ELSE ops[w][1]
    <2>1. ops' = [ops EXCEPT ![w] = <<op>>]
      <3>1. ops' = [ops EXCEPT ![w] = Aborted(ops[w])]
        BY <1>3 DEF CheckDeadline
      <3>2. Aborted(ops[w]) = <<op>>
        BY OneOperation, AbortedOne
      <3> QED BY <3>1, <3>2
    <2>2. op \in Ops
      BY WorkerState DEF Ops, Op
    <2>3. /\ open' = [open EXCEPT ![w] = FALSE]
          /\ remaining' = [remaining EXCEPT ![w] = Never]
          /\ waits' = [waits EXCEPT ![w] = 1]
          /\ due' = [due EXCEPT ![w] = 0]
      BY <1>1, <1>3 DEF CheckDeadline
    <2>4. Never \in 0..Never /\ 0 \in Nat /\ 1 \in Nat /\ 1 + 0 = 1
      BY NetHttpAssumption DEF Never
    <2>5. Ledger(w, op, FALSE, Never, age[w])
      BY <1>3, WorkerState, NetHttpAssumption DEF Ledger, Op
    <2>6. age' = [age EXCEPT ![w] = age[w]]
      BY <1>2, Same
    <2> HIDE DEF op
    <2> QED BY <2>1, <2>2, <2>3, <2>4, <2>5, <2>6, WorkerState, OneWorkerSteps
  <1>4. CASE remaining[w] # 0
    <2>1. /\ UNCHANGED <<open, ops, remaining>>
          /\ due' = [due EXCEPT ![w] = due[w] - 1]
          /\ waits' = [waits EXCEPT ![w] = waits[w] + 1]
      BY <1>4 DEF CheckDeadline
    <2>2. due' = [due EXCEPT ![w] = 0] /\ waits' = [waits EXCEPT ![w] = 1]
      BY <1>1, <2>1
    <2>3. /\ ops' = [ops EXCEPT ![w] = <<ops[w][1]>>]
          /\ open' = [open EXCEPT ![w] = open[w]]
          /\ remaining' = [remaining EXCEPT ![w] = remaining[w]]
          /\ age' = [age EXCEPT ![w] = age[w]]
      BY <1>2, <2>1, Same
    <2>4. /\ ops[w][1] \in Ops /\ open[w] \in BOOLEAN
          /\ remaining[w] \in 0..Never /\ age[w] \in 0..Limit
          /\ 1 \in Nat /\ 0 \in Nat /\ 1 + 0 = 1
          /\ Ledger(w, ops[w][1], open[w], remaining[w], age[w])
      BY WorkerState
    <2> QED BY <2>2, <2>3, <2>4, OneWorkerSteps
  <1> QED BY <1>3, <1>4

LEMMA TickHttp ==
    ASSUME HttpInv, Tick
    PROVE  HttpInv'
  <1>1. UNCHANGED <<ops, open, waits, due>>
    BY DEF Tick
  <1>2. ASSUME NEW w \in Workers
        PROVE  /\ remaining'[w] \in 0..Never /\ age'[w] \in 0..Limit
               /\ Ledger(w, ops[w][1], open[w], remaining'[w], age'[w])
    <2>1. remaining'[w] = IF remaining[w] \in {0, Never} THEN remaining[w]
                          ELSE remaining[w] - 1
      BY DEF Tick
    <2>2. age'[w] = IF age[w] < Limit THEN age[w] + 1 ELSE Limit
      BY DEF Tick
    <2> QED BY <2>1, <2>2, WorkerState, NetHttpAssumption DEF Ledger, Never
  <1>3. HttpTypeOK'
    <2>1. remaining' \in [Workers -> 0..Never] /\ age' \in [Workers -> 0..Limit]
      BY <1>2 DEF Tick
    <2> QED BY <1>1, <2>1 DEF HttpInv, HttpTypeOK
  <1>4. WorkerLedger'
    BY <1>1, <1>2 DEF HttpInv, WorkerLedger, Ledger
  <1> QED BY <1>3, <1>4 DEF HttpInv

\* What the invariant of the workers looks at.
LEMMA SameHttp ==
    ASSUME HttpInv, UNCHANGED <<ops, open, timerVars, age>>
    PROVE  HttpInv'
  BY DEF HttpInv, HttpTypeOK, WorkerLedger, timerVars

\* The steps of the account table, seen from below.
LEMMA RequestReads ==
    ASSUME NEW w \in Workers, NEW i, Request(w, i)
    PROVE  HandleRead(w, i) \/ HandleReadThrows(w, i)
  BY DEF Request, Register, Login, OtherRequest

LEMMA HandlerHttp ==
    ASSUME HttpInv, NEW w \in Workers, Handler(w, 1)
    PROVE  HttpInv'
  <1>1. CASE HandleAccept(w, 1)
    BY <1>1, HandleAcceptHttp
  <1>2. CASE HandleAcceptFailed(w, 1) \/ HandleReadFailed(w, 1)
    BY <1>2, AcceptHttp
  <1>3. CASE Request(w, 1)
    BY <1>3, RequestReads, HandleReadHttp, SameHttp DEF HandleReadThrows
  <1>4. CASE \E result \in {"ok", "failed"} : Answered(w, 1, result)
    BY <1>4, AcceptHttp DEF Answered
  <1> QED BY <1>1, <1>2, <1>3, <1>4 DEF Handler

LEMMA StepHttp ==
    ASSUME HttpInv, [Next]_vars
    PROVE  HttpInv'
  <1>1. CASE UNCHANGED vars
    BY <1>1, SameHttp DEF vars, httpVars
  <1>2. CASE Tick
    BY <1>2, TickHttp
  <1>3. ASSUME NEW w \in Workers, Timer(w)
        PROVE  HttpInv'
    BY <1>3, ExpiredHttp, CheckDeadlineHttp DEF Timer
  <1>4. ASSUME NEW w \in Workers, NEW i \in DOMAIN ops[w], Outside(w, i)
        PROVE  HttpInv'
    <2>1. CASE ClientStep(w, i)
      BY <2>1, ClientStepHttp
    <2>2. CASE Field(w, i)
      BY <2>2, SameHttp DEF Field
    <2> QED BY <1>4, <2>1, <2>2 DEF Outside
  <1>5. ASSUME NEW w \in Workers, NEW i \in DOMAIN ops[w], Handler(w, i)
        PROVE  HttpInv'
    <2>1. i = 1
      BY OneOperation
    <2> QED BY <1>5, <2>1, HandlerHttp
  <1> QED BY <1>1, <1>2, <1>3, <1>4, <1>5 DEF Next, Dead

LEMMA InitHttp == Init => HttpInv
  <1> SUFFICES ASSUME Init PROVE HttpInv
    OBVIOUS
  <1> DEFINE op == Op("accept", "pending")
  <1>1. op \in Ops /\ op.kind = "accept"
    BY DEF Ops, Op
  <1>2. <<op>> \in Seq(Ops) /\ Len(<<op>>) = 1 /\ <<op>>[1] = op
    BY <1>1
  <1>3. ops = [w \in Workers |-> <<op>>]
    BY DEF Init, HttpInit
  <1> HIDE DEF op
  <1>4. HttpTypeOK
    BY <1>2, <1>3, NetHttpAssumption DEF HttpTypeOK, Init, HttpInit, Never
  <1>5. WorkerLedger
    BY <1>1, <1>2, <1>3 DEF WorkerLedger, Init, HttpInit
  <1> QED BY <1>4, <1>5 DEF HttpInv

-----------------------------------------------------------------------------
(* The invariant of the pools.                                             *)

\* What the pool of a worker holds by what the worker is doing.
Fits(p, req, resp, kind) ==
    /\ resp = IF kind = "write" THEN ReplyFields ELSE 0
    /\ p.count = req + resp
    /\ p.count = 0 => p.used = 0
    /\ kind # "accept" => p.used = req + resp

\* The pool of one worker under the invariant.
LEMMA PoolState ==
    ASSUME PoolInv, NEW w \in Workers
    PROVE  /\ pool[w] \in Pools /\ request[w] \in Nat /\ response[w] \in Nat
           /\ Fits(pool[w], request[w], response[w], ops[w][1].kind)
  BY DEF PoolInv, PoolTypeOK, PoolLedger, PoolOfOneRequest, Fits

\* A step after which the pool of one worker fits what that worker does, and which
\* leaves the other workers alone, keeps the invariant.
LEMMA OneWorkerPools ==
    ASSUME PoolInv, NEW w \in Workers,
           NEW p \in Pools, NEW req \in Nat, NEW resp \in Nat,
           pool' = [pool EXCEPT ![w] = p],
           request' = [request EXCEPT ![w] = req],
           response' = [response EXCEPT ![w] = resp],
           \A v \in Workers : v # w => ops'[v] = ops[v],
           Fits(p, req, resp, ops'[w][1].kind)
    PROVE  PoolInv'
  <1>1. PoolTypeOK'
    BY DEF PoolInv, PoolTypeOK
  <1>2. ASSUME NEW v \in Workers
        PROVE  Fits(pool'[v], request'[v], response'[v], ops'[v][1].kind)
    <2>1. CASE v = w
      BY <2>1 DEF PoolInv, PoolTypeOK
    <2>2. CASE v # w
      <3>1. /\ pool'[v] = pool[v] /\ request'[v] = request[v]
            /\ response'[v] = response[v] /\ ops'[v] = ops[v]
        BY <2>2 DEF PoolInv, PoolTypeOK
      <3> QED BY <3>1, PoolState
    <2> QED BY <2>1, <2>2
  <1>3. PoolLedger' /\ PoolOfOneRequest'
    BY <1>2 DEF PoolLedger, PoolOfOneRequest, Fits
  <1> QED BY <1>1, <1>3 DEF PoolInv

\* A step that leaves the pools alone, and every worker at what it is doing.
LEMMA SamePools ==
    ASSUME PoolInv, UNCHANGED poolVars,
           \A v \in Workers : ops'[v][1].kind = ops[v][1].kind
    PROVE  PoolInv'
  BY DEF PoolInv, PoolTypeOK, PoolLedger, PoolOfOneRequest, poolVars

\* Nothing changes the operations of a worker but its own steps.
LEMMA OthersKeepOps ==
    ASSUME HttpInv, NEW w \in Workers, NEW s, ops' = [ops EXCEPT ![w] = s]
    PROVE  ops'[w] = s /\ \A v \in Workers : v # w => ops'[v] = ops[v]
  BY DEF HttpInv, HttpTypeOK

LEMMA ClientStepPool ==
    ASSUME HttpInv, PoolInv, NEW w \in Workers, NEW i \in DOMAIN ops[w], ClientStep(w, i)
    PROVE  PoolInv'
  <1>1. PICK kind \in {"accept", "read", "write"}, result \in {"ok", "failed"} :
            Done(w, i, kind, result)
    BY DEF ClientStep
  <1>2. i = 1
    BY OneOperation
  <1>3. ops[w][1].kind = kind
    BY <1>1, <1>2 DEF Done, Pending, Op
  <1>4. ops' = [ops EXCEPT ![w] = [ops[w] EXCEPT ![1] = Op(kind, result)]]
    BY <1>1, <1>2 DEF Done
  <1>5. [ops[w] EXCEPT ![1] = Op(kind, result)][1] = Op(kind, result)
    BY OneOperation
  <1>6. \A v \in Workers : ops'[v][1].kind = ops[v][1].kind
    BY <1>3, <1>4, <1>5, OthersKeepOps DEF Op
  <1>7. UNCHANGED poolVars
    BY <1>1 DEF Done
  <1> QED BY <1>6, <1>7, SamePools

LEMMA FieldPool ==
    ASSUME HttpInv, PoolInv, NEW w \in Workers, NEW i \in DOMAIN ops[w], Field(w, i)
    PROVE  PoolInv'
  <1>1. ops[w][1].kind = "read" /\ UNCHANGED ops
    BY OneOperation DEF Field, Pending, Op
  <1>2. CASE HasRoom(pool[w], 1)
    <2> DEFINE p == Alloc(pool[w], 1)
               req == request[w] + 1
    <2>1. /\ pool' = [pool EXCEPT ![w] = p]
          /\ request' = [request EXCEPT ![w] = req]
      BY <1>2 DEF Field
    <2>2. p \in Pools /\ req \in Nat /\ Fits(p, req, response[w], ops'[w][1].kind)
      BY <1>1, PoolState DEF Alloc, Pools, Fits
    <2>3. response' = [response EXCEPT ![w] = response[w]]
      BY DEF Field, PoolInv, PoolTypeOK
    <2> HIDE DEF p, req
    <2> QED BY <1>1, <2>1, <2>2, <2>3, PoolState, OneWorkerPools
  <1>3. CASE ~HasRoom(pool[w], 1)
    BY <1>1, <1>3, SamePools DEF Field, poolVars
  <1> QED BY <1>2, <1>3

\* The parser of the last request is destroyed, and with it the last block.
LEMMA HandleAcceptPool ==
    ASSUME HttpInv, PoolInv, NEW w \in Workers, HandleAccept(w, 1)
    PROVE  PoolInv'
  <1> DEFINE p == Dealloc(pool[w], request[w])
  <1>1. ops[w][1].kind = "accept"
    BY DEF HandleAccept, Ready, Op
  <1>2. p \in Pools /\ p.count = 0 /\ p.used = 0 /\ response[w] = 0
    <2>1. /\ pool[w] \in Pools /\ request[w] \in Nat /\ response[w] = 0
          /\ pool[w].count = request[w] /\ (pool[w].count = 0 => pool[w].used = 0)
      BY <1>1, PoolState DEF Fits
    <2>2. CASE request[w] = 0
      <3>1. p = [pool[w] EXCEPT !.count = pool[w].count - request[w]]
        BY <2>2 DEF Dealloc
      <3> QED BY <2>1, <2>2, <3>1 DEF Pools
    <2>3. CASE request[w] > 0
      BY <2>1, <2>3 DEF Dealloc, EmptyPool, Pools
    <2> QED BY <2>1, <2>2, <2>3
  <1>3. ops' = [ops EXCEPT ![w] = <<Op("read", "pending")>>]
    <2>1. Append(<<>>, Op("read", "pending")) = <<Op("read", "pending")>>
      OBVIOUS
    <2> QED BY <2>1, OneOperation DEF HandleAccept
  <1>4. ops'[w][1].kind = "read" /\ \A v \in Workers : v # w => ops'[v] = ops[v]
    <2>1. /\ ops'[w] = <<Op("read", "pending")>>
          /\ \A v \in Workers : v # w => ops'[v] = ops[v]
      BY <1>3, OthersKeepOps
    <2> QED BY <2>1 DEF Op
  <1>5. /\ pool' = [pool EXCEPT ![w] = p] /\ request' = [request EXCEPT ![w] = 0]
        /\ response' = [response EXCEPT ![w] = 0]
    BY <1>2 DEF HandleAccept, PoolInv, PoolTypeOK
  <1>6. 0 \in Nat /\ Fits(p, 0, 0, ops'[w][1].kind)
    BY <1>2, <1>4 DEF Fits
  <1> HIDE DEF p
  <1> QED BY <1>2, <1>4, <1>5, <1>6, OneWorkerPools

\* An accept or a read that failed: the pool waits for the next request.
LEMMA FailedPool ==
    ASSUME HttpInv, PoolInv, NEW w \in Workers,
           HandleAcceptFailed(w, 1) \/ HandleReadFailed(w, 1)
    PROVE  PoolInv'
  <1>1. ops[w][1].kind # "write" /\ Accept(w, 1) /\ UNCHANGED <<pool, request, response>>
    BY DEF HandleAcceptFailed, HandleReadFailed, Ready, Op, poolVars
  <1>2. ops'[w][1].kind = "accept" /\ \A v \in Workers : v # w => ops'[v] = ops[v]
    BY <1>1, AcceptLeavesOne, OthersKeepOps DEF Op
  <1>3. Fits(pool[w], request[w], response[w], ops'[w][1].kind)
    BY <1>1, <1>2, PoolState DEF Fits
  <1>4. /\ pool' = [pool EXCEPT ![w] = pool[w]]
        /\ request' = [request EXCEPT ![w] = request[w]]
        /\ response' = [response EXCEPT ![w] = response[w]]
    BY <1>1 DEF PoolInv, PoolTypeOK
  <1> QED BY <1>2, <1>3, <1>4, PoolState, OneWorkerPools

LEMMA HandleReadPool ==
    ASSUME HttpInv, PoolInv, NEW w \in Workers, HandleRead(w, 1)
    PROVE  PoolInv'
  <1>1. ops[w][1].kind = "read"
    BY DEF HandleRead, Ready, Op
  <1>2. CASE HasRoom(pool[w], ReplyFields)
    <2> DEFINE p == Alloc(pool[w], ReplyFields)
               op == Op("write", IF open[w] THEN "pending" ELSE "failed")
    <2>1. p \in Pools /\ Fits(p, request[w], ReplyFields, "write")
      BY <1>1, PoolState, NetHttpAssumption DEF Alloc, Pools, Fits
    <2>2. ops' = [ops EXCEPT ![w] = <<op>>]
      <3>1. Append(<<>>, op) = <<op>>
        OBVIOUS
      <3> QED BY <1>2, <3>1, OneOperation DEF HandleRead
    <2>3. ops'[w][1].kind = "write" /\ \A v \in Workers : v # w => ops'[v] = ops[v]
      <3>1. op.kind = "write"
        BY DEF Op
      <3> HIDE DEF op
      <3>2. ops'[w] = <<op>> /\ \A v \in Workers : v # w => ops'[v] = ops[v]
        BY <2>2, OthersKeepOps
      <3> QED BY <3>1, <3>2
    <2>4. /\ pool' = [pool EXCEPT ![w] = p]
          /\ request' = [request EXCEPT ![w] = request[w]]
          /\ response' = [response EXCEPT ![w] = ReplyFields]
      BY <1>2 DEF HandleRead, PoolInv, PoolTypeOK
    <2>5. ReplyFields \in Nat
      BY NetHttpAssumption
    <2> HIDE DEF p, op
    <2> QED BY <2>1, <2>3, <2>4, <2>5, PoolState, OneWorkerPools
  <1>3. CASE ~HasRoom(pool[w], ReplyFields)
    BY <1>3, SamePools DEF HandleRead, poolVars
  <1> QED BY <1>2, <1>3

\* The response is freed; what is left are the blocks of the request.
LEMMA HandleWritePool ==
    ASSUME HttpInv, PoolInv, NEW w \in Workers, NEW result, HandleWrite(w, 1, result)
    PROVE  PoolInv'
  <1> DEFINE p == Dealloc(pool[w], response[w])
  <1>1. ops[w][1].kind = "write" /\ Accept(w, 1) /\ UNCHANGED request
    BY DEF HandleWrite, Ready, Op
  <1>2. p \in Pools /\ p.count = request[w] /\ (p.count = 0 => p.used = 0)
    <2>1. /\ pool[w] \in Pools /\ request[w] \in Nat /\ response[w] \in Nat \ {0}
          /\ pool[w].count = request[w] + response[w]
      BY <1>1, PoolState, NetHttpAssumption DEF Fits
    <2>2. CASE request[w] = 0
      BY <2>1, <2>2 DEF Dealloc, EmptyPool, Pools
    <2>3. CASE request[w] > 0
      <3>1. p = [pool[w] EXCEPT !.count = pool[w].count - response[w]]
        BY <2>1, <2>3 DEF Dealloc
      <3> QED BY <2>1, <2>3, <3>1 DEF Pools
    <2> QED BY <2>1, <2>2, <2>3
  <1>3. ops'[w][1].kind = "accept" /\ \A v \in Workers : v # w => ops'[v] = ops[v]
    BY <1>1, AcceptLeavesOne, OthersKeepOps DEF Op
  <1>4. /\ pool' = [pool EXCEPT ![w] = p]
        /\ request' = [request EXCEPT ![w] = request[w]]
        /\ response' = [response EXCEPT ![w] = 0]
    BY <1>1 DEF HandleWrite, PoolInv, PoolTypeOK
  <1>5. 0 \in Nat /\ Fits(p, request[w], 0, ops'[w][1].kind)
    BY <1>2, <1>3, PoolState DEF Fits
  <1> HIDE DEF p
  <1> QED BY <1>2, <1>3, <1>4, <1>5, PoolState, OneWorkerPools

\* close() fails an operation; it stays what it is.
LEMMA CheckDeadlinePool ==
    ASSUME HttpInv, PoolInv, NEW w \in Workers, CheckDeadline(w)
    PROVE  PoolInv'
  <1>1. UNCHANGED poolVars
    BY DEF CheckDeadline
  <1>2. CASE remaining[w] = 0
    <2>1. ops' = [ops EXCEPT ![w] = Aborted(ops[w])]
      BY <1>2 DEF CheckDeadline
    <2>2. Aborted(ops[w])[1].kind = ops[w][1].kind
      <3> DEFINE op == ops[w][1]
      <3>1. Aborted(<<op>>) = <<IF op.kind # "accept" /\ op.result = "pending"
                                THEN Op(op.kind, "failed") ELSE op>>
        BY OneOperation, AbortedOne
      <3>2. ops[w] = <<op>>
        BY OneOperation
      <3> HIDE DEF op
      <3>3. Aborted(<<op>>)[1].kind = op.kind
        BY <3>1 DEF Op
      <3> QED BY <3>2, <3>3 DEF op
    <2>3. \A v \in Workers : ops'[v][1].kind = ops[v][1].kind
      BY <2>1, <2>2, OthersKeepOps
    <2> QED BY <1>1, <2>3, SamePools
  <1>3. CASE remaining[w] # 0
    BY <1>1, <1>3, SamePools DEF CheckDeadline
  <1> QED BY <1>2, <1>3

LEMMA StepPool ==
    ASSUME HttpInv, PoolInv, [Next]_vars
    PROVE  PoolInv'
  <1>1. CASE UNCHANGED <<ops, poolVars>>
    BY <1>1, SamePools
  <1>2. CASE Tick \/ UNCHANGED vars
    BY <1>1, <1>2 DEF Tick, vars, httpVars
  <1>3. ASSUME NEW w \in Workers, Timer(w)
        PROVE  PoolInv'
    BY <1>1, <1>3, CheckDeadlinePool DEF Timer, Expired
  <1>4. ASSUME NEW w \in Workers, NEW i \in DOMAIN ops[w], Outside(w, i)
        PROVE  PoolInv'
    BY <1>4, ClientStepPool, FieldPool DEF Outside
  <1>5. ASSUME NEW w \in Workers, NEW i \in DOMAIN ops[w], Handler(w, i)
        PROVE  PoolInv'
    <2>1. i = 1
      BY OneOperation
    <2>2. CASE HandleAccept(w, 1)
      BY <2>2, HandleAcceptPool
    <2>3. CASE HandleAcceptFailed(w, 1) \/ HandleReadFailed(w, 1)
      BY <2>3, FailedPool
    <2>4. CASE Request(w, 1)
      BY <2>4, <1>1, RequestReads, HandleReadPool DEF HandleReadThrows
    <2>5. CASE \E result \in {"ok", "failed"} : Answered(w, 1, result)
      BY <2>5, HandleWritePool DEF Answered
    <2> QED BY <1>5, <2>1, <2>2, <2>3, <2>4, <2>5 DEF Handler
  <1> QED BY <1>2, <1>3, <1>4, <1>5 DEF Next, Dead

LEMMA InitPool == Init => PoolInv
  <1> SUFFICES ASSUME Init PROVE PoolInv
    OBVIOUS
  <1>1. EmptyPool \in Pools /\ EmptyPool.count = 0 /\ EmptyPool.used = 0
    BY DEF EmptyPool, Pools
  <1>2. \A w \in Workers : ops[w][1].kind = "accept"
    BY DEF Init, HttpInit, Op
  <1>3. PoolTypeOK
    BY <1>1 DEF PoolTypeOK, Init, HttpInit
  <1>4. PoolLedger /\ PoolOfOneRequest
    BY <1>1, <1>2 DEF PoolLedger, PoolOfOneRequest, Init, HttpInit
  <1> QED BY <1>3, <1>4 DEF PoolInv

-----------------------------------------------------------------------------
(* The invariant of the accounts.                                          *)

Granting(n) == {w \in Workers : reply[w] # Null /\ reply[w].path = "register"
                                /\ reply[w].nickname = n}

\* AnswersHold, part by part.
TrueWhileWritten == \A w \in Workers :
    reply[w] # Null => accounts[reply[w].nickname] = reply[w].password

GrantedOnce == \A n \in Nicknames : \A v, w \in Granting(n) : v = w

TrueWhenHeard == \A n \in Nicknames :
    told[n] # Null => accounts[n] = told[n] /\ Granting(n) = {}

LEMMA AnswersHoldParts == AnswersHold <=> TrueWhileWritten /\ GrantedOnce /\ TrueWhenHeard
  BY DEF AnswersHold, TrueWhileWritten, GrantedOnce, TrueWhenHeard, Granting

\* An answer that grants nothing takes nothing back.
LEMMA NoGrantAccounts ==
    ASSUME AccountInv, NEW w \in Workers, NEW r \in Grants \cup {Null},
           UNCHANGED <<accounts, told>>, reply' = [reply EXCEPT ![w] = r],
           r # Null => r.path = "login" /\ accounts[r.nickname] = r.password
    PROVE  AccountInv'
  <1>1. AccountTypeOK'
    BY DEF AccountInv, AccountTypeOK
  <1>2. \A v \in Workers : reply'[v] = IF v = w THEN r ELSE reply[v]
    BY DEF AccountInv, AccountTypeOK
  <1>3. TrueWhileWritten /\ GrantedOnce /\ TrueWhenHeard
    BY AnswersHoldParts DEF AccountInv
  <1>4. TrueWhileWritten'
    BY <1>2, <1>3 DEF TrueWhileWritten
  <1>5. ASSUME NEW n \in Nicknames
        PROVE  Granting(n)' \subseteq Granting(n)
    BY <1>2 DEF Granting
  <1>6. GrantedOnce' /\ TrueWhenHeard'
    BY <1>3, <1>5 DEF GrantedOnce, TrueWhenHeard
  <1>7. AnswersHold'
    BY <1>4, <1>6 DEF AnswersHold, TrueWhileWritten, GrantedOnce, TrueWhenHeard, Granting
  <1> QED BY <1>1, <1>7 DEF AccountInv

\* A nickname nobody has been granted is granted to the client that asks.
LEMMA GrantAccounts ==
    ASSUME AccountInv, NEW w \in Workers, NEW n \in Nicknames, NEW p \in Passwords,
           accounts[n] = Null, UNCHANGED told,
           accounts' = [accounts EXCEPT ![n] = p],
           reply' = [reply EXCEPT ![w] = Grant("register", n, p)]
    PROVE  AccountInv'
  <1> DEFINE r == Grant("register", n, p)
  <1>1. r \in Grants /\ r.path = "register" /\ r.nickname = n /\ r.password = p
    BY DEF Grant, Grants
  <1> HIDE DEF r
  <1>2. AccountTypeOK'
    BY <1>1 DEF AccountInv, AccountTypeOK, r
  <1>3. \A v \in Workers : reply'[v] = IF v = w THEN r ELSE reply[v]
    BY DEF AccountInv, AccountTypeOK, r
  <1>4. \A m \in Nicknames : accounts'[m] = IF m = n THEN p ELSE accounts[m]
    BY DEF AccountInv, AccountTypeOK
  <1>5. TrueWhileWritten /\ GrantedOnce /\ TrueWhenHeard
    BY AnswersHoldParts DEF AccountInv
  <1>6. ASSUME NEW v \in Workers, reply[v] # Null
        PROVE  reply[v].nickname \in Nicknames /\ reply[v].nickname # n
    <2>1. reply[v] \in Grants
      BY <1>6 DEF AccountInv, AccountTypeOK
    <2>2. reply[v].password \in Passwords /\ reply[v].nickname \in Nicknames
      BY <2>1 DEF Grants
    <2>3. accounts[reply[v].nickname] = reply[v].password
      BY <1>5, <1>6 DEF TrueWhileWritten
    <2> QED BY <2>2, <2>3, AccountAssumption
  <1>7. TrueWhileWritten'
    <2> SUFFICES ASSUME NEW v \in Workers, reply'[v] # Null
                 PROVE  accounts'[reply'[v].nickname] = reply'[v].password
      BY DEF TrueWhileWritten
    <2>1. CASE v = w
      BY <1>1, <1>3, <1>4, <2>1
    <2>2. CASE v # w
      BY <1>3, <1>4, <1>5, <1>6, <2>2 DEF TrueWhileWritten
    <2> QED BY <2>1, <2>2
  <1>8. Granting(n)' \subseteq {w}
    BY <1>3, <1>6 DEF Granting
  <1>9. \A m \in Nicknames : m # n => Granting(m)' \subseteq Granting(m)
    BY <1>1, <1>3 DEF Granting
  <1>10. GrantedOnce'
    BY <1>5, <1>8, <1>9 DEF GrantedOnce
  <1>11. TrueWhenHeard'
    <2>1. told[n] = Null
      BY <1>5, AccountAssumption DEF TrueWhenHeard
    <2> QED BY <1>4, <1>5, <1>9, <2>1 DEF TrueWhenHeard
  <1>12. AnswersHold'
    BY <1>7, <1>10, <1>11
       DEF AnswersHold, TrueWhileWritten, GrantedOnce, TrueWhenHeard, Granting
  <1> QED BY <1>2, <1>12 DEF AccountInv

\* The only grant of a nickname is heard, or lost.
LEMMA AnsweredAccounts ==
    ASSUME AccountInv, NEW w \in Workers, NEW result, Answered(w, 1, result)
    PROVE  AccountInv'
  <1> DEFINE heard == result = "ok" /\ reply[w] # Null /\ reply[w].path = "register"
  <1>1. /\ UNCHANGED accounts
        /\ reply' = [reply EXCEPT ![w] = Null]
        /\ told' = IF heard THEN [told EXCEPT ![reply[w].nickname] = reply[w].password]
                   ELSE told
    BY DEF Answered
  <1>2. CASE ~heard
    <2> QED BY <1>1, <1>2, NoGrantAccounts
  <1>3. CASE heard
    <2> DEFINE n == reply[w].nickname
               p == reply[w].password
    <2>1. n \in Nicknames /\ p \in Passwords
      BY <1>3 DEF AccountInv, AccountTypeOK, Grants
    <2>2. TrueWhileWritten /\ GrantedOnce /\ TrueWhenHeard
      BY AnswersHoldParts DEF AccountInv
    <2>3. w \in Granting(n)
      BY <1>3 DEF Granting
    <2>4. Granting(n) = {w}
      BY <2>1, <2>2, <2>3 DEF GrantedOnce
    <2>5. accounts[n] = p
      BY <1>3, <2>2 DEF TrueWhileWritten
    <2>6. told' = [told EXCEPT ![n] = p]
      BY <1>1, <1>3
    <2> HIDE DEF n, p
    <2>7. \A v \in Workers : reply'[v] = IF v = w THEN Null ELSE reply[v]
      BY <1>1 DEF AccountInv, AccountTypeOK
    <2>8. \A m \in Nicknames : told'[m] = IF m = n THEN p ELSE told[m]
      BY <2>6 DEF AccountInv, AccountTypeOK
    <2>9. \A m \in Nicknames : Granting(m)' \subseteq Granting(m) \ {w}
      BY <2>7 DEF Granting
    <2>10. AccountTypeOK'
      BY <1>1, <2>1, <2>6 DEF AccountInv, AccountTypeOK
    <2>11. TrueWhileWritten'
      BY <1>1, <2>2, <2>7 DEF TrueWhileWritten
    <2>12. GrantedOnce'
      BY <2>2, <2>9 DEF GrantedOnce
    <2>13. TrueWhenHeard'
      BY <1>1, <2>2, <2>4, <2>5, <2>8, <2>9 DEF TrueWhenHeard
    <2> QED BY <2>10, <2>11, <2>12, <2>13
            DEF AccountInv, AnswersHold, TrueWhileWritten, GrantedOnce, TrueWhenHeard, Granting
  <1> QED BY <1>2, <1>3

LEMMA RequestAccounts ==
    ASSUME AccountInv, NEW w \in Workers, NEW i, Request(w, i)
    PROVE  AccountInv'
  <1>1. ASSUME NEW n \in Nicknames, NEW p \in Passwords, Register(w, i, n, p)
        PROVE  AccountInv'
    <2>1. CASE accounts[n] = Null
      BY <1>1, <2>1, GrantAccounts DEF Register, Answer
    <2>2. CASE accounts[n] # Null
      BY <1>1, <2>2, NoGrantAccounts DEF Register, Answer
    <2> QED BY <2>1, <2>2
  <1>2. ASSUME NEW n \in Nicknames, NEW p \in Passwords, Login(w, i, n, p)
        PROVE  AccountInv'
    <2> DEFINE r == IF accounts[n] = p THEN Grant("login", n, p) ELSE Null
    <2>1. /\ r \in Grants \cup {Null}
          /\ r # Null => r.path = "login" /\ accounts[r.nickname] = r.password
      BY DEF Grant, Grants
    <2>2. UNCHANGED <<accounts, told>> /\ reply' = [reply EXCEPT ![w] = r]
      BY <1>2 DEF Login, Answer
    <2> HIDE DEF r
    <2> QED BY <2>1, <2>2, NoGrantAccounts
  <1>3. CASE OtherRequest(w, i)
    <2>1. CASE HandleRead(w, i) /\ Answer(w, Null) /\ UNCHANGED accounts
      BY <2>1, NoGrantAccounts DEF Answer
    <2>2. CASE HandleReadThrows(w, i) /\ UNCHANGED <<accounts, reply, told>>
      BY <2>2 DEF AccountInv, AccountTypeOK, AnswersHold
    <2> QED BY <1>3, <2>1, <2>2 DEF OtherRequest
  <1> QED BY <1>1, <1>2, <1>3 DEF Request

LEMMA StepAccounts ==
    ASSUME HttpInv, AccountInv, [Next]_vars
    PROVE  AccountInv'
  <1>1. CASE Quiet
    BY <1>1 DEF Quiet, AccountInv, AccountTypeOK, AnswersHold
  <1>2. ASSUME NEW w \in Workers, NEW i \in DOMAIN ops[w], Handler(w, i)
        PROVE  AccountInv'
    <2>1. i = 1
      BY OneOperation
    <2> QED BY <1>1, <1>2, <2>1, RequestAccounts, AnsweredAccounts DEF Handler
  <1>3. CASE UNCHANGED vars
    BY <1>1, <1>3 DEF vars, Quiet
  <1> QED BY <1>1, <1>2, <1>3 DEF Next, Dead, Outside, Timer

LEMMA InitAccounts == Init => AccountInv
  <1> SUFFICES ASSUME Init PROVE AccountInv
    OBVIOUS
  <1>1. AccountTypeOK
    BY DEF AccountTypeOK, Init
  <1>2. AnswersHold
    BY DEF AnswersHold, Init
  <1> QED BY <1>1, <1>2 DEF AccountInv

-----------------------------------------------------------------------------
(* The theorems.                                                           *)

\* The inductive invariant of the HTTP workers and the account table.
THEOREM AccountServerInvariant == Spec => [](HttpInv /\ PoolInv /\ AccountInv)
  <1>1. Init => HttpInv /\ PoolInv /\ AccountInv
    BY InitHttp, InitPool, InitAccounts
  <1>2. HttpInv /\ PoolInv /\ AccountInv /\ [Next]_vars => (HttpInv /\ PoolInv /\ AccountInv)'
    BY StepHttp, StepPool, StepAccounts
  <1> QED BY <1>1, <1>2, PTL DEF Spec

\* A worker always has one operation and one wait, is without a client only while it
\* accepts, and closes the socket of a client no sooner and by no other clock than
\* the deadline of that client (net_http.hpp:134-189, 362-380).
THEOREM WorkerLedgerCorrect == Spec => []WorkerLedger
  BY AccountServerInvariant, PTL DEF HttpInv

\* The pool of a worker never holds a block of an earlier request while it serves
\* one (net_http.hpp:173-176, 216-219, 236-237; fields_alloc.hpp:65-83).
THEOREM PoolOfOneRequestCorrect == Spec => []PoolOfOneRequest
  BY AccountServerInvariant, PTL DEF PoolInv

\* No two clients are granted the same nickname, and what a client was told of its
\* account stays true (0old/server/main.cpp:71-87, 114-134).
THEOREM AnswersHoldCorrect == Spec => []AnswersHold
  BY AccountServerInvariant, PTL DEF AccountInv
=============================================================================
