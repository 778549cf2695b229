--------------------------- MODULE AccountServer ---------------------------
(***************************************************************************)
(* The account table of the old server program (0old/server/main.cpp) on   *)
(* the workers of NetHttp: what a request does and what is answered.       *)
(***************************************************************************)
EXTENDS NetHttp

CONSTANTS
    Nicknames,
    Passwords,
    Null        \* no password, no answer

ASSUME AccountAssumption == Null \notin Passwords

VARIABLES
    accounts,   \* the password of each registered nickname
    reply,      \* the answer a worker writes: what it grants, or Null
    told        \* history: the password with which a client was told it is registered

vars == <<httpVars, accounts, reply, told>>

Grant(path, n, p) == [path |-> path, nickname |-> n, password |-> p]

Init ==
    /\ HttpInit
    /\ accounts = [n \in Nicknames |-> Null]
    /\ reply = [w \in Workers |-> Null]
    /\ told = [n \in Nicknames |-> Null]

Answer(w, r) == reply' = [reply EXCEPT ![w] = r] /\ UNCHANGED told

\* Faulty variant, not part of the specification.
M_Register(w, i, n, p) ==
    /\ HandleRead(w, i)
    /\ accounts' = [accounts EXCEPT ![n] = p]
    /\ Answer(w, Grant("register", n, p))

\* /user/register-user.
Register(w, i, n, p) ==
    /\ HandleRead(w, i)
    /\ IF accounts[n] # Null
       THEN UNCHANGED accounts /\ Answer(w, Null)
       ELSE /\ accounts' = [accounts EXCEPT ![n] = p]
            /\ Answer(w, Grant("register", n, p))

\* /user/login-user.
Login(w, i, n, p) ==
    /\ HandleRead(w, i)
    /\ Answer(w, IF accounts[n] = p THEN Grant("login", n, p) ELSE Null)
    /\ UNCHANGED accounts

\* Another path, another method, or a body that is no account.  When the body is no
\* UTF-8 either, the parser's message quotes it, and dump() of that message throws.
OtherRequest(w, i) ==
    \/ HandleRead(w, i) /\ Answer(w, Null) /\ UNCHANGED accounts
    \/ HandleReadThrows(w, i) /\ UNCHANGED <<accounts, reply, told>>

\* Only an answer that was written is heard.
Answered(w, i, result) ==
    /\ HandleWrite(w, i, result)
    /\ reply' = [reply EXCEPT ![w] = Null]
    /\ told' = IF result = "ok" /\ reply[w] # Null /\ reply[w].path = "register"
               THEN [told EXCEPT ![reply[w].nickname] = reply[w].password]
               ELSE told
    /\ UNCHANGED accounts

Request(w, i) ==
    \/ \E n \in Nicknames, p \in Passwords : Register(w, i, n, p) \/ Login(w, i, n, p)
    \/ OtherRequest(w, i)

Quiet == UNCHANGED <<accounts, reply, told>>

\* What the thread of the workers does.
Handler(w, i) ==
    \/ (HandleAccept(w, i) \/ HandleAcceptFailed(w, i) \/ HandleReadFailed(w, i)) /\ Quiet
    \/ Request(w, i)
    \/ \E result \in {"ok", "failed"} : Answered(w, i, result)

Outside(w, i) == (ClientStep(w, i) \/ Field(w, i)) /\ Quiet

Timer(w) == (Expired(w) \/ CheckDeadline(w)) /\ Quiet

\* The program has ended.
Dead == died /\ UNCHANGED vars

Next ==
    \/ /\ ~died
       /\ \/ \E w \in Workers :
                \/ \E i \in DOMAIN ops[w] : Outside(w, i) \/ Handler(w, i)
                \/ Timer(w)
          \/ Tick /\ Quiet
    \/ Dead

\* Clients owe nothing.  Time passes, and the thread runs what is ready: the timer
\* of a worker, and the handler of its operation.
Fairness ==
    /\ WF_vars(~died /\ Tick /\ Quiet)
    /\ \A w \in Workers :
          /\ WF_vars(~died /\ Timer(w))
          /\ WF_vars(~died /\ \E i \in DOMAIN ops[w] : Handler(w, i))

Spec == Init /\ [][Next]_vars /\ Fairness
-----------------------------------------------------------------------------
\* A nickname is granted once, to one client, and from then on its password is the
\* one that client chose: an answer that is still being written stays true, and so
\* does one that was heard (0old/server/main.cpp:71-87, 114-134).
AnswersHold ==
    /\ \A w \in Workers :
          reply[w] # Null => accounts[reply[w].nickname] = reply[w].password
    /\ \A n \in Nicknames :
          LET granting == {w \in Workers : reply[w] # Null /\ reply[w].path = "register"
                                           /\ reply[w].nickname = n}
          IN  /\ \A v, w \in granting : v = w
              /\ told[n] # Null => accounts[n] = told[n] /\ granting = {}
=============================================================================
