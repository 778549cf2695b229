\* Two workers, one nickname, two passwords; a request of one field and its answer
\* fit the pool, one of two does without its answer, one of three does not.
SPECIFICATION Spec
CONSTANTS
    Null = Null
    Workers = {w1, w2}
    Nicknames = {n1}
    Passwords = {p1, p2}
    Limit = 1
    PoolSize = 3
    MaxFields = 3
    ReplyFields = 1
INVARIANTS WorkerLedger PoolOfOneRequest AnswersHold
PROPERTIES RequestEnds
