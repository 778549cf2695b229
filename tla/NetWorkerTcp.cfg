\* A TCP server whose clients may send anything and leave at any moment.
SPECIFICATION Spec
CONSTANTS
    Pointers = {p1, p2, p3}
    NoPointer = NoPointer
    Bullets = 0
    Listens = TRUE
    Ws = FALSE
    Packets = {"ok", "bad"}
    Refused = {"bad"}
    Tails = {"stub"}
    Abrupt = TRUE
    MaxBatch = 1
    MaxLives = 2
SYMMETRY SlotSymmetry
INVARIANTS TypeOK OneContinuation AcceptChain PoolLedger ReleasedSlot
PROPERTY JamIsForever
