\* A TCP server whose clients send nothing it refuses and leave only between
\* packets, though reads may cut a packet anywhere, within its header too.
SPECIFICATION Spec
CONSTANTS
    Pointers = {p1, p2, p3}
    NoPointer = NoPointer
    Bullets = 0
    Listens = TRUE
    Ws = FALSE
    Packets = {"ok", "bad"}
    Refused = {"bad"}
    Tails = {"stub", "part"}
    Abrupt = FALSE
    MaxBatch = 2
    MaxLives = 2
SYMMETRY SlotSymmetry
INVARIANTS NoMixing
