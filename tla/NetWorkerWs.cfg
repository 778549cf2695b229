\* A WebSocket server: close() cannot reach the stream it has moved the socket to.
SPECIFICATION Spec
CONSTANTS
    Pointers = {p1, p2, p3}
    NoPointer = NoPointer
    Bullets = 0
    Listens = TRUE
    Ws = TRUE
    Packets = {"ok", "bad"}
    Refused = {"bad"}
    Tails = {"part"}
    Abrupt = TRUE
    MaxBatch = 1
    MaxLives = 2
SYMMETRY SlotSymmetry
INVARIANT StreamIsCurrent
