\* The game server, on WebSockets, whose clients enter, re-enter and leave in any order.
SPECIFICATION WanSpec
CONSTANTS
    Pointers = {p1, p2, p3}
    NoPointer = NoPointer
    NoSession = NoSession
    Uids = {0, 1, 2}
    Bullets = 0
    Listens = TRUE
    Ws = TRUE
    Packets <- LoginPackets
    Refused = {}
    Tails = {}
    Abrupt = TRUE
    MaxBatch = 1
    MaxLives = 2
SYMMETRY SlotSymmetry
INVARIANTS WanTypeOK SessionMatchesSlot NoNullSession PresenceLedger
PROPERTY OfflineByClose
