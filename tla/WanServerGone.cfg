\* Two slots, no symmetry: what becomes of a client that leaves.
SPECIFICATION WanFairSpec
CONSTANTS
    Pointers = {p1, p2}
    NoPointer = NoPointer
    NoSession = NoSession
    Uids = {0, 1}
    Bullets = 0
    Listens = TRUE
    Ws = TRUE
    Packets <- EdgePackets
    Refused <- EdgeRefused
    Tails = {"stub"}
    Abrupt = TRUE
    MaxBatch = 1
    MaxLives = 2
PROPERTY LeaverGoesOffline
