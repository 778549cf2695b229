\* The client program: one outward link, no accept chain, a spare slot.  No
\* symmetry, for the liveness properties.
SPECIFICATION FairSpec
CONSTANTS
    Pointers = {p1, p2}
    NoPointer = NoPointer
    Bullets = 1
    Listens = FALSE
    Ws = FALSE
    Packets = {"ok", "bad"}
    Refused = {"bad"}
    Tails = {"stub", "part"}
    Abrupt = TRUE
    MaxBatch = 2
    MaxLives = 3
PROPERTIES ConnectsFreshSocket RetriesForever GoneIsNoticed
