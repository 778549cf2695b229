\* One link over two connections, bytes of one bit, a buffer that the largest packet
\* and the smallest fit in: a read may bring both, and what is left may be longer
\* than what was handled.
SPECIFICATION Spec
CONSTANTS
    Base = 2
    MinMem = 4
    Messages <- SomeMessages
    Accepts <- AcceptedPackets
    MaxRecv = 11
    MaxSent = 2
    MaxLives = 2
INVARIANTS TypeOK RoomToRead DeliveredInOrder CaughtUp
PROPERTY PacketsStandForBytes
