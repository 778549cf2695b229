\* Two connections, one chain of accepts, two socket threads, one worker.
SPECIFICATION Spec
CONSTANTS
    Null = Null
    Sessions <- TwoConnections
    Messages <- AllMessages
    Workers = {w1}
    Threads = 2
    Chains = {a1}
    MaxClients = 2
    MaxData = 1
INVARIANTS SlotLedger OneReader AllOfThisClient HeardInOrder
