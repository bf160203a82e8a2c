SPECIFICATION MCSpec
CONSTANTS
    N = 2
    Contexts = {c1, c2, c3}
    Conns = {k1, k2, k3}
    Clients <- MCClients
    WinN = 2
    Pieces = 2
    Chunk = 2
    Worlds <- MCWorlds
INVARIANTS
    ClientsTypeOK
    PoolSound
    ExchangesSound
PROPERTIES
    FailureTold
    ClientsEnd
CHECK_DEADLOCK FALSE
