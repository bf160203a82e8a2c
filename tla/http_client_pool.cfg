SPECIFICATION Spec
CONSTANTS
    N = 2
    Contexts = {c1, c2, c3}
    Conns = {k1, k2, k3}
    Clients <- MCClients
INVARIANT
    ClosedNotPooled
CHECK_DEADLOCK FALSE
