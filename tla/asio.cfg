SPECIFICATION AsioSpec
CONSTANTS
    c1 = c1
    c2 = c2
    a = a
    b = b
    Conns = {c1, c2}
    MaxRequests = 2
    Setups <- MCSetups
    Listeners = {a, b}
INVARIANTS
    AsioTypeOK
    ConnectionsSound
    AnswersSound
    ListenersServed
PROPERTIES
    ApiReturns
CHECK_DEADLOCK FALSE
