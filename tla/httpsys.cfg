SPECIFICATION Spec
CONSTANTS
    q1 = q1
    q2 = q2
    Requests = {q1, q2}
    Plain = {q2}
    MaxChunks = 1
INVARIANTS
    TypeOK
    ContextSound
PROPERTIES
    ImplementsService
CHECK_DEADLOCK FALSE
