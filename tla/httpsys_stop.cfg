SPECIFICATION Spec
CONSTANTS
    q1 = q1
    q2 = q2
    Requests = {q1, q2}
    Plain = {q1, q2}
    MaxChunks = 1
INVARIANTS
    StopDrains
CHECK_DEADLOCK FALSE
