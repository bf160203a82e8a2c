SPECIFICATION MCSpec
CONSTANTS
    q1 = q1
    Requests = {q1}
    Plain = {}
    MaxChunks = 2
    m1 = m1
    m2 = m2
    m3 = m3
    Messages = {m1, m2, m3}
    Receives = 3
    MaxIncoming = 3
    WsWorlds <- MCWsWorlds
    p1 = p1
    p2 = p2
    p3 = p3
    PageSize = 2
    Writes = {p1, p2, p3}
    MaxOps = 4
    MaxQueued = 2
    FileWorlds <- MCFileWorlds
INVARIANTS
    AsyncTypeOK
    WebsocketSound
    FileBufferSound
PROPERTIES
    EverythingEnds
    OperationsEnd
CHECK_DEADLOCK FALSE
