----------------------------- MODULE MCAsyncIO ------------------------------
(* Small instances, side by side, of the components that start an operation   *)
(* and go on when it completes: the server over HTTP.sys with one request     *)
(* that meets every failure, the websocket client, and a file.                *)
EXTENDS HttpSysServer, WebsocketClient, FileBuffer

CONSTANTS q1, m1, m2, m3, p1, p2, p3

VARIABLE which      \* the component that runs

allVars == <<which, vars, wsVars, fileVars>>

\* A user of a websocket who sends three messages, one who drops the client with
\* messages of every kind, one who also receives, and one who only receives.
WsUser(sent, kinds, receives, arrive, drops) ==
    [sends |-> sent, kinds |-> kinds, receives |-> receives, incoming |-> arrive,
     drops |-> drops]
MCWsWorlds ==
    {WsUser({m1, m2, m3}, {"ready"}, 0, 0, FALSE), WsUser({m1, m2}, Kinds, 0, 1, TRUE),
     WsUser({m1}, {"ready"}, 2, 2, TRUE), WsUser({}, {}, 3, 3, FALSE)}

\* Files of four characters that are read, by one or three, and files that are
\* written, on either platform.
Reading(platform) ==
    [platform |-> platform, use |-> "read", size |-> 4, counts |-> {1, 3}, fails |-> TRUE,
     calls |-> Kinds_Char \cup Kinds_Sync \cup {"getn", "seek", "size"}]
Writing(platform, use, fails) ==
    [platform |-> platform, use |-> use, size |-> 0, counts |-> {}, fails |-> fails, calls |-> {}]
MCFileWorlds ==
    {Reading(p) : p \in {"win32", "posix"}}
        \cup {Writing(p, u, f) : p \in {"win32", "posix"}, u \in {"write", "ate"}, f \in BOOLEAN}

-----------------------------------------------------------------------------
MCInit ==
    /\ Init /\ WsInit /\ FileInit
    /\ which \in {"server", "websocket", "file"}
    /\ which # "websocket" => wsWorld = WsUser({}, {}, 3, 3, FALSE)
    /\ which # "file" => file = Writing("win32", "write", FALSE)

MCNext ==
    \/ which = "server" /\ Next /\ UNCHANGED <<which, wsVars, fileVars>>
    \/ which = "websocket" /\ WsNext /\ UNCHANGED <<which, vars, fileVars>>
    \/ which = "file" /\ FileNext /\ UNCHANGED <<which, vars, wsVars>>

\* The fairness that the three modules state.
ServerOnly == which = "server" /\ UNCHANGED <<which, wsVars, fileVars>>
WsOnly == which = "websocket" /\ wsCrashed = "no" /\ UNCHANGED <<which, vars, fileVars>>
FileOnly == which = "file" /\ ~FileCrashed /\ UNCHANGED <<which, vars, wsVars>>

MCFairness ==
    /\ WF_allVars(ServerOnly /\ ReceiverStep) /\ WF_allVars(ServerOnly /\ CloserStep)
    /\ WF_allVars(ServerOnly /\ ~queueOpen /\ ReceiveFails)
    /\ \A q \in Requests :
        /\ WF_allVars(ServerOnly /\ DispatchStep(q)) /\ WF_allVars(ServerOnly /\ UserDrop(q))
        /\ WF_allVars(ServerOnly /\ ContextStep(q))
    /\ WF_allVars(WsOnly /\ PoolStep) /\ WF_allVars(WsOnly /\ Handshake)
    /\ WF_allVars(WsOnly /\ Deliver)
    /\ \A m \in Messages : WF_allVars(WsOnly /\ MessageStep(m))
    /\ WF_allVars(FileOnly /\ ReaderStep)
    /\ \A w \in Writes : WF_allVars(FileOnly /\ WriterStep(w))
MCSpec == MCInit /\ [][MCNext]_allVars /\ MCFairness

\* Every variable has its type.
AsyncTypeOK == TypeOK /\ WsTypeOK /\ FileTypeOK

\* WebsocketEnds and FileOpsEnd: what was begun on a websocket or a file ends, with
\* the exceptions stated there.
OperationsEnd == WebsocketEnds /\ FileOpsEnd
=============================================================================
