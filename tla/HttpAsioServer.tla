--------------------------- MODULE HttpAsioServer ---------------------------
(* The HTTP server of the SDK on other platforms, http_server_asio.cpp: the   *)
(* connections of one host and port, the requests that follow each other on a *)
(* connection, the dispatch to the request handlers, and start, stop,         *)
(* registration and its undoing, called by http_server_api under its lock.    *)
(*                                                                            *)
(* A connection has a chain of asynchronous reads and a chain of writes, on   *)
(* any threads of the pool, and the thread that dispatches a request may still *)
(* be in the handler when the next request of the connection is read into      *)
(* m_request.  m_refs says when the connection is deleted.                     *)
(*                                                                            *)
(* reply() throws if the request was replied to before; an exception that      *)
(* leaves a handler of asio ends the process, as does a use of what was        *)
(* destroyed.  The model ends there: see crashed.                              *)
EXTENDS Integers, FiniteSets

CONSTANTS
    Conns,
    Listeners,    \* each is opened once
    MaxRequests,  \* bound: the requests a client makes on a connection
    Setups        \* bound: what is opened, and what may happen

\* path[l]: of the URI of the listener l.  may[c]: what may happen on c.  I/O
\* "fails", also accepting, and a request that is not valid; a "body" of the request, a "stream"
\* for that of the response; a header or version "closes" the connection or keeps
\* it; the request handler "throws", or "keeps" the request to reply later.
Features == {"fails", "body", "stream", "closes", "throws", "keeps"}
Setup(s) ==
    /\ DOMAIN s.path = Listeners
    /\ s.opens \subseteq Listeners /\ s.may \in [Conns -> SUBSET Features]
    /\ s.limit \in [Conns -> 0..MaxRequests]

ASSUME AsioAssumption ==
    MaxRequests \in Nat /\ IsFiniteSet(Listeners) /\ \A s \in Setups : Setup(s)

VARIABLES
    setup,         \* one of Setups
    conn,          \* the connections
    request,       \* request[c][n]: the n-th request of a connection
    connections,   \* m_connections
    complete,      \* m_all_connections_complete is set
    host,          \* the hostport_listener
    registered,    \* m_registered_listeners
    started,       \* m_started
    registrations, \* s_registrations
    api,           \* who holds s_lock, and where it is
    listener,      \* listener[l]: what its user has made of it
    crashed        \* what ended the process: a second "reply", an escape in the
                   \* "target" of a request, a hostport_"listener" or a listener
                   \* that is "gone"

server == <<host, registered, started, registrations, api, listener>>
asioVars == <<setup, conn, request, connections, complete, server, crashed>>

-----------------------------------------------------------------------------
\* life: "accepted" until on_accept runs, and "stale" if its hostport_listener
\* is destroyed before.  current: the request in m_request, or 0 for one that
\* nobody sent.  made: how many there were.
Connection ==
    [life : {"none", "accepted", "stale", "live", "deleted"},
     open : BOOLEAN, close : BOOLEAN, refs : Nat, current : 0..(MaxRequests + 1),
     made : 0..(MaxRequests + 1), line : {"none", "reading", "ok", "eof", "failed"}]

\* to: the path.  thread: the one that dispatches it.  sender: the chain that
\* do_response begins.  kept: the handler keeps a copy, to reply later.
Request ==
    [to : {"elsewhere"} \cup UNION {{s.path[l] : l \in Listeners} : s \in Setups},
     target : Listeners \cup {"none"}, bad : BOOLEAN,
     reply : {"none", "user", "error", "missing", "bad", "closing"},
     body : {"none", "reading", "complete", "failed"},
     thread : {"none", "parse", "find", "found", "lock", "handler", "thrown", "end", "left", "done"},
     threw : BOOLEAN, kept : BOOLEAN,
     sender : {"none", "armed", "waiting", "headers", "stream", "chunk", "rest", "last", "done"},
     outcome : {"none", "sent", "aborted"}]

NoConnection ==
    [life |-> "none", open |-> TRUE, close |-> FALSE, refs |-> 0, current |-> 0,
     made |-> 0, line |-> "none"]
NoRequest ==
    [to |-> "elsewhere", target |-> "none", bad |-> FALSE, reply |-> "none",
     body |-> "none", thread |-> "none", threw |-> FALSE, kept |-> FALSE,
     sender |-> "none", outcome |-> "none"]
\* accepting: it has an acceptor; waiting: for a connection; deaf: no longer.
NoHost == [made |-> FALSE, accepting |-> FALSE, waiting |-> FALSE, deaf |-> FALSE, paths |-> {}]
Idle == [pc |-> "idle", of |-> "none"]
Steps == {"start", "register", "erase", "erased", "undo", "remove", "forget", "drain",
          "leave", "stop", "stopped"}

AsioInit ==
    /\ setup \in Setups
    /\ conn = [c \in Conns |-> NoConnection]
    /\ request = [c \in Conns |-> [n \in 1..(MaxRequests + 1) |-> NoRequest]]
    /\ connections = {} /\ complete = TRUE
    /\ host = NoHost /\ registered = {} /\ started = FALSE
    /\ registrations = 0
    /\ api = Idle
    /\ listener = [l \in Listeners |-> "new"]
    /\ crashed = "no"

-----------------------------------------------------------------------------
(* The pieces that several handlers share, on a connection k and its requests. *)

\* _reply_if_not_already()
ReplyIfNotAlready(x, what) == IF x.reply = "none" THEN [x EXCEPT !.reply = what] ELSE x

\* connection::close(): the operations on the socket fail, and m_request is
\* replied to.
Closed(k) ==
    [k EXCEPT !.close = TRUE, !.open = FALSE, !.line = IF @ = "reading" THEN "eof" ELSE @]
Answered(k, rs) ==
    IF k.current = 0 THEN rs
    ELSE [rs EXCEPT ![k.current] = ReplyIfNotAlready(@, "closing")]

\* if (--m_refs == 0) delete this
Unreferenced(k) ==
    [k EXCEPT !.refs = @ - 1, !.life = IF k.refs = 1 THEN "deleted" ELSE @]

\* start_request_response(): on a socket that is closed it fails at once, with
\* another error than an operation that close() aborts.
NextLine(k) == [k EXCEPT !.line = IF k.open THEN "reading" ELSE "failed"]

\* The connection goes on as k, with the requests rs.
Become(c, k, rs) ==
    /\ conn' = [conn EXCEPT ![c] = k]
    /\ request' = [request EXCEPT ![c] = rs]
    /\ UNCHANGED <<setup, connections, complete, server, crashed>>

Change(c, n, x) == Become(c, conn[c], [request[c] EXCEPT ![n] = x])

\* finish_request_response()
Finish(c, k, rs) ==
    /\ connections' = connections \ {c}
    /\ complete' = (complete \/ connections' = {})
    /\ conn' = [conn EXCEPT ![c] = Unreferenced(Closed(k))]
    /\ request' = [request EXCEPT ![c] = Answered(k, rs)]
    /\ UNCHANGED <<setup, server, crashed>>

Crash(why) ==
    /\ crashed' = why
    /\ UNCHANGED <<setup, conn, request, connections, complete, server>>

\* Mutants, here and below, are plausible mistakes in the definition that
\* follows them; PROJECT.json pairs each with the property that detects it.
DoResponse_Unreferenced(k) == k

\* do_response()
DoResponse(k) == [k EXCEPT !.refs = @ + 1]

May(c, what) == what \in setup.may[c]

-----------------------------------------------------------------------------
(* hostport_listener::on_accept, and the request line.                        *)

Accept(c) ==
    /\ host.waiting /\ conn[c].life = "none"
    /\ host' = [host EXCEPT !.waiting = FALSE]
    /\ conn' = [conn EXCEPT ![c].life = "accepted"]
    /\ UNCHANGED <<setup, request, connections, complete, registered, started, registrations,
                   api, listener, crashed>>

\* A mutant: another one is not awaited.
OnAccept_Once(c) ==
    /\ conn[c].life = "accepted"
    /\ conn' = [conn EXCEPT ![c].life = "live", ![c].refs = 1, ![c].line = "reading"]
    /\ connections' = connections \cup {c}
    /\ complete' = FALSE
    /\ UNCHANGED <<setup, request, server, crashed>>

OnAccept(c) ==
    \/ conn[c].life = "stale" /\ Crash("listener")
    \/ /\ conn[c].life = "accepted"
       /\ conn' = [conn EXCEPT ![c].life = "live", ![c].refs = 1, ![c].line = "reading"]
       /\ connections' = connections \cup {c}
       /\ complete' = FALSE
       /\ host' = [host EXCEPT !.waiting = host.accepting, !.deaf = FALSE]
       /\ UNCHANGED <<setup, request, registered, started, registrations, api, listener, crashed>>

\* on_accept() with an error: nothing is awaited any more.
AcceptFails ==
    /\ host.waiting /\ \E c \in Conns : May(c, "fails")
    /\ host' = [host EXCEPT !.waiting = FALSE, !.deaf = TRUE]
    /\ UNCHANGED <<setup, conn, request, connections, complete, registered, started,
                   registrations, api, listener, crashed>>

\* The client sends a request, or closes the connection, or the read fails.
LineRead(c) ==
    /\ conn[c].line = "reading"
    /\ \/ /\ conn[c].made < setup.limit[c]
          /\ Become(c, [conn[c] EXCEPT !.line = "ok"], request[c])
       \/ Become(c, [conn[c] EXCEPT !.line = "eof"], request[c])
       \/ May(c, "fails") /\ Become(c, [conn[c] EXCEPT !.line = "failed"], request[c])

\* handle_http_line() begins with a new m_request.
HandleLine(c) ==
    LET k == [conn[c] EXCEPT !.line = "none"]
        n == k.made + 1
        next == [k EXCEPT !.current = n, !.made = n]
    IN  \/ conn[c].line = "eof" /\ Finish(c, [k EXCEPT !.current = 0], request[c])
        \/ conn[c].line = "failed"
           /\ Become(c, [DoResponse(next) EXCEPT !.close = TRUE],
                     [request[c] EXCEPT ![n].reply = "bad", ![n].bad = TRUE,
                                        ![n].sender = "armed"])
        \/ conn[c].line = "ok"
           /\ Become(c, next, [request[c] EXCEPT ![n].thread = "parse"])

\* A mutant: the reference is given back as after a dispatch.
Refuse_Dereferences(c, n) ==
    Become(c, [conn[c] EXCEPT !.close = TRUE],
           [request[c] EXCEPT ![n].reply = "bad", ![n].bad = TRUE, ![n].sender = "armed",
                              ![n].thread = "end"])

\* The line or a header is not valid.  Nobody gives back the reference of the
\* connection that dispatch_request_to_listener would have.
Refuse(c, n) ==
    Become(c, [DoResponse(conn[c]) EXCEPT !.close = TRUE],
           [request[c] EXCEPT ![n].reply = "bad", ![n].bad = TRUE, ![n].sender = "armed",
                              ![n].thread = "done"])

\* The rest of handle_http_line(), and handle_headers(): HTTP/1.0 and the header
\* Connection set m_close, also back to false.
Parse(c, n) ==
    LET x == request[c][n] IN
    /\ x.thread = "parse"
    /\ \/ /\ May(c, "fails")
          /\ IF x.reply = "none" THEN Refuse(c, n) ELSE Crash("reply")
       \/ \E to \in {setup.path[l] : l \in Listeners} \cup {"elsewhere"}, body \in {FALSE, May(c, "body")},
             close \in {conn[c].close} \cup (IF May(c, "closes") THEN BOOLEAN ELSE {}) :
            Become(c, [conn[c] EXCEPT !.close = close],
                   [request[c] EXCEPT ![n] = [x EXCEPT
                        !.to = to, !.thread = "find",
                        !.body = IF ~body THEN "complete"
                                 ELSE IF conn[c].open THEN "reading" ELSE "failed"]])

\* handle_body() and the chunked handlers, up to the end of the body.
BodyRead(c, n) ==
    /\ request[c][n].body = "reading"
    /\ \E end \in IF conn[c].open THEN {"complete", "failed"} ELSE {"failed"} :
        Change(c, n, [request[c][n] EXCEPT !.body = end])

-----------------------------------------------------------------------------
(* dispatch_request_to_listener                                               *)

\* The listeners are looked up by path; uri::decode() throws for a bad escape.
Find(c, n) ==
    LET x == request[c][n]
        found == {l \in host.paths : setup.path[l] = x.to}
    IN  /\ x.thread = "find"
        /\ \/ \E l \in found : Change(c, n, [x EXCEPT !.thread = "found", !.target = l])
           \/ /\ found = {} /\ x.reply = "none"
              /\ Become(c, DoResponse(conn[c]), [request[c] EXCEPT ![n] = [x EXCEPT
                    !.thread = "end", !.reply = "missing", !.sender = "armed"]])
           \/ found = {} /\ x.reply # "none" /\ Crash("reply")
           \/ May(c, "fails") /\ Crash("target")

\* close() of the listener has returned: its user may have destroyed it.
Gone(l) == listener[l] = "closed" /\ api.of # l

\* The path of the listener is read, without a lock; the response is awaited
\* from here on.
Name(c, n) ==
    LET x == request[c][n] IN
    /\ x.thread = "found"
    /\ \/ Become(c, DoResponse(conn[c]),
                  [request[c] EXCEPT ![n] = [x EXCEPT !.thread = "lock", !.sender = "armed"]])
       \/ Gone(x.target) /\ Crash("gone")

\* A mutant: the listener found by its path is called, registered or not.
Lock_Unregistered(c, n) ==
    LET x == request[c][n] IN
    /\ x.thread = "lock" /\ api.pc \notin {"erase", "erased"}
    /\ Change(c, n, [x EXCEPT !.thread = "handler"])

\* The lock of the listener is taken under the one of the server, which a
\* registration holds.  A listener that has gone gets no request, and the
\* reference of the connection is not given back.
Lock(c, n) ==
    LET x == request[c][n] IN
    /\ x.thread = "lock" /\ api.pc \notin {"erase", "erased"}
    /\ \/ x.target \in registered /\ Change(c, n, [x EXCEPT !.thread = "handler"])
       \/ /\ x.target \notin registered /\ x.reply = "none"
          /\ Change(c, n, [x EXCEPT !.thread = "left", !.reply = "missing"])
       \/ x.target \notin registered /\ x.reply # "none" /\ Crash("reply")

\* The handler of the user.
HandlerReply(c, n) ==
    /\ request[c][n].thread = "handler" /\ request[c][n].reply = "none"
    /\ Change(c, n, [request[c][n] EXCEPT !.reply = "user"])
HandlerKeep(c, n) ==
    /\ request[c][n].thread = "handler" /\ ~request[c][n].kept
    /\ Change(c, n, [request[c][n] EXCEPT !.kept = TRUE])
HandlerReturn(c, n) ==
    /\ request[c][n].thread = "handler"
    /\ Change(c, n, [request[c][n] EXCEPT !.thread = "end"])
HandlerThrow(c, n) ==
    /\ request[c][n].thread = "handler"
    /\ Change(c, n, [request[c][n] EXCEPT !.thread = "thrown", !.threw = TRUE])
UserReply(c, n) ==
    /\ request[c][n].kept /\ request[c][n].thread # "handler"
    /\ Change(c, n, [ReplyIfNotAlready(request[c][n], "user") EXCEPT !.kept = FALSE])

\* The exception is answered in the name of the request in m_request by now.
AnswerThrow(c, n) ==
    /\ request[c][n].thread = "thrown"
    /\ LET rs == [request[c] EXCEPT ![n].thread = "end"]
           m == conn[c].current
       IN  Become(c, conn[c],
                  IF m = 0 THEN rs ELSE [rs EXCEPT ![m] = ReplyIfNotAlready(@, "error")])

EndDispatch(c, n) ==
    /\ request[c][n].thread = "end"
    /\ Become(c, Unreferenced(conn[c]), [request[c] EXCEPT ![n].thread = "done"])

-----------------------------------------------------------------------------
(* The response: do_response() and what follows.                              *)

\* A mutant: the content of the request is not awaited.
ResponseSet_AtOnce(c, n) ==
    LET x == request[c][n] IN
    /\ x.sender = "armed" /\ x.reply # "none"
    /\ Change(c, n, [x EXCEPT !.sender = "headers"])

\* The continuation of get_response().
ResponseSet(c, n) ==
    LET x == request[c][n] IN
    /\ x.sender = "armed" /\ x.reply # "none"
    /\ Change(c, n, [x EXCEPT !.sender = IF x.bad THEN "headers" ELSE "waiting"])

\* The continuation of content_ready(); the response may ask to close.
ContentReady(c, n) ==
    LET x == request[c][n] IN
    /\ x.sender = "waiting" /\ x.body \in {"complete", "failed"}
    /\ \E close \in {conn[c].close} \cup (IF May(c, "closes") THEN {TRUE} ELSE {}) :
        Become(c, [conn[c] EXCEPT !.close = close],
               [request[c] EXCEPT ![n].sender = "headers"])

\* A mutant: the connection stays among those of the server.
Cancel_KeepsConnection(c, n) ==
    Become(c, Unreferenced(conn[c]),
           [request[c] EXCEPT ![n].sender = "done", ![n].outcome = "aborted"])

\* cancel_sending_response_with_error()
Cancel(c, n) ==
    Finish(c, conn[c], [request[c] EXCEPT ![n].sender = "done", ![n].outcome = "aborted"])

\* handle_response_written() of a response that was written.
Written(c, n) ==
    LET rs == [request[c] EXCEPT ![n].sender = "done", ![n].outcome = "sent"] IN
    IF conn[c].close THEN Finish(c, conn[c], rs) ELSE Become(c, NextLine(conn[c]), rs)

\* The body of a response comes in one piece, and the end of one that is chunked
\* is read and written once more.
Writes(c, n) ==
    LET go(to) == Change(c, n, [request[c][n] EXCEPT !.sender = to])
        at(where) == request[c][n].sender = where
    IN  \/ at("headers") /\ Written(c, n)
        \/ at("headers") /\ May(c, "stream") /\ go("stream")
        \/ at("chunk") /\ (Written(c, n) \/ go("rest"))
        \/ at("last") /\ Written(c, n)

Send(c, n) ==
    LET x == request[c][n] IN
    \/ x.sender \in {"headers", "chunk", "last"} /\ conn[c].open /\ Writes(c, n)
    \/ /\ x.sender \in {"headers", "chunk", "last"}
       /\ ~conn[c].open \/ May(c, "fails")
       /\ Cancel(c, n)
    \/ x.sender = "stream" /\ Change(c, n, [x EXCEPT !.sender = "chunk"])
    \/ x.sender = "rest" /\ Change(c, n, [x EXCEPT !.sender = "last"])
    \/ x.sender \in {"stream", "rest"} /\ Cancel(c, n)

-----------------------------------------------------------------------------
(* http_server_api, under s_lock, and http_linux_server.                      *)

Goto(pc) == api' = [api EXCEPT !.pc = pc]
Same == UNCHANGED <<setup, conn, request, connections, complete, crashed>>

\* hostport_listener::start(): a name that does not resolve, or a port that is
\* taken, throws.
Accepting ==
    [host EXCEPT !.made = TRUE, !.accepting = TRUE, !.waiting = TRUE, !.deaf = FALSE]

OpenListener(l) ==
    /\ api = Idle /\ listener[l] = "new" /\ l \in setup.opens
    /\ registrations' = registrations + 1
    /\ api' = [pc |-> IF registrations = 0 THEN "start" ELSE "register", of |-> l]
    /\ Same /\ UNCHANGED <<host, registered, started, listener>>

\* http_linux_server::start()
Start ==
    /\ api.pc = "start"
    /\ \/ host.made /\ Goto("undo") /\ UNCHANGED <<host, started>>
       \/ /\ Goto("register") /\ started' = TRUE
          /\ host' = IF host.made THEN Accepting ELSE host
    /\ Same /\ UNCHANGED <<registered, registrations, listener>>

\* register_listener().  Whatever fails, the hostport_listener goes, also if it
\* was there before and has other listeners.
Register ==
    LET l == api.of
        taken == \E m \in host.paths : setup.path[m] = setup.path[l]
    IN  /\ api.pc = "register"
        /\ \/ /\ ~host.made /\ started
              /\ Goto("undo") /\ UNCHANGED <<host, registered, listener>>
           \/ /\ taken
              /\ Goto("erase") /\ UNCHANGED <<host, registered, listener>>
           \/ /\ ~taken
              /\ host' = [(IF host.made \/ ~started THEN host ELSE Accepting)
                          EXCEPT !.made = TRUE, !.paths = @ \cup {l}]
              /\ registered' = registered \cup {l}
              /\ listener' = [listener EXCEPT ![l] = "open"]
              /\ api' = Idle
        /\ Same /\ UNCHANGED <<started, registrations>>

\* The first half of hostport_listener::stop(), under the lock of m_connections.
Halted(pc) ==
    /\ host' = [host EXCEPT !.accepting = FALSE, !.waiting = FALSE]
    /\ conn' = [c \in Conns |-> IF c \in connections THEN Closed(conn[c]) ELSE conn[c]]
    /\ request' = [c \in Conns |->
            IF c \in connections THEN Answered(conn[c], request[c]) ELSE request[c]]
    /\ Goto(pc)

Erase ==
    /\ api.pc = "erase"
    /\ Halted("erased")
    /\ UNCHANGED <<setup, connections, complete, registered, started, registrations, listener,
                   crashed>>

\* The destructor waits too, and destroys.
Erased ==
    /\ api.pc = "erased" /\ complete
    /\ host' = NoHost
    /\ conn' = [c \in Conns |->
            IF conn[c].life = "accepted" THEN [conn[c] EXCEPT !.life = "stale"] ELSE conn[c]]
    /\ Goto("undo")
    /\ UNCHANGED <<setup, request, connections, complete, registered, started, registrations,
                   listener, crashed>>

Undo ==
    /\ api.pc = "undo"
    /\ registrations' = registrations - 1
    /\ listener' = [listener EXCEPT ![api.of] = "refused"]
    /\ IF registrations = 1 THEN Goto("stop") ELSE api' = Idle
    /\ Same /\ UNCHANGED <<host, registered, started>>

CloseListener(l) ==
    /\ api = Idle /\ listener[l] = "open"
    /\ api' = [pc |-> "remove", of |-> l]
    /\ listener' = [listener EXCEPT ![l] = "closed"]
    /\ Same /\ UNCHANGED <<host, registered, started, registrations>>

\* remove_listener() goes by the path, whoever has it; an exception ends
\* unregister_listener().
Remove ==
    /\ api.pc = "remove"
    /\ LET named == {m \in host.paths : setup.path[m] = setup.path[api.of]} IN
       /\ host' = [host EXCEPT !.paths = @ \ named]
       /\ Goto(IF named = {} THEN "leave" ELSE "forget")
    /\ Same /\ UNCHANGED <<registered, started, registrations, listener>>

Forget ==
    /\ api.pc = "forget"
    /\ registered' = registered \ {api.of}
    /\ Goto("drain")
    /\ Same /\ UNCHANGED <<host, started, registrations, listener>>

\* The write lock of the listener.
Drain ==
    /\ api.pc = "drain"
    /\ \A c \in Conns : \A n \in DOMAIN request[c] :
        request[c][n].thread = "handler" => request[c][n].target # api.of
    /\ Goto("leave")
    /\ Same /\ UNCHANGED <<host, registered, started, registrations, listener>>

Leave ==
    /\ api.pc = "leave"
    /\ registrations' = registrations - 1
    /\ IF registrations = 1 THEN Goto("stop") ELSE api' = Idle
    /\ Same /\ UNCHANGED <<host, registered, started, listener>>

\* http_linux_server::stop()
Stop ==
    /\ api.pc = "stop"
    /\ started' = FALSE
    /\ IF host.made THEN Halted("stopped")
       ELSE api' = Idle /\ UNCHANGED <<host, conn, request>>
    /\ UNCHANGED <<setup, connections, complete, registered, registrations, listener, crashed>>

Stopped ==
    /\ api.pc = "stopped" /\ complete
    /\ api' = Idle
    /\ Same /\ UNCHANGED <<host, registered, started, registrations, listener>>

-----------------------------------------------------------------------------
DispatchStep(c, n) ==
    \/ Parse(c, n) \/ Find(c, n) \/ Name(c, n) \/ Lock(c, n)
    \/ HandlerReturn(c, n) \/ (May(c, "throws") /\ HandlerThrow(c, n))
    \/ AnswerThrow(c, n) \/ EndDispatch(c, n)
SenderStep(c, n) == ResponseSet(c, n) \/ ContentReady(c, n) \/ Send(c, n)
ApiStep ==
    \/ Start \/ Register \/ Erase \/ Erased \/ Undo
    \/ Remove \/ Forget \/ Drain \/ Leave \/ Stop \/ Stopped

AsioNext ==
    /\ crashed = "no"
    /\ \/ \E c \in Conns : Accept(c) \/ OnAccept(c) \/ LineRead(c) \/ HandleLine(c)
       \/ AcceptFails
       \/ \E c \in Conns : \E n \in DOMAIN request[c] :
            \/ BodyRead(c, n) \/ DispatchStep(c, n) \/ SenderStep(c, n)
            \/ HandlerReply(c, n) \/ (May(c, "keeps") /\ HandlerKeep(c, n)) \/ UserReply(c, n)
       \/ \E l \in Listeners : OpenListener(l) \/ CloseListener(l)
       \/ ApiStep

\* The pool runs every handler, operations on a closed socket complete, request
\* handlers return, and the streams of responses deliver or end.  A client need
\* not send anything, nor read.
AsioFair(c, n) ==
    \/ DispatchStep(c, n)
    \/ (BodyRead(c, n) /\ ~conn[c].open)
    \/ (SenderStep(c, n) /\ (request[c][n].sender \in {"headers", "chunk", "last"} => ~conn[c].open))

AsioSpec ==
    /\ AsioInit /\ [][AsioNext]_asioVars
    /\ WF_asioVars(crashed = "no" /\ ApiStep)
    /\ \A c \in Conns :
        /\ WF_asioVars(crashed = "no" /\ (OnAccept(c) \/ HandleLine(c)))
        /\ \A n \in 1..(MaxRequests + 1) : WF_asioVars(crashed = "no" /\ AsioFair(c, n))

-----------------------------------------------------------------------------
(* Properties.                                                                *)

AsioTypeOK ==
    /\ setup \in Setups
    /\ \A c \in Conns : conn[c] \in Connection
    /\ \A c \in Conns : request[c] \in [1..(MaxRequests + 1) -> Request]
    /\ connections \subseteq Conns /\ complete \in BOOLEAN
    /\ host \in [made : BOOLEAN, accepting : BOOLEAN, waiting : BOOLEAN, deaf : BOOLEAN,
                 paths : SUBSET Listeners]
    /\ registered \subseteq Listeners /\ started \in BOOLEAN
    /\ registrations \in 0..Cardinality(Listeners)
    /\ api \in {Idle} \cup [pc : Steps, of : Listeners]
    /\ listener \in [Listeners -> {"new", "open", "refused", "closed"}]
    /\ crashed \in {"no", "reply", "target", "listener", "gone"}

Seen(c) == 1..conn[c].made
\* A thread or a chain of the connection that has still to run.
Busy(c) ==
    \/ conn[c].line # "none"
    \/ \E n \in Seen(c) : LET x == request[c][n] IN
        \/ x.thread \notin {"none", "left", "done"} \/ x.body = "reading"
        \/ x.sender \notin {"none", "done"}
\* A request that was refused, or whose listener went in the meantime.
Strays(c) == {n \in Seen(c) : request[c][n].bad \/ request[c][n].thread = "left"}

\* The event says whether there are connections; a connection is deleted once,
\* when it is no longer among them and no thread or chain uses it; and then it
\* is deleted, except for the requests that cost it a reference.
ConnectionsSound ==
    /\ complete <=> connections = {}
    /\ \A c \in Conns :
        /\ c \in connections => conn[c].life = "live"
        /\ conn[c].life = "deleted" => ~Busy(c) /\ c \notin connections
        /\ conn[c].life = "live" /\ c \notin connections /\ ~Busy(c) => Strays(c) # {}

\* The handler of an earlier request of the connection replied, and threw.
ThrewBefore(c, n) == \E m \in Seen(c) : m < n /\ request[c][m].threw /\ request[c][m].outcome = "sent"

\* A request is answered for an exception of its own handler, or of the one of
\* an earlier request that had been replied to before it threw; what is sent is
\* a reply, after the request was read; and a second reply ends the process only
\* after such an exception, or after the server closed a connection in use.
AnswersSound ==
    /\ \A c \in Conns : \A n \in Seen(c) :
        LET x == request[c][n] IN
        /\ x.reply = "error" => x.threw \/ ThrewBefore(c, n)
        /\ x.outcome = "sent" => x.reply # "none" /\ (x.bad \/ x.body # "reading")
    /\ crashed = "reply" =>
        \E c \in Conns : \E n \in Seen(c) : request[c][n].reply = "closing" \/ ThrewBefore(c, n)

\* Listeners that are open are served: a connection is awaited, or one was just
\* accepted, unless accepting failed once.  Those that are not open are not
\* found, the handler of a listener does not run once close() has returned,
\* though a dispatch may still read its path, and nothing calls into a
\* hostport_listener that is gone, unless a registration was refused.
ListenersServed ==
    (api.pc \notin {"erase", "erased", "undo"} /\ \A l \in Listeners : listener[l] # "refused") =>
        /\ crashed # "listener"
        /\ \A l \in Listeners : listener[l] = "open" =>
            /\ l \in registered /\ l \in host.paths /\ host.accepting
            /\ host.waiting \/ host.deaf \/ \E c \in Conns : conn[c].life = "accepted"
        /\ api = Idle => \A l \in registered \cup host.paths : listener[l] = "open"
        /\ \A c \in Conns : \A n \in Seen(c) : request[c][n].thread = "handler" =>
            LET l == request[c][n].target IN
            listener[l] = "open" \/ (api.of = l /\ api.pc \in {"remove", "forget", "drain"})

\* A connection that was accepted when stop() had closed those there were; and a
\* dispatch that waits for the lock of the registration that waits for it.
AcceptedLate == api.pc \in {"erased", "stopped"} /\ \E c \in connections : conn[c].open
Deadlock ==
    api.pc = "erased" /\ \E c \in connections : \E n \in Seen(c) : request[c][n].thread = "lock"

\* Once it has begun, start, stop, a registration or its undoing comes to an end,
\* whatever the clients do and the handlers answer: unless the process ends, or
\* one of these two happens.
ApiReturns == api # Idle ~> (api = Idle \/ crashed # "no" \/ AcceptedLate \/ Deadlock)
=============================================================================
