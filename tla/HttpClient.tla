----------------------------- MODULE HttpClient -----------------------------
(* The HTTP client over asio (http_client_asio.cpp) under the communicator of *)
(* http_client.cpp: the life of a request from propagate() to the destructor  *)
(* of its context, the pool of connections with its timer, the timeout, the   *)
(* cancellation, and the request sent again when a pooled connection turns    *)
(* out to be closed.                                                          *)
(*                                                                            *)
(* A context has at most one asynchronous operation at a time.  Its completion *)
(* (Complete) and its handler are two steps, and the timeout and the           *)
(* cancellation, which other threads run, come between any two.                *)
EXTENDS Integers, Sequences, FiniteSets

CONSTANTS
    N,          \* requests 1..N, issued in this order
    Contexts, Conns,
    Clients     \* clients, with their requests and their peers

Modes == {"plain", "ssl", "tunnel"}
AllReplies ==
    [keep : {"unsaid", "keep", "close"}, length : {"zero", "sized", "chunked", "eof"},
     encoding : {"known", "unknown"}]

\* order: guarantee_order.  bodies: those of the requests.  cancellable: the
\* requests with a token.  replies: what the peer may answer.  endpoints: the
\* addresses a name resolves to.
AllClients ==
    [mode : Modes, order : BOOLEAN, bodies : [1..N -> {"none", "sized", "chunked"}],
     cancellable : SUBSET (1..N), replies : SUBSET AllReplies, endpoints : 1..2]

ASSUME HttpClientAssumption == N \in Nat \ {0} /\ \A one \in Clients : one \in AllClients

VARIABLES
    client,         \* one of Clients
    issued,         \* how many requests were issued
    cancelled,      \* the requests whose token is cancelled
    consumed,       \* the requests whose body stream was read to its end
    answer,         \* answer[r]: m_request_completion
    content,        \* content[r]: m_data_available of the response
    finishes,       \* finishes[r]: the calls of finish()
    ctx,            \* the contexts
    sock,           \* sock[k]: the socket of a connection
    keep,           \* connections whose m_keep_alive is true
    reused,         \* connections whose m_is_reused is true
    pool,           \* m_connections: epoch and connection
    epoch, prev,    \* m_epoch, m_prev_epoch
    ticking,        \* is_timer_running
    scheduled,      \* m_scheduled
    queue           \* m_requests_queue

results == <<answer, content, finishes>>
conns == <<sock, keep, reused>>
poolVars == <<pool, epoch, prev, ticking>>
line == <<scheduled, queue>>
vars ==
    <<client, issued, cancelled, consumed, results, ctx, conns, poolVars, line>>

-----------------------------------------------------------------------------
Requests == 1..N
Writes == {"headers", "large", "chunked", "last", "tunnelWrite"}
Reads == {"status", "content", "chunkHeader", "chunk", "tunnelStatus"}
Connecting == {"connect", "tunnelConnect"}
OnSocket == Writes \cup Reads \cup Connecting \cup {"handshake"}
Resolving == {"resolve", "tunnelResolve"}
Points ==
    OnSocket \cup Resolving \cup {"unused", "queued", "send", "getn", "store", "done"}
Results == {"none", "ok", "eof", "abort", "refused"}

\* clock and alarm: m_state of the timer, and whether its wait is pending
\* ("armed"), or over with the handler still to run ("rung").
Unused ==
    [at |-> "unused", req |-> 0, conn |-> "none", result |-> "none",
     clock |-> "created", alarm |-> "idle", listening |-> FALSE, left |-> client.endpoints,
     uploaded |-> FALSE, downloaded |-> FALSE, length |-> "zero", resent |-> FALSE]
Fresh(r, k) == [Unused EXCEPT !.at = "send", !.req = r, !.conn = k]

Init ==
    /\ client \in Clients
    /\ issued = 0 /\ cancelled = {} /\ consumed = {}
    /\ answer = [r \in Requests |-> "none"]
    /\ content = [r \in Requests |-> "none"]
    /\ finishes = [r \in Requests |-> 0]
    /\ ctx = [c \in Contexts |-> Unused]
    /\ sock = [k \in Conns |-> "unused"] /\ keep = {} /\ reused = {}
    /\ pool = <<>> /\ epoch = 0 /\ prev = 0 /\ ticking = FALSE
    /\ scheduled = 0 /\ queue = <<>>

At(c, point) == ctx[c].at = point
Ok(c, point) == ctx[c].at = point /\ ctx[c].result = "ok"
Cancelled(c) == ctx[c].req \in cancelled
Pending(x) == x.at \in OnSocket /\ x.result = "none"
Last(s) == s[Len(s)]
Front(s) == SubSeq(s, 1, Len(s) - 1)

\* The context goes on as y and nothing else changes.
Go(c, y) ==
    /\ ctx' = [ctx EXCEPT ![c] = y]
    /\ UNCHANGED <<client, issued, cancelled, consumed, results, conns, poolVars, line>>

\* An operation on a socket that is closed fails at once.
Op(x, point) ==
    [x EXCEPT !.at = point,
              !.result = IF sock[x.conn] = "closed" THEN "refused" ELSE "none"]

-----------------------------------------------------------------------------
\* timeout_timer.
Started(x) == [x EXCEPT !.clock = "started", !.alarm = "armed"]
\* A wait that is pending is made anew; one that is over is not.
Reset(x) == [x EXCEPT !.alarm = IF @ = "armed" THEN "armed" ELSE @]

Ring(c) ==
    /\ ctx[c].alarm = "armed" /\ ctx[c].at \notin {"unused", "done"}
    /\ Go(c, [ctx[c] EXCEPT !.alarm = "rung"])

\* asio_connection::close(), with what becomes of the operation on the socket.
Close(k) ==
    /\ sock' = [sock EXCEPT ![k] = "closed"]
    /\ keep' = keep \ {k}
Aborted(x) == [x EXCEPT !.result = IF Pending(x) THEN "abort" ELSE @]

\* handle_timeout() holds the context and closes the connection it has now.
Timeout(c) ==
    /\ ctx[c].alarm = "rung" /\ ctx[c].at \notin {"unused", "done"}
    /\ Close(ctx[c].conn)
    /\ ctx' = [ctx EXCEPT ![c] = [Aborted(@) EXCEPT !.clock = "timedout", !.alarm = "idle"]]
    /\ UNCHANGED <<client, issued, cancelled, consumed, results, reused, poolVars, line>>

-----------------------------------------------------------------------------
\* Variants, here and below, are plausible mistakes in the definition that
\* follows; PROJECT.json pairs each with the property that detects it.

\* A mutant: nobody is taken from the queue.
Popped_None(n) == <<>>

\* finish() n times, with the contexts cs: the next in the queue is scheduled.
Popped(n) == IF client.order THEN SubSeq(queue, 1, IF n < Len(queue) THEN n ELSE Len(queue))
             ELSE <<>>
Finish(r, n, cs) ==
    LET popped == {Popped(n)[i] : i \in DOMAIN Popped(n)} IN
    /\ finishes' = [finishes EXCEPT ![r] = @ + n]
    /\ scheduled' = IF client.order THEN scheduled - n ELSE scheduled
    /\ queue' = SubSeq(queue, Len(Popped(n)) + 1, Len(queue))
    /\ ctx' = [d \in Contexts |-> IF d \in popped THEN [cs[d] EXCEPT !.at = "send"] ELSE cs[d]]

\* report_exception() of the context: it closes the connection.  The context
\* goes on as y and finish() is called n times in all.
Reported(c, what, n, y) ==
    LET r == ctx[c].req
        why == IF r \in cancelled THEN "canceled" ELSE what
    IN  /\ Close(ctx[c].conn)
        /\ answer' = [answer EXCEPT ![r] = IF @ = "none" THEN why ELSE @]
        /\ content' = [content EXCEPT ![r] =
                IF @ # "none" THEN @ ELSE IF answer[r] = "none" THEN "complete" ELSE "failed"]
        /\ Finish(r, n, [ctx EXCEPT ![c] = y])
        /\ UNCHANGED <<client, issued, cancelled, consumed, reused, poolVars>>
Report(c, what) == Reported(c, what, 1, [ctx[c] EXCEPT !.at = "done"])

\* A mutant: the timer is not asked.
Error_Untimed(c) == "error"

\* report_error() of the context.
Error(c) == IF ctx[c].clock = "timedout" THEN "timed_out" ELSE "error"

\* complete_request().
CompleteRequest(c) ==
    LET r == ctx[c].req IN
    /\ content' = [content EXCEPT ![r] = IF @ = "none" THEN "complete" ELSE @]
    /\ Finish(r, 1, [ctx EXCEPT ![c].at = "done"])
    /\ UNCHANGED <<client, issued, cancelled, consumed, answer, conns, poolVars>>

-----------------------------------------------------------------------------
\* asio_connection_pool.
FreeConns == {k \in Conns : sock[k] = "unused"}
\* acquire(), or a new connection if the pool is empty.
Obtain(k) ==
    IF pool # <<>>
    THEN k = Last(pool).conn /\ pool' = Front(pool)
    ELSE k \in FreeConns /\ k = (CHOOSE free \in FreeConns : TRUE) /\ UNCHANGED pool
SockOf(k) == IF pool # <<>> THEN sock[k] ELSE "new"
KeepWith(k) == IF pool # <<>> THEN keep ELSE keep \cup {k}
ReusedWith(k) == IF pool # <<>> THEN reused \cup {k} ELSE reused

\* ~asio_context(): the timer is stopped and the connection released.
Release(c) ==
    /\ At(c, "done")
    /\ LET k == ctx[c].conn IN
       IF k \in keep
       THEN /\ prev' = IF ticking THEN prev ELSE epoch
            /\ ticking' = TRUE
            /\ epoch' = epoch + 1
            /\ pool' = Append(pool, [epoch |-> epoch + 1, conn |-> k])
            /\ UNCHANGED conns
       ELSE /\ sock' = [sock EXCEPT ![k] = "unused"]
            /\ reused' = reused \ {k}
            /\ UNCHANGED <<keep, poolVars>>
    /\ ctx' = [ctx EXCEPT ![c] = Unused]
    /\ UNCHANGED <<client, issued, cancelled, consumed, results, line>>

\* The timer of the pool: the first n connections go, all of them if none was
\* released since the timer was started, or those before the first one that was.
Expired(n) ==
    IF prev = epoch THEN n = Len(pool)
    ELSE /\ \A i \in 1..n : pool[i].epoch <= prev
         /\ n < Len(pool) => pool[n + 1].epoch > prev

\* A mutant: the timer is not started again.
PoolTimer_Once ==
    /\ ticking
    /\ \E n \in 0..Len(pool) :
        LET erased == {pool[i].conn : i \in 1..n} IN
        /\ Expired(n)
        /\ sock' = [k \in Conns |-> IF k \in erased THEN "unused" ELSE sock[k]]
        /\ keep' = keep \ erased
        /\ reused' = reused \ erased
        /\ pool' = SubSeq(pool, n + 1, Len(pool))
    /\ ticking' = FALSE
    /\ prev' = epoch
    /\ UNCHANGED <<client, issued, cancelled, consumed, results, ctx, epoch, line>>

PoolTimer ==
    /\ ticking
    /\ \E n \in 0..Len(pool) :
        LET erased == {pool[i].conn : i \in 1..n} IN
        /\ Expired(n)
        /\ sock' = [k \in Conns |-> IF k \in erased THEN "unused" ELSE sock[k]]
        /\ keep' = keep \ erased
        /\ reused' = reused \ erased
        /\ pool' = SubSeq(pool, n + 1, Len(pool))
    /\ ticking' = (prev # epoch)
    /\ prev' = epoch
    /\ UNCHANGED <<client, issued, cancelled, consumed, results, ctx, epoch, line>>

\* The peer closes a connection in the pool.
PeerCloses(k) ==
    /\ sock[k] = "open" /\ \E i \in DOMAIN pool : pool[i].conn = k
    /\ sock' = [sock EXCEPT ![k] = "dead"]
    /\ UNCHANGED <<client, issued, cancelled, consumed, results, ctx, keep, reused, poolVars, line>>

-----------------------------------------------------------------------------
\* A mutant: the request before the last has to end.
First_OffByOne == ~client.order \/ scheduled + 1 <= 2

\* push_request(): whether a request is sent at once or waits in the queue.
First == ~client.order \/ scheduled + 1 = 1

\* propagate() and async_send_request(): the connection is obtained at once.
Propagate(c, k) ==
    /\ issued < N /\ At(c, "unused")
    /\ c = CHOOSE d \in Contexts : At(d, "unused")
    /\ Obtain(k) /\ keep' = KeepWith(k) /\ reused' = ReusedWith(k)
    /\ sock' = [sock EXCEPT ![k] = SockOf(k)]
    /\ issued' = issued + 1
    /\ ctx' = [ctx EXCEPT ![c] =
            [Fresh(issued + 1, k) EXCEPT !.at = IF First THEN "send" ELSE "queued"]]
    /\ queue' = IF First THEN queue ELSE Append(queue, c)
    /\ scheduled' = IF client.order THEN scheduled + 1 ELSE scheduled
    /\ UNCHANGED <<client, cancelled, consumed, results, epoch, prev, ticking>>

\* write_request(): with TLS, a connection that is new begins with a handshake.
WriteRequest(x) ==
    Op(x, IF client.mode # "plain" /\ x.conn \notin reused THEN "handshake" ELSE "headers")

\* start_http_request_flow, where the method may be invalid.  The cancellation
\* callback is registered when the operation has been started.
Flow(c) ==
    LET x == IF ctx[c].clock = "started" THEN ctx[c] ELSE Started(ctx[c])
        y == [x EXCEPT !.listening = TRUE]
    IN  IF Cancelled(c) THEN Report(c, "canceled")
        ELSE \/ Report(c, "error")
             \/ Go(c, IF y.conn \in reused \/ client.mode = "tunnel" THEN WriteRequest(y)
                      ELSE [y EXCEPT !.at = "resolve", !.result = "none"])

\* send_request() and start_request().
Send(c) ==
    /\ At(c, "send")
    /\ IF Cancelled(c) THEN Report(c, "canceled")
       ELSE IF client.mode = "tunnel"
            THEN \/ Report(c, "error")
                 \/ Go(c, [Started(ctx[c]) EXCEPT !.at = "tunnelResolve"])
            ELSE Flow(c)

\* The token of a request: its callback closes the connection.
CancelToken(r) ==
    /\ r \in client.cancellable /\ r <= issued /\ finishes[r] = 0 /\ r \notin cancelled
    /\ cancelled' = cancelled \cup {r}
    /\ LET live == {c \in Contexts : ctx[c].req = r /\ ctx[c].listening /\ ctx[c].at # "done"}
           closed == {ctx[c].conn : c \in live}
       IN  /\ sock' = [k \in Conns |-> IF k \in closed THEN "closed" ELSE sock[k]]
           /\ keep' = keep \ closed
           /\ ctx' = [c \in Contexts |-> IF c \in live THEN Aborted(ctx[c]) ELSE ctx[c]]
    /\ UNCHANGED <<client, issued, consumed, results, reused, poolVars, line>>

-----------------------------------------------------------------------------
\* What the network makes of an operation.  The peer may close the connection
\* at any time, or say nothing for ever.  A body comes in one piece.
Outcomes(x) ==
    CASE x.at \in Resolving -> {"ok", "refused"}
      [] x.at \in Connecting -> {"ok", "refused"}
      [] x.at \in Writes \cup {"handshake"} -> {"ok", "refused"}
      [] x.at \in Reads ->
            IF sock[x.conn] = "dead" \/ (x.length = "eof" /\ x.downloaded) THEN {"eof"}
            ELSE {"ok", "eof"}
Complete(c) ==
    LET x == ctx[c] IN
    /\ Pending(x) \/ (x.at \in Resolving /\ x.result = "none")
    /\ \E result \in Outcomes(x) :
        /\ ctx' = [ctx EXCEPT ![c].result = result]
        /\ sock' = [sock EXCEPT ![x.conn] =
                CASE x.at \in Resolving -> @
                  [] x.at \in Connecting -> IF result = "ok" THEN "open" ELSE @
                  [] OTHER -> IF result = "ok" THEN @ ELSE "dead"]
    /\ UNCHANGED <<client, issued, cancelled, consumed, results, keep, reused, poolVars, line>>

\* handle_resolve(), which looks at the timer after async_connect.
Resolved(c) ==
    /\ ctx[c].at \in Resolving /\ ctx[c].result = "ok"
    /\ LET x == Reset(ctx[c])
           k == x.conn
           free == sock[k] \in {"new", "closed"}
           late == x.clock = "timedout"
       IN  /\ sock' = [sock EXCEPT ![k] =
                    IF late THEN "closed" ELSE IF free THEN "connecting" ELSE @]
           /\ keep' = IF late THEN keep \ {k} ELSE keep
           /\ ctx' = [ctx EXCEPT ![c] = [x EXCEPT
                    !.at = IF x.at = "resolve" THEN "connect" ELSE "tunnelConnect",
                    !.left = @ - 1,
                    !.result = IF ~free THEN "refused" ELSE IF late THEN "abort" ELSE "none"]]
    /\ UNCHANGED <<client, issued, cancelled, consumed, results, reused, poolVars, line>>

\* The next address is tried with another connection, which may come from the
\* pool; one that is connected cannot be connected again.
NextEndpoint(c, k) ==
    LET old == ctx[c].conn
        free == SockOf(k) \in {"new", "closed"}
    IN  /\ Obtain(k)
        /\ keep' = KeepWith(k) \ {old} /\ reused' = ReusedWith(k) \ {old}
        /\ sock' = [sock EXCEPT ![old] = "unused", ![k] = IF free THEN "connecting" ELSE @]
        /\ ctx' = [ctx EXCEPT ![c] = [Reset(@) EXCEPT
                !.conn = k, !.left = ctx[c].left - 1,
                !.result = IF free THEN "none" ELSE "refused"]]
        /\ UNCHANGED <<client, issued, cancelled, consumed, results, epoch, prev, ticking, line>>

\* A mutant: an address too many.
Connected_OffByOne(c) ==
    /\ At(c, "connect")
    /\ LET x == ctx[c] IN
       \/ x.result = "ok" /\ Go(c, WriteRequest(Reset(x)))
       \/ x.result = "abort" /\ Report(c, "canceled")
       \/ x.result = "refused" /\ x.left < 0 /\ Report(c, Error(c))
       \/ x.result = "refused" /\ x.left >= 0 /\ \E k \in Conns : NextEndpoint(c, k)

\* handle_connect().
Connected(c) ==
    /\ At(c, "connect")
    /\ LET x == ctx[c] IN
       \/ x.result = "ok" /\ Go(c, WriteRequest(Reset(x)))
       \/ x.result = "abort" /\ Report(c, "canceled")
       \/ x.result = "refused" /\ x.left = 0 /\ Report(c, Error(c))
       \/ x.result = "refused" /\ x.left > 0 /\ \E k \in Conns : NextEndpoint(c, k)

\* handle_tcp_connect() of the proxy tunnel goes on whatever the error was.
TunnelConnected(c) ==
    /\ At(c, "tunnelConnect")
    /\ LET x == ctx[c]
           failed == x.result \in {"abort", "refused"}
       IN  \/ x.result = "ok" /\ Go(c, Op(Reset(x), "tunnelWrite"))
           \/ failed /\ x.left = 0 /\ Report(c, Error(c))
           \/ failed /\ x.left > 0 /\ \E k \in Conns : NextEndpoint(c, k)

\* handle_write_request() of the tunnel.
TunnelWritten(c) ==
    /\ Ok(c, "tunnelWrite")
    /\ Go(c, Op(Reset(ctx[c]), "tunnelStatus"))

\* handle_status_line() of the tunnel.
TunnelEstablished(c) ==
    /\ Ok(c, "tunnelStatus")
    /\ \/ Report(c, Error(c))
       \/ Flow(c)

\* The end of the stream is the end of a body that has no length.
Unbounded(x) == x.at = "content" /\ x.result = "eof" /\ x.length = "eof"

\* What most handlers do when their operation failed.
OperationFailed(c) ==
    /\ ctx[c].at \in OnSocket \cup Resolving
    /\ ctx[c].result \in {"eof", "abort", "refused"}
    /\ ctx[c].at \notin Connecting
    /\ ctx[c].at \in {"status", "tunnelStatus"} =>
        ~(ctx[c].result = "eof" /\ ctx[c].conn \in reused)
    /\ ~Unbounded(ctx[c])
    /\ Report(c, Error(c))

\* The handlers that call the progress handler of the user, which may throw; that
\* of a body without a length calls it at the end of the stream as well.
ProgressPoints == {"headers", "chunked", "large", "last", "content", "chunk"}
ProgressThrows(c) ==
    /\ \/ ctx[c].at \in ProgressPoints /\ ctx[c].result = "ok"
       \/ Unbounded(ctx[c])
    /\ Report(c, "error")

-----------------------------------------------------------------------------
\* handle_handshake().
Handshaken(c) == Ok(c, "handshake") /\ Go(c, Op(ctx[c], "headers"))

\* handle_write_headers() and the body: it is sent in one piece from the stream
\* of the request, which is read once more if the length is not known.
MoreToSend(x) ==
    \/ client.bodies[x.req] = "chunked"
    \/ client.bodies[x.req] = "sized" /\ ~x.uploaded
BodyWritten(c) ==
    /\ ctx[c].at \in {"headers", "large", "chunked"} /\ ctx[c].result = "ok"
    /\ LET x == Reset(ctx[c]) IN
       Go(c, IF MoreToSend(x) THEN [x EXCEPT !.at = "getn", !.result = "none"]
             ELSE Op(x, "status"))

\* The stream of the body is not rewound when the request is sent again.
BodyRead(c) ==
    /\ At(c, "getn")
    /\ LET x == ctx[c]
           r == x.req
           some == r \notin consumed
           point == IF client.bodies[r] = "sized" THEN "large" ELSE IF some THEN "chunked" ELSE "last"
       IN  \/ Report(c, "error")
           \/ /\ some \/ client.bodies[r] = "chunked"
              /\ consumed' = consumed \cup {r}
              /\ ctx' = [ctx EXCEPT ![c] = Op([x EXCEPT !.uploaded = some \/ @], point)]
              /\ UNCHANGED <<client, issued, cancelled, results, conns, poolVars, line>>

\* handle_write_body() after the last chunk.
AllWritten(c) == Ok(c, "last") /\ Go(c, Op(Reset(ctx[c]), "status"))

-----------------------------------------------------------------------------
\* The reading of a body may find in the buffer what it asks for.
MayBeBuffered(x, closed, point) ==
    {[x EXCEPT !.at = point, !.result = result] :
        result \in IF closed THEN {"ok", "refused"} ELSE {"none"}}

\* handle_status_line() and read_headers(), with what the headers say.
NoBody(reply) == reply.length = "zero"
BodyPoint(reply) == IF reply.length = "chunked" THEN "chunkHeader" ELSE "content"
\* m_keep_alive is set whether or not the connection has been closed.
KeepAlive(k, reply) ==
    CASE reply.keep = "keep" -> keep \cup {k}
      [] reply.keep = "close" -> keep \ {k}
      [] reply.keep = "unsaid" -> keep
\* With no body to come, the progress handler of the user is called, and may throw.
Headers(c, reply, throws) ==
    LET x == [Reset(ctx[c]) EXCEPT !.length = reply.length]
        r == x.req
        k == x.conn
        known == reply.encoding = "known"
        broken == ~known \/ throws
        closed == sock[k] = "closed" \/ broken
    IN  /\ answer' = [answer EXCEPT ![r] = IF @ = "none" THEN "response" ELSE @]
        /\ keep' = IF broken THEN keep \ {k} ELSE KeepAlive(k, reply)
        /\ sock' = IF broken THEN [sock EXCEPT ![k] = "closed"] ELSE sock
        /\ content' = [content EXCEPT ![r] =
                IF broken THEN "failed" ELSE IF NoBody(reply) THEN "complete" ELSE @]
        /\ LET n == (IF known THEN 0 ELSE 1) + (IF NoBody(reply) THEN 1 ELSE 0) IN
           \E y \in IF NoBody(reply) THEN {[x EXCEPT !.at = "done"]}
                    ELSE MayBeBuffered(x, closed, BodyPoint(reply)) :
                Finish(r, n, [ctx EXCEPT ![c] = y])
        /\ UNCHANGED <<client, issued, cancelled, consumed, reused, poolVars>>

StatusRead(c) ==
    /\ Ok(c, "status")
    /\ \/ Report(c, Error(c))
       \/ \E reply \in client.replies, throws \in BOOLEAN :
            (throws => NoBody(reply)) /\ Headers(c, reply, throws)

\* The connection was closed while it was in the pool: a new context takes over.
Resend(c, d, k) ==
    /\ ctx[c].at \in {"status", "tunnelStatus"}
    /\ ctx[c].result = "eof" /\ ctx[c].conn \in reused
    /\ At(d, "unused") /\ d = CHOOSE e \in Contexts : At(e, "unused")
    /\ Obtain(k) /\ keep' = KeepWith(k) \ {ctx[c].conn} /\ reused' = ReusedWith(k)
    /\ sock' = [sock EXCEPT ![k] = SockOf(k), ![ctx[c].conn] = "closed"]
    /\ ctx' = [ctx EXCEPT ![c].at = "done", ![d] = [Fresh(ctx[c].req, k) EXCEPT !.resent = TRUE]]
    /\ UNCHANGED <<client, issued, cancelled, consumed, results, epoch, prev, ticking, line>>

-----------------------------------------------------------------------------
\* handle_chunk_header().
ChunkHeaderRead(c) ==
    /\ Ok(c, "chunkHeader")
    /\ \/ Report(c, Error(c))
       \/ \E y \in MayBeBuffered(Reset(ctx[c]), sock[ctx[c].conn] = "closed", "chunk") :
            Go(c, y)

\* handle_chunk(): the last chunk, or one for the stream of the response.
ChunkRead(c) ==
    /\ Ok(c, "chunk")
    /\ \/ CompleteRequest(c)
       \/ ~ctx[c].downloaded /\ Go(c, [Reset(ctx[c]) EXCEPT !.at = "store", !.result = "none"])

\* handle_read_content(): with no length given, the end of the stream is the end.
ContentRead(c) ==
    /\ At(c, "content")
    /\ LET x == ctx[c]
           ended == x.result = "eof" /\ x.length = "eof"
           store == [Reset(x) EXCEPT !.at = "store", !.result = "none"]
       IN  \/ x.result = "ok" /\ ~x.downloaded /\ Go(c, store)
           \/ x.result = "ok" /\ x.downloaded /\ CompleteRequest(c)
           \/ ended /\ ~x.downloaded /\ Go(c, [store EXCEPT !.length = "sized"])
           \/ ended /\ CompleteRequest(c)

\* The continuation of putn_nocopy: the stream of the response may fail.
Stored(c) ==
    /\ At(c, "store")
    /\ LET x == [ctx[c] EXCEPT !.downloaded = TRUE]
           closed == sock[x.conn] = "closed"
       IN  \/ Report(c, "error")
           \/ x.length = "chunked" /\ \E y \in MayBeBuffered(x, closed, "chunkHeader") : Go(c, y)
           \/ x.length = "sized" /\ Go(c, [x EXCEPT !.at = "content", !.result = "ok"])
           \/ x.length = "eof" /\ Go(c, Op(x, "content"))

-----------------------------------------------------------------------------
Handler(c) ==
    \/ Send(c) \/ Resolved(c) \/ Connected(c)
    \/ TunnelConnected(c) \/ TunnelWritten(c) \/ TunnelEstablished(c)
    \/ OperationFailed(c) \/ ProgressThrows(c)
    \/ Handshaken(c) \/ BodyWritten(c) \/ BodyRead(c) \/ AllWritten(c)
    \/ StatusRead(c) \/ ChunkHeaderRead(c) \/ ChunkRead(c) \/ ContentRead(c) \/ Stored(c)
    \/ \E d \in Contexts, k \in Conns : Resend(c, d, k)

ContextStep(c) == Handler(c) \/ Ring(c) \/ Timeout(c) \/ Release(c)

Next ==
    \/ \E c \in Contexts : ContextStep(c) \/ Complete(c)
    \/ \E c \in Contexts, k \in Conns : Propagate(c, k)
    \/ \E r \in Requests : CancelToken(r)
    \/ PoolTimer
    \/ \E k \in Conns : PeerCloses(k)

\* Handlers and timers run.  The peer need not answer, but a name is resolved.
Fairness ==
    \A c \in Contexts :
        /\ WF_vars(ContextStep(c))
        /\ WF_vars(ctx[c].at \in Resolving /\ Complete(c))
Spec == Init /\ [][Next]_vars /\ Fairness

-----------------------------------------------------------------------------
Context ==
    [at : Points, req : 0..N, conn : Conns \cup {"none"}, result : Results,
     clock : {"created", "started", "timedout"}, alarm : {"idle", "armed", "rung"},
     listening : BOOLEAN, left : 0..2, uploaded : BOOLEAN, downloaded : BOOLEAN,
     length : {"zero", "sized", "chunked", "eof"}, resent : BOOLEAN]

TypeOK ==
    /\ client \in Clients
    /\ issued \in 0..N /\ cancelled \subseteq 1..issued /\ consumed \subseteq 1..issued
    /\ answer \in [Requests -> {"none", "response", "error", "timed_out", "canceled"}]
    /\ content \in [Requests -> {"none", "complete", "failed"}]
    /\ finishes \in [Requests -> 0..2]
    /\ ctx \in [Contexts -> Context]
    /\ sock \in [Conns -> {"unused", "new", "connecting", "open", "dead", "closed"}]
    /\ keep \subseteq Conns /\ reused \subseteq Conns
    /\ pool \in Seq([epoch : Nat, conn : Conns]) /\ epoch \in Nat /\ prev \in 0..epoch
    /\ ticking \in BOOLEAN
    /\ scheduled \in Int /\ queue \in Seq(Contexts)

Live == {c \in Contexts : ctx[c].at # "unused"}
PooledConns == {pool[i].conn : i \in DOMAIN pool}
Finished == {r \in Requests : finishes[r] > 0}
Twice == {r \in Requests : finishes[r] > 1}
Active(r) == {c \in Contexts : ctx[c].req = r /\ ctx[c].at # "done"}

\* The pool and the contexts share no connection and lose none; the pool is
\* sorted by epoch, which is what the cleaning relies on, has a timer to clean
\* it, and holds only connections that were connected (asio_connection_pool).
PoolSound ==
    /\ \A c, d \in Live : c # d => ctx[c].conn # ctx[d].conn
    /\ \A i, j \in DOMAIN pool : i < j =>
        pool[i].conn # pool[j].conn /\ pool[i].epoch < pool[j].epoch
    /\ \A c \in Live : ctx[c].conn \notin PooledConns
    /\ {k \in Conns : sock[k] # "unused"} = PooledConns \cup {ctx[c].conn : c \in Live}
    /\ pool # <<>> => ticking /\ Last(pool).epoch <= epoch
    /\ \A k \in PooledConns : k \in keep /\ sock[k] \in {"open", "dead", "closed"}

\* A request that is not finished belongs to one context, through the queue and
\* through a retry.
OwnedOnce ==
    \A r \in 1..issued :
        IF r \in Finished THEN r \notin Twice => Cardinality(Active(r)) <= 1
        ELSE Cardinality(Active(r)) = 1
\* A finished request has told its answer and ended its content; finish() is
\* called twice only after headers with an encoding nobody knows.
EndedOnce ==
    \A r \in Requests :
        /\ r \in Finished => answer[r] # "none" /\ content[r] # "none"
        /\ r \notin Finished => content[r] = "none" /\ answer[r] \in {"none", "response"}
        /\ r \in Twice \/ (r \in Finished /\ Active(r) # {}) =>
            answer[r] = "response" /\ content[r] = "failed"
\* With guarantee_order one request is sent at a time, in the order they were
\* issued, and the count is right, unless some finish() was called twice.
InOrder ==
    client.order /\ Twice = {} =>
        /\ scheduled = issued - Cardinality(Finished)
        /\ \A i \in DOMAIN queue : ctx[queue[i]].req = issued - Len(queue) + i
        /\ \A r \in 1..issued, q \in 1..issued :
            r < q /\ r \notin Finished => \A c \in Active(q) : At(c, "queued")
\* When an answer is read, the body was sent, unless the request is sent for
\* the second time: then the stream of a chunked body is at its end.
SentWhole ==
    \A c \in Live :
        ctx[c].at \in {"status", "content", "chunkHeader", "chunk"} =>
            client.bodies[ctx[c].req] = "none" \/ ctx[c].uploaded
                \/ (ctx[c].resent /\ client.bodies[ctx[c].req] = "chunked")
\* A request is sound: owned by one context, ended once, in order and whole.
RequestsSound == OwnedOnce /\ EndedOnce /\ InOrder /\ SentWhole

\* A failure is told for what it is: canceled if the token is, or if the
\* timeout comes while connecting; as a plain error only if nobody closed the
\* connection under the request, or the request began with a pooled one that
\* was closed, or the tunnel started the timer again.
FailureTold ==
    [][\A c \in Contexts :
        LET x == ctx[c]
            told == answer'[x.req]
        IN  x.at \in OnSocket /\ answer[x.req] = "none" /\ told # "none" =>
            /\ told = "canceled" =>
                x.req \in cancelled \/ (x.at = "connect" /\ x.clock = "timedout")
            /\ told = "error" /\ x.result # "ok" /\ sock[x.conn] = "closed" =>
                x.result # "abort" /\ (x.conn \in reused \/ client.mode = "tunnel")]_vars

\* The timeout came, and the context went on with another connection, which
\* nothing times any more.
Untimed(c) == Pending(ctx[c]) /\ ctx[c].clock = "timedout"

\* Every request ends, if the names are resolved and the user's streams and
\* handlers return, though the peer may be silent; unless the timeout came just
\* before the next address was tried, or some finish() was called twice.
Ended(r) == r \in Finished \/ Twice # {} \/ \E c \in Contexts : Untimed(c)
RequestsEnd == \A r \in Requests : issued >= r ~> Ended(r)

\* "Ensures closed connections owned by request_context will not be put to
\* pool when they are released" (http_client_asio.cpp:114).
ClosedNotPooled == \A k \in PooledConns : sock[k] # "closed"
=============================================================================
