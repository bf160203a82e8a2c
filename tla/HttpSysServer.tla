---------------------------- MODULE HttpSysServer ----------------------------
(* The HTTP server of the SDK on Windows, http_server_httpsys.cpp: the        *)
(* receiving loop, the life of a windows_request_context from its first I/O   *)
(* to its destructor, the dispatch to the request handler, and the close of   *)
(* the listener, which stops the server if it was the last.                   *)
(*                                                                            *)
(* Who owns a context decides when it dies.  The request object owns it until *)
(* a reply moves it into the response; the context itself keeps a reference   *)
(* to the request (m_msg) and later to the response, and the continuations it *)
(* registers break those cycles.  Everything a context does is asynchronous:  *)
(* completions of overlapped operations, all on the one m_overlapped of the   *)
(* context, and task continuations run on any thread of the pool.             *)
(*                                                                            *)
(* HTTP.sys, the network and the request handler are the environment: every   *)
(* operation may fail when it is started or when it completes.  What a        *)
(* destroyed context would do is undefined in the code; ContextOutlivesUse    *)
(* says which uses can happen.                                                *)
EXTENDS Integers, FiniteSets

CONSTANTS
    Requests,  \* the requests that may arrive, each once
    Plain,     \* bound: those whose I/O never fails, whose body is there at
               \* once, and that the handler answers, without a body, or drops
    MaxChunks  \* bound: body chunks of a response

ASSUME ServerAssumption ==
    MaxChunks \in Nat \ {0} /\ Plain \subseteq Requests /\ "none" \notin Requests

VARIABLES
    req,         \* req[q]: the context of the request and all that refers to it
    receiver,    \* the receiving task: its program point and its request
    urlOpen,     \* the URL group of the listener accepts requests
    queueOpen,   \* the request queue has not been shut down
    registered,  \* the listener is in _M_registeredListeners
    closer,      \* program point of the thread that closes the listener
    outstanding, \* m_numOutstandingRequests
    zeroEvent    \* m_zeroOutstandingRequests is set

count == <<outstanding, zeroEvent>>
gates == <<urlOpen, queueOpen, registered, closer>>
vars == <<req, receiver, gates, count>>

-----------------------------------------------------------------------------
\* ctx: the context: none, made, live, its destructor entered (destroy), about
\* to set the event (signal), gone.  refs: the references to the request: the
\* receiving loop's, m_msg (context), the local of the dispatching thread, the
\* one inside the content_ready task (content), and the handler's own copy.
\* body: the event content_ready() waits for.  content, sender: the two
\* continuations registered by init_response_callbacks; thrown: the second has
\* swallowed an exception of async_process_response().  proxy:
\* proxy_content_ready.  response: the event get_response() waits for.
\* completed: m_response_completed.  io: the operations pending on
\* m_overlapped.  thread: the thread that completed the headers.  sending,
\* left: the body of the response, left of whose chunks are still to be read,
\* and reading: a read of it is pending.
Context ==
    [ctx : {"none", "made", "live", "destroy", "signal", "gone"},
     refs : SUBSET {"loop", "context", "dispatch", "content", "user"},
     initiated : BOOLEAN,
     response : {"none", "set", "canceled"},
     body : {"none", "reading", "complete", "failed"},
     content : {"none", "armed", "release", "done"},
     proxy : {"none", "set", "failed"},
     sender : {"none", "armed", "waiting", "thrown", "done"},
     completed : {"none", "ok", "failed"},
     io : SUBSET {"headers", "body", "response", "chunk", "cancel"},
     thread : {"none", "dispatch", "bad", "lookup", "handler", "thrown", "return"},
     sending : {"none", "chunks", "encoding"},
     left : 0..MaxChunks,
     reading : BOOLEAN]

Unseen ==
    [ctx |-> "none", refs |-> {}, initiated |-> FALSE, response |-> "none",
     body |-> "none", content |-> "none", proxy |-> "none", sender |-> "none",
     completed |-> "none", io |-> {}, thread |-> "none", sending |-> "none",
     left |-> 0, reading |-> FALSE]

Receiver == [pc : {"receive", "count", "reset", "start", "release", "drop", "ended"},
             q : Requests \cup {"none"}]

Closers == {"open", "quiesce", "url", "shutdown", "receiving", "zero", "queue", "closed"}

\* The pieces of the code that several handlers call, from context to context.

\* Variants, here and below, are plausible mistakes in the definition that
\* follows them; PROJECT.json pairs each with the property that detects it.
Drop_StillOwner(x, ref) ==
    IF x.refs # {ref} THEN [x EXCEPT !.refs = @ \ {ref}]
    ELSE [x EXCEPT !.refs = {},
                   !.response = IF @ = "none" THEN "canceled" ELSE @,
                   !.ctx = "destroy"]

\* The last reference to the request goes: an event nobody set cancels the
\* tasks that wait for it, and a context not moved into a response dies.
Drop(x, ref) ==
    IF x.refs # {ref} THEN [x EXCEPT !.refs = @ \ {ref}]
    ELSE [x EXCEPT !.refs = {},
                   !.response = IF @ = "none" THEN "canceled" ELSE @,
                   !.ctx = IF x.initiated THEN @ ELSE "destroy"]

\* _reply_impl: the response takes the context over.
Replied(x) == [x EXCEPT !.initiated = TRUE, !.response = "set"]

ReplyIfNotAlready(x) == IF x.initiated THEN x ELSE Replied(x)

\* init_response_callbacks(Wait)
InitCallbacks(x) ==
    [x EXCEPT !.content = "armed", !.sender = "armed", !.refs = @ \cup {"content"}]

\* The paths that give up before a body was asked for: reply, then
\* init_response_callbacks(DontWait), which completes the body itself.
Refuse(x) == [InitCallbacks(Replied(x)) EXCEPT !.body = "complete"]

CancelRequest(x, started) ==
    IF started THEN [x EXCEPT !.io = @ \cup {"cancel"}]
               ELSE [x EXCEPT !.completed = "failed"]

\* Starts an overlapped operation of the response; if HTTP.sys refuses it the
\* request is cancelled.
StartSend(x, operation, started, canceled) ==
    IF started THEN [x EXCEPT !.io = @ \cup {operation}]
               ELSE CancelRequest(x, canceled)

\* transmit_body: read the next chunk from the body's stream, or finish.
TransmitBody(x) ==
    IF x.sending = "none" THEN [x EXCEPT !.completed = "ok"]
                          ELSE [x EXCEPT !.reading = TRUE]

\* What read_request_body_chunk leaves behind: an operation, or an end.
BodyChunk(x, outcome) ==
    [x EXCEPT !.body = IF outcome = "pending" THEN "reading" ELSE outcome,
              !.io = IF outcome = "pending" THEN @ \cup {"body"} ELSE @]

\* Whether an operation can be started, a URI parsed, ...
Works(q) == IF q \in Plain THEN {TRUE} ELSE BOOLEAN

Update(q, x) ==
    /\ req' = [req EXCEPT ![q] = x]
    /\ UNCHANGED <<receiver, gates, count>>

-----------------------------------------------------------------------------
Init ==
    /\ req = [q \in Requests |-> Unseen]
    /\ receiver = [pc |-> "receive", q |-> "none"]
    /\ urlOpen = TRUE /\ queueOpen = TRUE /\ registered = TRUE
    /\ closer = "open"
    /\ outstanding = 0 /\ zeroEvent = TRUE

-----------------------------------------------------------------------------
(* receive_requests                                                           *)

At(pc, q) == receiver' = [pc |-> pc, q |-> q]

Receive(q) ==
    /\ receiver.pc = "receive" /\ queueOpen /\ urlOpen
    /\ req[q].ctx = "none"
    /\ At("count", q)
    /\ UNCHANGED <<req, gates, count>>

\* The call fails when the queue is shut down, or for a reason of its own; the
\* loop ends either way.
ReceiveFails ==
    /\ receiver.pc = "receive"
    /\ At("ended", "none")
    /\ UNCHANGED <<req, gates, count>>

\* The constructor counts the context, and the first takes the event back.
CountIn ==
    /\ receiver.pc = "count"
    /\ outstanding' = outstanding + 1
    /\ req' = [req EXCEPT ![receiver.q].ctx = "made"]
    /\ At(IF outstanding = 0 THEN "reset" ELSE "start", receiver.q)
    /\ UNCHANGED <<gates, zeroEvent>>

ResetEvent ==
    /\ receiver.pc = "reset"
    /\ zeroEvent' = FALSE
    /\ At("start", receiver.q)
    /\ UNCHANGED <<req, gates, outstanding>>

\* async_process_request
StartRequest(started) ==
    LET x == [req[receiver.q] EXCEPT !.ctx = "live", !.refs = {"loop", "context"}]
    IN  /\ receiver.pc = "start"
        /\ req' = [req EXCEPT ![receiver.q] =
                      IF started THEN [x EXCEPT !.io = {"headers"}] ELSE Refuse(x)]
        /\ At("release", receiver.q)
        /\ UNCHANGED <<gates, count>>

\* The loop's own reference goes; if it was the last the destructor runs here.
LoopRelease ==
    /\ receiver.pc = "release"
    /\ LET x == Drop(req[receiver.q], "loop")
       IN  /\ req' = [req EXCEPT ![receiver.q] = x]
           /\ IF x.refs = {} /\ ~x.initiated THEN At("drop", receiver.q)
                                             ELSE At("receive", "none")
    /\ UNCHANGED <<gates, count>>

LoopDropped ==
    /\ receiver.pc = "drop" /\ req[receiver.q].ctx = "gone"
    /\ At("receive", "none")
    /\ UNCHANGED <<req, gates, count>>

ReceiverStep ==
    \/ CountIn \/ ResetEvent \/ LoopRelease \/ LoopDropped
    \/ \E started \in Works(receiver.q) : StartRequest(started)

-----------------------------------------------------------------------------
(* The completion of the headers, and the dispatch on its thread.             *)

HeadersFailed(q) ==
    /\ "headers" \in req[q].io
    /\ Update(q, Refuse([req[q] EXCEPT !.io = @ \ {"headers"}]))

\* The first chunk of the body is asked for before the request is dispatched,
\* or, if its URI does not parse, refused.
HeadersRead(q, outcome, good) ==
    /\ "headers" \in req[q].io
    /\ Update(q, [BodyChunk([req[q] EXCEPT !.io = @ \ {"headers"}], outcome)
                  EXCEPT !.thread = IF good THEN "dispatch" ELSE "bad"])

BadRequest(q) ==
    /\ req[q].thread = "bad"
    /\ Update(q, [InitCallbacks(Replied(req[q])) EXCEPT !.thread = "none"])

\* Registers the callbacks, after taking a reference of its own.
Dispatch(q) ==
    /\ req[q].thread = "dispatch"
    /\ Update(q, [InitCallbacks(req[q]) EXCEPT !.thread = "lookup",
                                               !.refs = @ \cup {"dispatch", "content"}])

Lookup_Unregistered(q) ==
    /\ req[q].thread = "lookup"
    /\ Update(q, [req[q] EXCEPT !.thread = "handler"])

\* Under the listeners' lock: not found, or the handler's lock is taken too.
Lookup(q) ==
    /\ req[q].thread = "lookup"
    /\ Update(q, IF registered THEN [req[q] EXCEPT !.thread = "handler"]
                 ELSE [Replied(req[q]) EXCEPT !.thread = "return"])

HandlerReply(q) ==
    /\ req[q].thread = "handler" /\ ~req[q].initiated
    /\ Update(q, Replied(req[q]))

\* The handler copies the request to reply later, from another thread.
HandlerKeep(q) ==
    /\ req[q].thread = "handler" /\ "user" \notin req[q].refs
    /\ Update(q, [req[q] EXCEPT !.refs = @ \cup {"user"}])

HandlerReturn(q) ==
    /\ req[q].thread = "handler"
    /\ Update(q, [req[q] EXCEPT !.thread = "return"])

\* It throws, by itself or because it replied twice.
HandlerThrow(q) ==
    /\ req[q].thread = "handler"
    /\ Update(q, [req[q] EXCEPT !.thread = "thrown"])

ReplyForHandler(q) ==
    /\ req[q].thread = "thrown"
    /\ Update(q, [ReplyIfNotAlready(req[q]) EXCEPT !.thread = "return"])

DispatchReturn(q) ==
    /\ req[q].thread = "return"
    /\ Update(q, [Drop(req[q], "dispatch") EXCEPT !.thread = "none"])

UserReply(q) ==
    /\ "user" \in req[q].refs /\ ~req[q].initiated
    /\ Update(q, Replied(req[q]))

UserDrop(q) ==
    /\ "user" \in req[q].refs
    /\ Update(q, Drop(req[q], "user"))

DispatchStep(q) ==
    \/ BadRequest(q) \/ Dispatch(q) \/ Lookup(q) \/ HandlerReturn(q)
    \/ q \notin Plain /\ HandlerThrow(q)
    \/ ReplyForHandler(q) \/ DispatchReturn(q)

-----------------------------------------------------------------------------
(* The body of the request, and the two continuations.                        *)

\* read_body_io_completion of the last chunk; one that is followed by another
\* leaves the same operation pending.
BodyRead(q, outcome) ==
    /\ "body" \in req[q].io
    /\ Update(q, BodyChunk([req[q] EXCEPT !.io = @ \ {"body"}], outcome))

ContentReady_KeepsMessage(q) ==
    /\ req[q].content = "armed" /\ req[q].body = "complete"
    /\ Update(q, [Drop(req[q], "content") EXCEPT !.proxy = "set", !.content = "done"])

\* The continuation of content_ready(): the context lets go of the request.
ContentReady(q) ==
    /\ req[q].content = "armed" /\ req[q].body = "complete"
    /\ Update(q, [Drop(Drop(req[q], "context"), "content")
                  EXCEPT !.proxy = "set", !.content = "done"])

\* The body could not be read: whatever the reply, the request is cancelled.
ContentFailed(q, started) ==
    /\ req[q].content = "armed" /\ req[q].body = "failed"
    /\ Update(q, CancelRequest([Drop(req[q], "context")
                                EXCEPT !.proxy = "failed", !.content = "release"], started))

\* That continuation ends, and its copy of the request goes.
ContentRelease(q) ==
    /\ req[q].content = "release"
    /\ Update(q, [Drop(req[q], "content") EXCEPT !.content = "done"])

\* The continuation of get_response(): nobody replied, or the response waits
\* until the body has been read.
NoResponse(q) ==
    /\ req[q].sender = "armed" /\ req[q].response = "canceled"
    /\ Update(q, [req[q] EXCEPT !.sender = "done"])

SenderWait(q) ==
    /\ req[q].sender = "armed" /\ req[q].response = "set"
    /\ Update(q, [req[q] EXCEPT !.sender = "waiting"])

SenderAborted(q) ==
    /\ req[q].sender = "waiting" /\ req[q].proxy = "failed"
    /\ Update(q, [req[q] EXCEPT !.sender = "done"])

SendResponse_Early(q, sending, n, started, canceled) ==
    /\ req[q].sender = "waiting"
    /\ Update(q, StartSend([req[q] EXCEPT !.sender = "done", !.sending = sending, !.left = n],
                           "response", started, canceled))

\* async_process_response of a response without a body, with one of known
\* length or with one that is transfer-encoded.
SendResponse(q, sending, n, started, canceled) ==
    /\ req[q].sender = "waiting" /\ req[q].proxy = "set"
    /\ Update(q, StartSend([req[q] EXCEPT !.sender = "done", !.sending = sending, !.left = n],
                           "response", started, canceled))

\* async_process_response throws before anything is sent (a reason or a header
\* that is not UTF-16, no memory), and "catch (...) { }" swallows it: nobody
\* cancels the request, nor ever sets m_response_completed.
ResponseThrows(q) ==
    /\ req[q].sender = "waiting" /\ req[q].proxy = "set"
    /\ Update(q, [req[q] EXCEPT !.sender = "thrown"])

-----------------------------------------------------------------------------
(* The response on the wire.                                                  *)

\* send_response_io_completion, send_response_body_io_completion
Sent(q, operation) ==
    /\ operation \in req[q].io
    /\ Update(q, TransmitBody([req[q] EXCEPT !.io = @ \ {operation}]))

SendFailed(q, operation, canceled) ==
    /\ operation \in req[q].io
    /\ Update(q, CancelRequest([req[q] EXCEPT !.io = @ \ {operation}], canceled))

ChunkRead_Unchecked(q, started, canceled) ==
    /\ req[q].reading
    /\ Update(q, StartSend([req[q] EXCEPT !.reading = FALSE, !.left = @ - 1],
                           "chunk", started, canceled))

\* The stream of the body delivers a chunk, which is sent.
ChunkRead(q, started, canceled) ==
    /\ req[q].reading /\ req[q].left > 0
    /\ Update(q, StartSend([req[q] EXCEPT !.reading = FALSE, !.left = @ - 1,
                                !.sending = IF @ = "chunks" /\ req[q].left = 1 THEN "none" ELSE @],
                           "chunk", started, canceled))

\* It ends: the last, empty chunk of an encoded body.
EncodingEnds(q, started, canceled) ==
    /\ req[q].reading /\ req[q].sending = "encoding"
    /\ Update(q, StartSend([req[q] EXCEPT !.reading = FALSE, !.sending = "none"],
                           "chunk", started, canceled))

\* It throws, or ends before the announced length has been read.
StreamFails(q, canceled) ==
    /\ req[q].reading
    /\ Update(q, CancelRequest([req[q] EXCEPT !.reading = FALSE], canceled))

CancelCompleted(q) ==
    /\ "cancel" \in req[q].io
    /\ Update(q, [req[q] EXCEPT !.io = @ \ {"cancel"}, !.completed = "failed"])

BreakCycle_AtOnce(q) ==
    /\ req[q].response = "set"
    /\ req[q].ctx = "live" /\ req[q].completed # "none"
    /\ Update(q, [req[q] EXCEPT !.ctx = "destroy"])

\* The continuation of m_response_completed takes the context from the response.
BreakCycle(q) ==
    /\ req[q].sender \in {"waiting", "thrown", "done"} /\ req[q].response = "set"
    /\ req[q].ctx = "live" /\ req[q].completed # "none"
    /\ Update(q, [req[q] EXCEPT !.ctx = "destroy"])

\* The destructor: the count first, ...
CountOut(q) ==
    /\ req[q].ctx = "destroy"
    /\ outstanding' = outstanding - 1
    /\ req' = [req EXCEPT ![q].ctx = IF outstanding = 1 THEN "signal" ELSE "gone"]
    /\ UNCHANGED <<receiver, gates, zeroEvent>>

\* ... then, for the last, the event.
SetEvent(q) ==
    /\ req[q].ctx = "signal"
    /\ zeroEvent' = TRUE
    /\ req' = [req EXCEPT ![q].ctx = "gone"]
    /\ UNCHANGED <<receiver, gates, outstanding>>

ResponseStep(q) ==
    \E started \in Works(q), canceled \in Works(q) :
        \/ SendResponse(q, "none", 0, started, canceled)
        \/ ChunkRead(q, started, canceled) \/ EncodingEnds(q, started, canceled)
        \/ /\ q \notin Plain
           /\ \E sending \in {"chunks", "encoding"}, n \in 1..MaxChunks :
                SendResponse(q, sending, n, started, canceled)

FailureStep(q) ==
    /\ q \notin Plain
    /\ \/ HeadersFailed(q)
       \/ \E canceled \in BOOLEAN :
            \/ ContentFailed(q, canceled) \/ StreamFails(q, canceled)
            \/ \E operation \in {"response", "chunk"} : SendFailed(q, operation, canceled)

BodyOutcomes(q) == IF q \in Plain THEN {"complete"} ELSE {"complete", "failed"}

ContextStep(q) ==
    \/ \E good \in Works(q), outcome \in BodyOutcomes(q) : HeadersRead(q, outcome, good)
    \/ q \notin Plain /\ \E good \in BOOLEAN : HeadersRead(q, "pending", good)
    \/ \E outcome \in BodyOutcomes(q) : BodyRead(q, outcome)
    \/ ContentReady(q) \/ ContentRelease(q)
    \/ NoResponse(q) \/ SenderWait(q) \/ SenderAborted(q)
    \/ q \notin Plain /\ ResponseThrows(q)
    \/ \E operation \in {"response", "chunk"} : Sent(q, operation)
    \/ ResponseStep(q) \/ FailureStep(q)
    \/ CancelCompleted(q) \/ BreakCycle(q) \/ CountOut(q) \/ SetEvent(q)

-----------------------------------------------------------------------------
(* http_listener::close(): unregister_listener and, for the last, stop.       *)

Unregister ==
    /\ closer = "open"
    /\ registered' = FALSE /\ closer' = "quiesce"
    /\ UNCHANGED <<req, receiver, urlOpen, queueOpen, count>>

\* The write lock of the handler: nobody holds it for reading.
Quiesce ==
    /\ closer = "quiesce" /\ \A q \in Requests : req[q].thread # "handler"
    /\ closer' = "url"
    /\ UNCHANGED <<req, receiver, urlOpen, queueOpen, registered, count>>

\* Unless it was the last listener, the server goes on without it.
CloseUrlGroup(last) ==
    /\ closer = "url"
    /\ urlOpen' = FALSE
    /\ closer' = IF last THEN "shutdown" ELSE "closed"
    /\ UNCHANGED <<req, receiver, queueOpen, registered, count>>

Shutdown ==
    /\ closer = "shutdown"
    /\ queueOpen' = FALSE /\ closer' = "receiving"
    /\ UNCHANGED <<req, receiver, urlOpen, registered, count>>

WaitForReceiver ==
    /\ closer = "receiving" /\ receiver.pc = "ended"
    /\ closer' = "zero"
    /\ UNCHANGED <<req, receiver, urlOpen, queueOpen, registered, count>>

WaitForZero ==
    /\ closer = "zero" /\ zeroEvent
    /\ closer' = "queue"
    /\ UNCHANGED <<req, receiver, urlOpen, queueOpen, registered, count>>

CloseQueue ==
    /\ closer = "queue"
    /\ closer' = "closed"
    /\ UNCHANGED <<req, receiver, urlOpen, queueOpen, registered, count>>

CloserStep ==
    \/ Quiesce \/ Shutdown \/ WaitForReceiver \/ WaitForZero \/ CloseQueue
    \/ \E last \in BOOLEAN : CloseUrlGroup(last)

HandlerStep(q) == HandlerReply(q) \/ (q \notin Plain /\ HandlerKeep(q)) \/ UserReply(q)

Next ==
    \/ \E q \in Requests :
        Receive(q) \/ DispatchStep(q) \/ HandlerStep(q) \/ UserDrop(q) \/ ContextStep(q)
    \/ ReceiverStep \/ ReceiveFails \/ Unregister \/ CloserStep

\* HTTP.sys completes every operation and fails the pending receive once the
\* queue is shut down; the pool runs every continuation; handlers return and
\* let go of the requests they keep; the stream of a response delivers or ends.
Fairness ==
    /\ WF_vars(ReceiverStep)
    /\ WF_vars(~queueOpen /\ ReceiveFails)
    /\ WF_vars(CloserStep)
    /\ \A q \in Requests :
        /\ WF_vars(DispatchStep(q)) /\ WF_vars(UserDrop(q))
        /\ WF_vars(ContextStep(q))

Spec == Init /\ [][Next]_vars
FairSpec == Spec /\ Fairness

-----------------------------------------------------------------------------
(* Properties.                                                                *)

Alive(q) == req[q].ctx = "live"
Destroyed(q) == req[q].ctx \in {"destroy", "signal", "gone"}

TypeOK ==
    /\ req \in [Requests -> Context]
    /\ receiver \in Receiver
    /\ urlOpen \in BOOLEAN /\ queueOpen \in BOOLEAN
    /\ registered \in BOOLEAN
    /\ closer \in Closers
    /\ outstanding \in Nat /\ zeroEvent \in BOOLEAN

\* m_overlapped is reused from one operation to the next ("we risk racing over
\* m_overlapped", http_server_httpsys.cpp:568): a context never has two
\* operations pending, nor one while it reads the stream of its response.
OverlappedExclusive ==
    \A q \in Requests : /\ Cardinality(req[q].io) <= 1
                        /\ req[q].reading => req[q].io = {}

\* No continuation, completion or thread that uses the context is left when
\* its destructor runs.  The one exception is a request that nobody replied to
\* and whose body failed: its last reference may go while the cancellation the
\* failure started is pending.
ContextOutlivesUse ==
    \A q \in Requests :
        Destroyed(q) =>
            /\ req[q].io = {} \/ (~req[q].initiated /\ req[q].body = "failed"
                                    /\ req[q].io = {"cancel"})
            /\ ~req[q].reading
            /\ req[q].content # "armed"
            /\ req[q].sender = "armed" => req[q].response = "canceled"
            /\ req[q].sender = "waiting" => req[q].proxy = "failed"
            /\ req[q].thread \notin {"dispatch", "bad"}

\* The count is the number of contexts whose destructor has not counted them
\* out, however constructors and destructors interleave; and a count of zero is
\* always announced, unless a destructor is about to set the event.
CountExact ==
    /\ outstanding =
        Cardinality({q \in Requests : req[q].ctx \in {"made", "live", "destroy"}})
    /\ outstanding = 0 /\ (\A q \in Requests : req[q].ctx # "signal") => zeroEvent

\* A context is used by one operation at a time, lives as long as it is used, and
\* is counted for as long as it lives.
ContextSound == OverlappedExclusive /\ ContextOutlivesUse /\ CountExact

\* stop(): "Wait for all requests to be finished processing"
\* (http_server_httpsys.cpp:392).
StopDrains ==
    closer \in {"queue", "closed"} /\ ~queueOpen =>
        \A q \in Requests : req[q].ctx \in {"none", "gone"}

\* The listener's promise: see RequestService.
PhaseOf(x) ==
    CASE x.ctx \in {"none", "made"} -> "unseen"
      [] x.ctx \in {"destroy", "signal", "gone"} -> "released"
      [] OTHER -> CASE x.completed = "ok" -> "sent"
                    [] x.completed = "failed" -> "aborted"
                    [] OTHER -> IF x.initiated THEN "replied" ELSE "open"

Service == INSTANCE RequestService WITH
    phase <- [q \in Requests |-> PhaseOf(req[q])],
    running <- {q \in Requests : req[q].thread = "handler"},
    gate <- CASE closer = "open" -> "open"
              [] closer = "quiesce" -> "draining"
              [] OTHER -> "closed"

ImplementsService == Service!Spec

\* close() returns, and every request it waited for was let go: no cycle of
\* references and no lost event keeps it waiting.  The exception is a response
\* whose start threw, which nobody will complete: its context stays for ever,
\* and stop() waits for it at http_server_httpsys.cpp:393.
Swallowed(q) == req[q].sender = "thrown"
CloseReturns == closer # "open" ~> closer = "closed" \/ \E q \in Requests : Swallowed(q)
RequestsEnd == \A q \in Requests : Alive(q) ~> req[q].ctx = "gone" \/ Swallowed(q)
EverythingEnds == CloseReturns /\ RequestsEnd
=============================================================================
