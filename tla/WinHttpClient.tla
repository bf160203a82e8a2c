--------------------------- MODULE WinHttpClient ---------------------------
(* The HTTP client over WinHTTP (http_client_winhttp.cpp), which the agent     *)
(* uses: the life of a request from propagate() to the deletion of its         *)
(* context, with the body sent in pieces, requests sent again when the server  *)
(* or a proxy asks for credentials, the response read as it comes, and the     *)
(* cancellation, which closes the handle of the request at any time.           *)
(*                                                                             *)
(* A context is deleted by finish(), so nothing may be outstanding then: an    *)
(* operation of WinHTTP or of a stream that completes later would use it.  An  *)
(* operation that completes with success although the handle was closed is one *)
(* whose callback was about to run, and finds out at its next call.            *)
EXTENDS Integers, Sequences, FiniteSets

CONSTANTS
    WinN,       \* requests 1..WinN, issued in this order
    Pieces,     \* the pieces of the stream of a request
    Chunk,      \* chunksize(), in the unit of the lengths of responses
    Worlds      \* clients, their requests and servers

\* challenge: who asks for credentials (401 or 407).  packed: compressed.
AllWinReplies ==
    [challenge : {"none", "server", "proxy"}, length : Nat,
     encoding : {"plain", "packed", "unknown"}]

\* order: guarantee_order.  start: what was read of the streams before they were
\* given to a request.  seekable: can_seek() of the streams.  buffer:
\* buffer_request.  heads: the requests whose method is HEAD.  chunksize: whether
\* the user set it.  challenges: how often WinHTTP asks to resend a request.
AllWorlds ==
    [order : BOOLEAN, bodies : [1..WinN -> {"none", "sized", "chunked"}],
     start : 0..(Pieces - 1), seekable : BOOLEAN, buffer : BOOLEAN, heads : SUBSET (1..WinN),
     cancellable : SUBSET (1..WinN), credentials : BOOLEAN, chunksize : BOOLEAN,
     challenges : Nat, replies : SUBSET AllWinReplies]

ASSUME WinHttpClientAssumption ==
    /\ WinN \in Nat \ {0} /\ Pieces \in Nat \ {0} /\ Chunk \in Nat \ {0}
    /\ \A one \in Worlds : one \in AllWorlds

VARIABLES
    world,          \* one of Worlds
    request,        \* request[r]: the context of a request
    calls,          \* m_scheduled
    waiting         \* m_requests_queue

winVars == <<world, request, calls, waiting>>

-----------------------------------------------------------------------------
WinRequests == 1..WinN
KernelOps == {"sending", "writing", "receiving", "querying", "reading"}
StreamOps == {"getn", "putn"}
Nowhere == -1

Body == [i \in 1..Pieces |-> i]
Whole == SubSeq(Body, world.start + 1, Pieces)
Issued(r) == request[r].at # "unused"
Gone(r) == request[r].at = "gone"

\* winhttp_request_context(), with its request and response.
NewContext ==
    [at |-> "unused", pending |-> {}, handle |-> "none",
     listening |-> FALSE, canceled |-> FALSE, answer |-> "none", content |-> "none",
     bodyType |-> "none", remaining |-> 0, data |-> Body, pos |-> world.start,
     seekable |-> world.seekable, copying |-> FALSE, copy |-> <<>>,
     startingPosition |-> Nowhere, sent |-> <<>>, held |-> FALSE,
     tried |-> {}, resends |-> 0,
     left |-> 0, packed |-> FALSE, asked |-> 0, bytes |-> 0]

WinInit ==
    /\ world \in Worlds
    /\ request = [r \in WinRequests |-> NewContext]
    /\ calls = 0 /\ waiting = <<>>

\* The context goes on as y and nothing else changes.
Becomes(r, y) ==
    /\ request' = [request EXCEPT ![r] = y]
    /\ UNCHANGED <<world, calls, waiting>>

-----------------------------------------------------------------------------
\* ~winhttp_request_context(), after the cancellation has been deregistered.  Of
\* the members only what was told stays, and what would still complete.
Deleted(y) ==
    [NewContext EXCEPT !.at = "gone", !.canceled = y.canceled, !.pending = y.pending,
        !.answer = y.answer, !.content = y.content, !.left = y.left, !.packed = y.packed,
        !.handle = IF y.handle = "open" THEN "closed" ELSE y.handle]

\* finish() and finish_request(): the next in the queue is scheduled.
Finishes(r, y) ==
    /\ calls' = IF world.order THEN calls - 1 ELSE calls
    /\ waiting' = IF waiting = <<>> THEN waiting ELSE Tail(waiting)
    /\ request' = [s \in WinRequests |->
            IF s = r THEN Deleted(y)
            ELSE IF waiting # <<>> /\ s = Head(waiting) THEN [request[s] EXCEPT !.at = "task"]
            ELSE request[s]]
    /\ UNCHANGED world

\* report_error() and report_exception().
Fail(r, y) ==
    Finishes(r, [y EXCEPT
        !.answer = IF @ # "none" THEN @ ELSE IF y.canceled THEN "canceled" ELSE "error",
        !.content = IF y.answer = "none" THEN "complete" ELSE "failed"])

\* complete_request().
Completes(r, y) == Finishes(r, [y EXCEPT !.content = "complete"])

\* A call of WinHTTP that starts an operation, or fails and is reported.
Api(r, y, op) ==
    \/ y.handle = "open" /\ Becomes(r, [y EXCEPT !.pending = @ \cup {op}])
    \/ Fail(r, y)

Done(r, op) == [request[r] EXCEPT !.pending = @ \ {op}]

-----------------------------------------------------------------------------
\* propagate(), async_send_request() and push_request().
WinPropagate(r) ==
    /\ ~Issued(r) /\ \A s \in 1..(r - 1) : Issued(s)
    /\ LET first == ~world.order \/ calls + 1 = 1 IN
       /\ request' = [request EXCEPT ![r].at = IF first THEN "task" ELSE "queued"]
       /\ waiting' = IF first THEN waiting ELSE Append(waiting, r)
    /\ calls' = IF world.order THEN calls + 1 ELSE calls
    /\ UNCHANGED world

\* The token of a request: its callback is cleanup(), which closes the handle.
WinCancel(r) ==
    /\ r \in world.cancellable /\ Issued(r) /\ ~Gone(r) /\ ~request[r].canceled
    /\ Becomes(r, [request[r] EXCEPT
            !.canceled = TRUE,
            !.handle = IF request[r].listening /\ @ = "open" THEN "closed" ELSE @])

\* The kind of a body and what there is to write of it.
WithBody(r, y) ==
    [y EXCEPT !.bodyType = world.bodies[r],
              !.remaining = IF world.bodies[r] = "sized" THEN Len(Whole) ELSE 0]

\* _start_request_send().
StartRequestSend(r, y) ==
    Api(r, [y EXCEPT !.sent = <<>>,
                     !.startingPosition = IF y.bodyType = "none" THEN @ ELSE y.pos],
        "sending")

\* open_and_send_request() and send_request().  A callback that is registered
\* with a token already cancelled runs at once.
SendRequest(r) ==
    /\ request[r].at = "task"
    /\ LET x == [request[r] EXCEPT !.at = "live"]
           y == WithBody(r, [x EXCEPT
                    !.handle = IF x.canceled /\ r \in world.cancellable THEN "closed" ELSE "open",
                    !.listening = r \in world.cancellable,
                    !.copying = world.buffer /\ ~x.seekable /\ world.bodies[r] # "none"])
       IN  \/ Fail(r, x)
           \/ StartRequestSend(r, y)

-----------------------------------------------------------------------------
\* The next piece of the stream is sent.
Written(y) ==
    LET remaining == IF y.bodyType = "sized" THEN y.remaining - 1 ELSE 0 IN
    [y EXCEPT !.sent = Append(@, y.data[y.pos + 1]),
              !.remaining = remaining,
              !.bodyType = IF @ = "sized" /\ remaining = 0 THEN "none" ELSE @]

\* What follows when the headers or a part of the body have been sent:
\* _transfer_encoding_chunked_write_data, _multiple_segment_write_data, where the
\* stream may or may not lend a block, or WinHttpReceiveResponse.
Continue(r, y) ==
    \/ y.bodyType \in {"chunked", "sized"} /\ Becomes(r, [y EXCEPT !.pending = @ \cup {"getn"}])
    \/ y.bodyType = "sized" /\ Fail(r, y)
    \/ /\ y.bodyType = "sized" /\ y.pos < Len(y.data)
       /\ Api(r, [Written(y) EXCEPT !.held = TRUE], "writing")
    \/ y.bodyType = "none" /\ Api(r, y, "receiving")

\* The position the stream was at can be reached again.
Rewinds(y) ==
    y.startingPosition # Nowhere => y.seekable /\ y.startingPosition <= Len(y.data)

\* Variants, here and below, are plausible mistakes in the definition that
\* follows; PROJECT.json pairs each with the property that detects it.

\* A mutant: the kind of the body is not set again.
Rewound_NoBody(r, y) ==
    [y EXCEPT !.pos = IF y.startingPosition = Nowhere THEN @ ELSE y.startingPosition]

Rewound(r, y) ==
    WithBody(r, [y EXCEPT !.pos = IF y.startingPosition = Nowhere THEN @ ELSE y.startingPosition])

\* REQUEST_ERROR; WinHTTP may ask to send the request again.
RequestError(r, y, op) ==
    \/ Fail(r, y)
    \/ /\ op \in {"sending", "receiving"} /\ y.resends < world.challenges /\ Rewinds(y)
       /\ StartRequestSend(r, [Rewound(r, y) EXCEPT !.resends = @ + 1])

OperationError(r) ==
    \E op \in request[r].pending \cap KernelOps : RequestError(r, Done(r, op), op)

\* The handlers that call the progress handler of the user, which may throw.
UserThrows(r) ==
    \E op \in request[r].pending \cap {"sending", "writing", "querying", "reading"} :
        /\ op = "sending" => world.bodies[r] = "none"
        /\ op = "querying" => request[r].left = 0
        /\ Fail(r, Done(r, op))

\* SENDREQUEST_COMPLETE.
SendRequestComplete(r) ==
    /\ "sending" \in request[r].pending
    /\ Continue(r, Done(r, "sending"))

\* WRITE_COMPLETE, which gives a borrowed block back.
WriteComplete(r) ==
    /\ "writing" \in request[r].pending
    /\ LET y == Done(r, "writing") IN
       Continue(r, IF y.held THEN [y EXCEPT !.held = FALSE, !.pos = @ + 1] ELSE y)

\* The end of a chunked body: what was copied of it is the stream from now on.
AtEnd(y) ==
    LET z == [y EXCEPT !.bodyType = "none"] IN
    IF y.copying
    THEN [z EXCEPT !.data = y.copy, !.pos = 0, !.seekable = TRUE, !.copying = FALSE]
    ELSE z

\* The continuations of getn.
PieceRead(r) ==
    /\ "getn" \in request[r].pending
    /\ LET y == Done(r, "getn")
           z == [Written(y) EXCEPT !.pos = @ + 1,
                    !.copy = IF y.copying /\ y.bodyType = "chunked"
                             THEN Append(@, y.data[y.pos + 1]) ELSE @]
       IN  \/ Fail(r, y)
           \/ y.pos < Len(y.data) /\ Api(r, z, "writing")
           \/ y.pos = Len(y.data) /\ y.bodyType = "chunked" /\ Api(r, AtEnd(y), "writing")

-----------------------------------------------------------------------------
\* read_next_response_chunk().  A response is at its end when less came than was
\* asked for; with the chunk size of the library, when no data is available.
ReadNextResponseChunk(r, y, bytes, first) ==
    IF ~world.chunksize THEN Api(r, y, "querying")
    ELSE IF bytes < Chunk /\ ~first THEN Completes(r, y)
    ELSE Api(r, [y EXCEPT !.asked = Chunk], "reading")

\* The response of a request is told, and its body read.  An encoding that is not
\* known is reported, which deletes the context; the code goes on with the deleted
\* context, and the model stops there.
Respond(r, y, reply) ==
    LET z == [y EXCEPT !.answer = "response", !.left = reply.length,
                       !.packed = (reply.encoding = "packed")]
    IN  CASE reply.encoding = "unknown" -> Fail(r, y)
          [] reply.encoding # "unknown" /\ r \in world.heads ->
                Completes(r, [z EXCEPT !.left = 0])
          [] OTHER -> ReadNextResponseChunk(r, z, 0, TRUE)

\* HEADERS_AVAILABLE and handle_authentication_failure().  The schemes the peer
\* supports, or the credentials, may not do.
HeadersAvailable(r) ==
    /\ "receiving" \in request[r].pending
    /\ LET y == Done(r, "receiving") IN
       \/ Fail(r, y)
       \/ \E reply \in world.replies :
            /\ reply.challenge # "none" /\ reply.challenge \notin y.tried
            /\ world.credentials /\ Rewinds(y) /\ y.handle = "open"
            /\ StartRequestSend(r, [Rewound(r, y) EXCEPT !.tried = @ \cup {reply.challenge}])
       \/ \E reply \in world.replies : Respond(r, y, reply)

\* DATA_AVAILABLE.
DataAvailable(r) ==
    /\ "querying" \in request[r].pending
    /\ LET y == Done(r, "querying") IN
       \/ \E n \in 1..y.left : Api(r, [y EXCEPT !.asked = n], "reading")
       \/ y.left = 0 /\ Completes(r, y)

\* READ_COMPLETE.  What is compressed may decompress to nothing yet, or fail.
\* The stream of the response may or may not have lent the space.
ReadComplete(r) ==
    /\ "reading" \in request[r].pending
    /\ LET y == Done(r, "reading")
           got == IF y.asked < y.left THEN y.asked ELSE y.left
           z == [y EXCEPT !.left = @ - got]
       IN  \/ got = 0 /\ Completes(r, y)
           \/ got > 0 /\ y.packed /\ Fail(r, z)
           \/ got > 0 /\ \E bytes \in IF y.packed THEN {0, got} ELSE {got} :
                \/ ReadNextResponseChunk(r, z, bytes, FALSE)
                \/ Becomes(r, [z EXCEPT !.bytes = bytes, !.pending = @ \cup {"putn"}])

\* The continuation of putn_nocopy.
PutDone(r) ==
    /\ "putn" \in request[r].pending
    /\ LET y == Done(r, "putn") IN
       \/ Fail(r, y)
       \/ ReadNextResponseChunk(r, y, y.bytes, FALSE)

-----------------------------------------------------------------------------
WinStep(r) ==
    \/ SendRequest(r) \/ SendRequestComplete(r) \/ WriteComplete(r) \/ PieceRead(r)
    \/ HeadersAvailable(r) \/ DataAvailable(r) \/ ReadComplete(r) \/ PutDone(r)
    \/ OperationError(r) \/ UserThrows(r)

WinNext == \E r \in WinRequests : WinStep(r) \/ WinPropagate(r) \/ WinCancel(r)

-----------------------------------------------------------------------------
WinContext ==
    [at : {"unused", "queued", "task", "live", "gone"},
     pending : SUBSET (KernelOps \cup StreamOps), handle : {"none", "open", "closed"},
     listening : BOOLEAN, canceled : BOOLEAN,
     answer : {"none", "response", "error", "canceled"},
     content : {"none", "complete", "failed"},
     bodyType : {"none", "sized", "chunked"}, remaining : 0..Pieces,
     data : Seq(1..Pieces), pos : 0..Pieces, seekable : BOOLEAN,
     copying : BOOLEAN, copy : Seq(1..Pieces), startingPosition : Nowhere..Pieces,
     sent : Seq(1..Pieces), held : BOOLEAN,
     tried : SUBSET {"server", "proxy"}, resends : Nat,
     left : Nat, packed : BOOLEAN, asked : Nat, bytes : Nat]

\* Every variable has its type; what is left to write never passes below zero.
WinTypeOK ==
    /\ world \in Worlds
    /\ DOMAIN request = WinRequests /\ \A r \in WinRequests : request[r] \in WinContext
    /\ calls \in 0..WinN /\ waiting \in Seq(WinRequests)

\* While a context lives one operation is outstanding, and when it has been
\* deleted none, so that no callback finds it gone; its handle is closed.
DeletedLast ==
    \A r \in WinRequests :
        LET x == request[r] IN
        /\ Cardinality(x.pending) = IF x.at = "live" THEN 1 ELSE 0
        /\ Gone(r) => x.handle # "open"

\* The answer is told before the content, and both before the context goes.
ToldOnce ==
    \A r \in WinRequests :
        LET x == request[r] IN
        /\ Gone(r) <=> x.content # "none"
        /\ Gone(r) => x.answer # "none"
        /\ x.content = "failed" => x.answer = "response"
        /\ ~Gone(r) => x.answer \in {"none", "response"}

\* With guarantee_order one request is sent at a time, as they were issued.
OneAtATime ==
    world.order =>
        /\ calls = Cardinality({r \in WinRequests : Issued(r) /\ ~Gone(r)})
        /\ \A r, s \in WinRequests :
            r < s /\ Issued(s) /\ ~Gone(r) => request[s].at \in {"unused", "queued"}

\* The response is asked for when all of the body has been sent, also when it is
\* sent again; not so of the copy of a stream that was not at its beginning,
\* which is rewound to the position the stream had.  A borrowed block has been
\* given back before the stream is read again.
SentAll ==
    \A r \in WinRequests :
        LET x == request[r] IN
        /\ "receiving" \in x.pending /\ world.bodies[r] # "none" =>
            x.sent = Whole \/ (world.start > 0 /\ x.data # Body)
        /\ x.pending # {} /\ x.held => "writing" \in x.pending

\* A response whose content is complete has been read to its end, unless it was
\* decompressed in chunks of the user's size.
ReceivedAll ==
    \A r \in WinRequests :
        LET x == request[r] IN
        Gone(r) /\ x.answer = "response" /\ x.content = "complete" =>
            x.left = 0 \/ (x.packed /\ world.chunksize)

\* Requests over WinHTTP are sound (winhttp_request_context, completion_callback).
WinRequestsSound == DeletedLast /\ ToldOnce /\ OneAtATime /\ SentAll /\ ReceivedAll

\* Every request ends, if WinHTTP completes its operations, as its timeouts
\* provide for, and the user's streams do.
WinRequestsEnd == \A r \in WinRequests : Issued(r) ~> Gone(r)
=============================================================================
