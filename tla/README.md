# Formal models of the software inventory and of the C++ REST SDK under it

The repository is a small distributed program, a software inventory, together
with the copy of the C++ REST SDK ("Casablanca") that it is built on.  An
*agent* (`ResourceAgent`, an MFC dialogue) enumerates the programs installed on
a computer and posts the list to a *server* (`IIS_Server`, a console program),
which keeps the last list of every computer and serves a *web page*
(`InstalledSoftware/installed_software_layout.html`) that shows them.  The agent
posts through the SDK's `http_client` over WinHTTP; the server runs on its
`http_listener` over Windows HTTP.sys; every message body passes through the
SDK's streams; JSON, URIs and tasks are the SDK's.  These models cover the path
from the registry to the table on the page, and the SDK below it: its servers
and clients on both kinds of platforms, its streams, its tasks, and the
algorithms on texts and numbers that the rest relies on.

Paths below are relative to `src/ResourceMonitoring/`; `cpprest/` and `pplx/`
stand for the directories of `Casablanca/include/`.

## 1. Inventory of the system

| Component | State | Operations | Talks to |
|---|---|---|---|
| Producer/consumer buffer (`cpprest/producerconsumerstream.h`, `cpprest/astreambuf.h`) | queue of blocks, `m_total`, `m_total_read`, `m_total_written`, `m_synced`, parked requests, stream flags, current exception | putn, putc, alloc, commit, sync, close(out/in); getn, bumpc, getc, nextc; sbumpc, sgetc, scopy; acquire, release | one producer thread, consumers, continuations on pool threads; one lock, flags outside it |
| HTTP.sys server (`http_server_httpsys.cpp`) | per request a `windows_request_context` with one `OVERLAPPED`; registered listeners; outstanding count and zero event; receive task | receive, read headers, dispatch, read body, reply, send response and chunks, cancel, destroy; register, unregister, start, stop | kernel completions, continuations, request handlers |
| Server API and listeners (`http_server_api.cpp`, `http_listener.cpp`) | `s_lock`, `s_server_api`, `s_registrations`; `m_closed` of each listener | open, close, register/unregister a listener, register/unregister a server | tasks of the pool; the server |
| Asio server (`http_server_asio.cpp`) | `hostport_listener` with its connections and listeners; per connection the socket, `m_refs`, `m_request`, `m_close` | accept, read request and body, dispatch, reply, write, close; register, unregister, start, stop | handlers of asio on any thread of the pool; request handlers |
| Asio client (`http_client_asio.cpp`, `http_client.cpp`) | per request a context with its timer; the connections with their pool, epochs and timer; `m_scheduled` and the queue of guarantee_order | resolve, connect, tunnel, handshake, write and read, retry, time out, cancel, finish | handlers of asio, body streams, tokens |
| WinHTTP client (`http_client_winhttp.cpp`) | per request a context and its handle, the body kept for sending again, the borrowed block | send, write, receive, query, read, challenge and resend, cancel, finish | callbacks of WinHTTP, body streams, tokens |
| Websocket client (`ws_client_wspp.cpp`, `ws_client.cpp`) | `m_state`, `m_num_sends`, the queue of messages sent, those of receive(), the connection | connect, send, receive, close, destroy | the thread of asio, the pool |
| Files (`fileio_win32.cpp`, `fileio_posix.cpp`, `cpprest/filestream.h`) | buffer, positions, `m_atend`, queue of reads, outstanding writes | getn, bumpc, getc, nextc, ungetc, their synchronous forms, seek, size, putn, sync | completions of the platform |
| Tasks and tokens (`pplx/pplxtasks.h`, `pplx/pplxcancellation_token.h`) | task states, continuations, events; flag, list and reference counts of callbacks | create, then, set, set_exception, cancel, when_all, when_any; register, deregister, cancel | all of the above |
| Messages (`http_msg.cpp`, `http_headers.h`, `http_helpers.cpp`) | headers, body streams, the event of the data | set_body, receive, extract, to_string, length | clients, servers, users |
| Streams over memory (`cpprest/containerstream.h`, `rawptrstream.h`, `streams.h`) | positions, the acquired or allocated block | read, write, seek, alloc/commit, acquire/release; read_to_delim, read_line, read_to_end, extract | users |
| JSON, URIs, conversions, checked integers | data | parse, serialize, find; encode, split, join; base64, charsets, durations; arithmetic | users, each other |
| `IIS_Server/IIS_Server.cpp` | `json_buffer` shared by all handlers, `WorkgroupMap` | POST software_list; GET computerlist, softwarelist, list, files; PUT | request handlers on threads of their own |
| `ResourceAgent/ResourceAgentDlg.cpp`, `regenum.cpp` | `ProgramList`, the registry it reads | ReadInstalledSoftware, PostInstalledSoftwareList, the script of the button | the registry, the server |
| The page | list of computers, selection, table | $.GetGrpList, $.GetSoftwareList, their callbacks | the server, by asynchronous requests |
| WinRT client, TLS certificates, OAuth, thread pools | handles of the platform | - | - |

What is hard about it:

* **Interleaving.** Stream flags are changed outside the lock the requests are
  parked under; contexts count themselves in and out in two steps each; a timeout
  or a cancellation closes a handle between any completion and its handler;
  callbacks are deregistered while they run; handlers share a string and a map
  without a lock.
* **Lifetime.** Contexts, connections and client objects are kept by references
  from loops, messages, continuations and pending I/O, with cycles that one
  continuation has to break: too early is a use after destruction, too late is a
  `close()` that never returns.
* **Partial failure.** Every call to the platform may fail; opening, closing,
  sending and reading each have to give back what they took.
* **Retries.** A pooled connection may be dead, a server may ask for credentials:
  the request is sent again, with a body that was partly read.
* **Ordering.** Body and reply in any order; `open()` and `close()` in tasks that
  may overtake; late reports; answers to the page in any order.
* **Boundaries.** Blocks that are empty or just large enough; caches that are
  filled up unevenly; integers at the ends of their types; texts that end within
  an escape, a code point or a header.

What makes each part correct: a stream delivers each character once, in order,
and nobody waits in vain; a request is served, or sent, once, with its context
alive for every use and gone at the end, and its failure is told for what it is;
connections are neither shared nor lost; the count of listeners is exact and open
listeners are served whatever failed; a task has one outcome, which its
continuations see once; what the inventory stores is what was posted, and a lone
report is kept; the enumeration ends and misses nothing it could have seen; texts
and numbers that are written come back, and what is read is what the text says.
`PROJECT.json` lists the hazards at their lines and the properties that would
catch each.

## 2. Modules

| Module | Models |
|---|---|
| `CharStream` | abstract: what a stream of characters promises |
| `ProducerConsumerBuffer` | the buffer, with its blocks, counters, parked reads, flags and continuations |
| `ProducerConsumerBuffer_proofs` | theorems about it, and that it implements `CharStream` |
| `RequestService` | abstract: what a listener promises about requests |
| `HttpSysServer` | receive loop, request contexts, dispatch, `http_listener::close()` to `stop()` |
| `HttpSysServer_proofs` | theorems about it, and that it implements `RequestService` |
| `ServerApi` | open and close of listeners, the registration with the process's server, and start/stop with their failures |
| `HttpAsioServer`, `HttpAsioServer_proofs` | the same server over asio, with its connections; theorems |
| `HttpClient` | the client over asio, its pool, timeouts, retries |
| `WinHttpClient` | the client over WinHTTP |
| `HttpClients_proofs` | theorems about the pool, the failures and the requests of both clients |
| `PplxTasks` | tasks, continuations and events |
| `PplxTasks_proofs` | what is true of tasks and events at every step |
| `CancellationToken` | a token and its callbacks |
| `Pplx_proofs` | theorems about tasks, about tokens, and side by side |
| `WebsocketClient` | the websocket client over websocketpp |
| `FileBuffer` | buffered files of Windows and POSIX |
| `AsyncIO_proofs` | theorems about both, and side by side with `HttpSysServer` |
| `MemoryBuffers`, `Streams`, `Extraction` | streams over containers and plain memory; copies between streams and the readers of lines and texts; extraction of numbers and words |
| `HttpMessages` | bodies, lengths, charsets, headers and chunks |
| `JsonParser`, `JsonLexer`, `JsonValue` | tokens to values; characters to tokens and back; objects and numbers |
| `Uris`, `Conversions`, `SafeInt` | URIs; charsets, base64, durations; checked integers |
| `Inventory` | agents, POST handlers with their races, the map, the page |
| `SoftwareEnumeration` | `ReadInstalledSoftware` against installers |
| `Monitoring_proofs` | theorems about both, about `ServerApi`, and about the three side by side |
| `MC...` | instances for TLC |

`MCHttpClients`, `MCAsyncIO`, `MCMonitoring`, `MCPplx` and `MCData` check several
modules in one run: a variable `which`, chosen at the start, says which of them
runs, and the others keep their initial state.  A property that joins several
("side by side") is the conjunction of the properties of the modules, each
stated, with its comment, in its own module.

### ProducerConsumerBuffer

The data is abstracted to positions 0, 1, 2, ... of the stream; a block is the interval
`[rd, wr)` it still holds and the position `lim` its storage ends at. `m_lock` is held
by the producer over several steps only while it fulfils parked reads (`writer.pc =
"fulfil"`); every other critical section is a single step.  A write is `PutBegin` (the
unlocked test), `PutLocked`, one `Fulfil` for each request that can be satisfied,
`FulfilEnd`, and `PutEnd`; closing is `CloseBegin`, `CloseFlag` (the store before the
lock) and `CloseLocked`.  An asynchronous read is `StartAsync`, then `SetEof` and
`CheckEof` in its continuation; a synchronous one is `SyncCheck` (unlocked tests),
`SyncRead` and `SyncReturn`.  The loops of `read()` and `update_read_head()` are given
in closed form (`ReadLen`, `FirstKept`, `BlocksFrom`), so that they can be reasoned
about; `MCProducerConsumerBuffer` has the loops as the code writes them and `LoopsAgree`
compares the two in every state.  `Release` follows `release()`; `sgetn` is `scopy` in
steps of the same shape; `putn_nocopy` is `putn`.

Two caller obligations are in the guards because the code asserts them:
`commit(n)` is made with at most the size that was allocated, and a consumer
that has acquired a block releases it before it reads otherwise.

### HttpSysServer

`req[q]` is the record of one context: the references to its request, the two
completion events (`response`, `body`), the two continuations of
`init_response_callbacks` (`content`, `sender`), `m_response_completed`, the set
of operations pending on `m_overlapped`, the thread in
`dispatch_request_to_listener`, and the body still to be sent.  A C++ object
that dies with its last reference is `Drop`: it cancels the tasks that wait for
an event nobody set.  The constructor's and the destructor's two steps each
(`CountIn`/`ResetEvent`, `CountOut`/`SetEvent`) are separate.  Any operation may
fail when it is started or when it completes; the handler may reply, keep the
request and reply later, drop it, throw, or never reply.  The closing thread goes
through `Unregister`, `Quiesce` (the write lock of the listener), `CloseUrlGroup`
and, for the last listener, `Shutdown`, `WaitForReceiver`, `WaitForZero` and
`CloseQueue`.  `ResponseThrows` is an exception of `async_process_response()` itself,
which `catch (...) { }` swallows: nobody will complete that response.

### ServerApi

`open()` and `close()` set `m_closed` and leave a task in `pending`; a task that
runs takes `s_lock` (`lock.pc` says where it is) through start, register, undo,
unregister, leave, stop and end.  Failures are chosen at each call to HTTP.sys;
the handles keep the values the code leaves in them.  A task for a listener that
is not open sets `astray` and the model stops there: the code would go on with a
count that is one too low or dereference null, which only a user who does not
wait for his tasks can bring about.

### Inventory and SoftwareEnumeration

A post goes from the agent (`SendPost`, which may lose it) through the handler:
`Assign` to `json_buffer`, `ParseBegin` and `ParseEnd` (the second use of the
buffer), `InsertBegin` and `InsertEnd` (the map), `ReplyOK`; extraction or
parsing may throw.  Where two threads use one object together the outcome is a
choice: the text of either, a mixture of the two that may parse under any name
(`Torn`), a throw, a lost insertion, a dead server.  A mixture stays in `json_buffer`
and spoils what is read from it later.  The page's requests are answered in any
order.  The enumeration is the loop of the code with its three variables (`dwIndex`,
`cbName`, `szSubKeyName`), against `Install` and `Uninstall` at any index.
`RegEnumKeyEx` may fail with any error: once the Uninstall key itself is gone
(`RemoveRoot`) it always does (`EnumRefused`), and it may do so for once (`EnumErrs`);
the loop ends for `ERROR_NO_MORE_ITEMS` alone and else goes on with the next index,
which wraps at `IndexSize`.

### HttpClient and WinHttpClient

`ctx[c]` is a context of the asio client with the one asynchronous operation it may have
(`at`), its result once it has completed, and the state of its timer (`clock`, `alarm`).
`Complete` is the completion, `ContextStep` the handler that runs later; `Ring`,
`Timeout` and the cancellation of a token come between.  A handler of the code that
falls through several functions is one action.  A request that fails on a reused
connection goes on in a new context, with the same request (`ctx[c].req`).  The pool is
`pool` with the epochs of its timer.  A client is one of `Clients`: whether it
guarantees the order, what bodies, addresses and tokens its requests have, and what its
peers may answer.

`request[r]` is a context of WinHTTP with the set of what is outstanding
(`pending`), the handle, the body with its position and its copy, and the sizes
of the response.  The callback of each operation is an action, which may find the
handle closed.  The code after the report of an unknown encoding, where the
context has been deleted, is not followed.

### HttpAsioServer

`conn[c]` has the reading chain (`line`), the references (`refs`) and the
request in `m_request` (`current`); `request[c][n]` has the thread that
dispatches it, its reply and the chain that sends it.  Asio may run the chains
of a connection on two threads while a third is in a request handler.  `api` is
the holder of `s_lock` and its point in start, register, unregister or stop.
`AcceptFails` leaves a host that accepts no more (`deaf`).  The listener of a request
is found under a lock that is given up before the listener is used.  `crashed` says
that an exception has left a handler of asio (a second reply, a target that does not
decode), or that a callback has run into a destroyed `hostport_listener`, or a
dispatch into a listener that is gone; the model ends there.

### PplxTasks and CancellationToken

Actors are call stacks, as a continuation may run within the call that completes its
antecedent.  Every region of a lock and every interlocked operation is a step.  A
program (`IsProgram`) says which tasks exist and what they are made from; `td`, `te` and
`tf` of the programs are those the library adds for unwrapping, when_all and when_any.
`IsOrdered` says that a task is made once and before what continues it, and that the
task `_AsyncInit` adds to unwrap an inner one belongs to the task that returned it;
`IsJoined`, that `_Perform` of when_all and when_any makes the task of its event before
the continuations that report to it (when_all also the task that reads the results),
that all report to one event, and that nobody else sets that.  when_all of no tasks,
whose event is set at once, is left out.  An assertion of the code that does not hold
adds its name to `broken`.  A callback that is owned is registered by an object that
deregisters it in its destructor; the others are registered and left.

### WebsocketClient and FileBuffer

Of a message the model has its stage and what its task was told; `OnItsWay` is what is
neither refused, queued nor done.  A close may be refused by websocketpp (the status
1006): the state is `closing` then, with the connection open.  The one thread of asio
brings incoming messages together with receivers in two steps (`inHand`).  `wsCrashed`
says what is used after it has gone; the model ends there.

Characters of a file are their positions, so that what is read says where it came
from.  The buffer (`cache`) has its offset and fill as the code computes them.
`faults` remembers which of the known miscalculations has happened, so that the
property can hold for the rest and no longer.  Writes begin in the order of the calls
and end in any; `Apart` says of two at the end that they found different ends.

### The data modules

Each has one variable of what is asked and one of what came of it, or, where
there is state (parser, objects, buffers, messages), one action per operation.
The functions of the code are operators; beside them are reference definitions
that say the same another way, and the properties compare the two: a grammar for
the parser, integers without a width for SafeInt, places of digits for extracted
numbers, the text that a body means for messages.  There are four JSON parsers, of a
string or a stream, narrow or wide; a narrow one converts each `\uXXXX` alone, and
throws at the first half of a pair of surrogates.  Texts are sequences of a few
characters that stand for their classes; widths are constants (`Bits`, `Top`,
`IntHalf`, `PortTop`, `IntEnd`), so that both sides of every limit are reached.

## 3. Runs

| Run | Question | Bounds |
|---|---|---|
| `pcb` | Is the buffer a character stream (refinement of `CharStream`)? Is a wake-up lost, the end flag wrong, an acquired block disturbed, a closed read stuck? Do the closed forms agree with the loops? | 2 reads outstanding, blocks of 2, counts to 2, 3 characters, `alloc` while at most 1 block is queued |
| `httpsys` | Is one OVERLAPPED used twice, a context used after its destruction, the count or the event wrong, the service broken (refinement of `RequestService`)? | 2 requests, the second plain; 1 chunk |
| `async_io` | HTTP.sys: does `close()` return and every context go (`EverythingEnds`)? Websockets: is one message sent at a time, in order, and does every task end? Files: is what is read and written right, and does it end? | 1 request with every failure, 2 chunks; 4 users of a websocket, up to 3 messages each way; files of 4 characters, a buffer of 2, counts 1 and 3, 4 calls, 2 queued, 3 writes, both platforms |
| `http_client` | Are connections shared or lost, requests finished once, in order, with their body, failures told as what they are? Does every request end, over either client? | 2 requests; 6 worlds of asio with 3 contexts and connections; 6 of WinHTTP with bodies of 2 pieces, responses of 0-4, chunks of 2, 1 challenge |
| `http_asio_server` | Are connections counted, closed and deleted once, answers given to their own requests, listeners served while open, and do starting and stopping end? | 2 connections, 2 requests, 2 listeners, in 5 worlds |
| `pplx` | Is anybody forgotten, an assertion broken, a callback run twice or after it was deregistered? Does every call return? | 5 programs of up to 6 tasks, 2 setters, 2 workers; 2 registrations, 3 threads |
| `monitoring` | Is what is stored genuine, a lone post kept, the table the selected computer's? Does the enumeration end, miss nothing, list exactly? Are listeners counted, served and released under every failure? | 2 agents and 3 posts, or one agent and a page that asks twice; 3 names of two lengths, 2 orders of the roots, 2 changes, an index of 5 values; 3 listeners, 2 URLs, 2 or 3 calls each, one user who does not wait |
| `data` | Do checked integers, JSON, URIs, conversions, messages and streams over memory compute what they should? | below |
| `httpsys_stop` | Does `stop()` wait for all requests? **No** | 2 plain requests |
| `server_api_report` | Is the original exception reported? **No** | 2 listeners, 3 calls |
| `inventory_ack` | Is every acknowledged post kept? **No** | as in `monitoring`, without the page |
| `http_client_pool` | Does a closed connection stay out of the pool? **No** | the worlds of asio |

The bounds of `data`: *SafeInt*: every pair of types of 2, 3, 6 and 12 bits, which
stand for 8, 16, 32 and 64 as the methods tell them apart by order, with the numbers
at the ends of every type, and one operation from every value.  *JSON*: up to 9
tokens, depth 2 of the code's 128, one switch of the unsorted flag; numbers up to a
`Top` of 63; escapes of 4 digits, as in the code, of characters of 1 to 3 bytes and of
pairs; texts of numbers, strings and comments over the characters that their
states tell apart; objects of up to 3 fields and 4 operations.  *Memory*: blocks and
counts of 0-2, sizes to 3, 4 operations.  *Streams*: texts of up to 3 over the
delimiter, CR, LF and another, buffers and rooms of 2, counts 0 and 2, 2 calls.
*Extraction*: texts of up to 4 for integers (limits 63, 15 and 32), of up to 5 for
doubles, and prefixes of words.  *URIs*: texts of up to 4 over `a 1 : / ? # @ %`
and space, authorities of up to 4 over `A 1 : @ [`, readings with each part or none,
queries of up to 5, paths of up to 3, ports to 99, an unwritten int being -1, 0 or
7.  *Conversions*: the sequences of bytes and units around every limit, and whole
small sets of base64, fractions and durations, with 2^20 for the end of int.
*Messages*: bodies of up to 3 bytes of A, FE and FF (4 with a mark), every charset and
an unknown one, 5 uses, header texts of 5 tokens, chunks of 0-40, 255, 256 and 300,
and both widths of `string_t`.

Why the others are enough for what they ask.  *pcb*: 3 characters in blocks of 2 give an
exhausted block, a half-read one, an empty one (`commit(0)`) and a put of 2 that does
not fit behind a half-full block; two reads give a parked read behind another and a new
one that overtakes.  *httpsys*: the races of the count need two contexts, but not two
that fail.  *http_client*: a second request finds the connection of the first in the
pool, dead or alive, and waits behind it when order is guaranteed; the third context is
that of a retry; two addresses are a first and a next.  A body of two pieces is partly
sent when a challenge comes. *http_asio_server*: two requests of a connection make the
second overwrite `m_request` while the first is dispatched; two listeners share a host
and port. *async_io*: of three messages one is sent, one is queued and one is being
counted; a file of 4 behind a buffer of 2 is refilled with one character unread.
*pplx*: the programs have each kind of continuation and both joins, with the two setters
that race.  *monitoring*: two overlapping handlers are enough for the race, a third post
for a late one; the page needs one agent, as it meets the handlers only in the map; an
index of 5 values goes past the last key and wraps; a name longer than another makes the
shrunken buffer too small; two listeners of one URL collide, the third keeps the server
running.

Deadlock is not checked: in every model the system comes to rest when the bounded
calls are used up, after a close, or where the model ends at a crash, and the
liveness properties say what must have happened by then.

**Fairness** is weak fairness of single actions, and only of what a thread, a pool
or the platform does by itself.  `pcb`: a call that has begun goes on, and the
scheduler runs each continuation; nobody is obliged to write, read or close.
`async_io`: the kernel completes every operation it accepted and fails a pending
receive once the queue is shut down, the pool runs each continuation, handlers
return and let go of the requests they keep, and the stream of a response delivers
or ends; websocketpp ends both handshakes, which it times; files complete.  That
handlers and streams do so is an obligation of the user of the SDK:
`http_listener.h:262-266` states one, and without the other `transmit_body` waits
for ever.  `http_client`: handlers and armed timers run, resolving completes; a
*peer need never answer*, so that requests over asio end only because of their
timer.  WinHTTP completes what it accepted, and has timeouts of its own.
`http_asio_server`: threads, handlers and completions run; clients need not send.
`monitoring`: the agent's thread runs.  `pplx`: the threads of the token run.
There is no strong fairness anywhere.

Each property is paired in `PROJECT.json` with at least one mutant, a plausible
mistake written beside the definition it changes (`CanSatisfy_AnyData`,
`CloseLocked_NoFlush`, `Rewound_NoBody`, ...) under which the run violates the
property.  A property that joins several parts has a mutant of each important one.

## 4. What was found

Four runs end in a violation of what the code says of itself:

1. **`stop()` may return with a request in progress** (`httpsys_stop`).  The last
   context decrements the count to zero; before it sets the event, the next
   context is made and resets it; then the event is set, with one request
   outstanding.  Zero is always announced, so `close()` never hangs; it may come
   back early.
2. **`close()` loses the original exception** (`server_api_report`): the test at
   `http_server_api.cpp:145` is the reverse of the comment above it.  An exception
   of `stop()` alone is lost as well.
3. **An acknowledged report may be lost** (`inventory_ack`): handlers share
   `json_buffer`.
4. **A closed connection may be pooled** (`http_client_pool`): the headers set
   `m_keep_alive` again after the timeout has closed the connection.

The passing runs hold with the exceptions that their properties name, each with a
comment.  These are cases in which the code does something else than one would
expect:

*Server over HTTP.sys*: an exception of `async_process_response()`, of a reason or a
header that does not convert, is swallowed (`http_server_httpsys.cpp:753`): nothing is
sent, the context stays, and `stop()` waits for it for ever.  A dropped request whose
body failed is destroyed with its cancellation pending.  *Buffer*: `nextc` with exactly
one character reports the end of an open stream.  *Enumeration*: a key that cannot be
opened is retried with a buffer as small as its own name, so that the loop goes on only
because that call fails; any other error but the end goes on too, so that the loop never
ends when the Uninstall key is removed under it (`regenum.cpp:160`).  *Server of the
inventory*: the buffer that handlers share is read while another assigns it
(`IIS_Server.cpp:264`), so that a mixture of reports may parse and be stored.
*Listeners*: a failed binding leaves a listener that cannot be opened again.

*Server over asio*: a reply out of a handler of asio ends the process when `stop()` has
already replied (`http_server_asio.cpp:284`, `:568`, `:584`), and so does a target with
a bad escape (`:546`); after a failed accept a host accepts no more, with its listeners
open (`:219`); a listener is used after the lock it was found under (`:573`), when it
may be gone; connections leak when a bad request or one for nobody returns early
(`:257`, `:585`); the handler's exception is answered in `m_request`, which may be the
next request (`:602`); a registration that fails takes the listeners of its host and
port along and waits under the lock that they need (`:930`); a late accept is added
after the close (`:217`); the headers of the next request reset `m_close` (`:369`).

*Client over asio*: the next address of a host is tried after the timeout, untimed
(`http_client_asio.cpp:859`); a proxy tunnel starts the timer again (`:455`); a
timeout while connecting is told as a cancellation (`:847`); an unknown encoding
finishes a request twice (`:1217`); a retry does not rewind the body (`:1153`).
*Over WinHTTP*: an unknown encoding deletes the context and goes on
(`http_client_winhttp.cpp:1178`); a compressed response is cut short by a chunk size
of the user (`:1301`); the copy of a stream that cannot seek is rewound to the
position of the original (`:785`, `:915`), so that the body sent again lacks its
start; `buffer_request` has no effect on bodies of known length, although
`http_client.h:302-305` promises it; a borrowed block is not given back when
`WinHttpWriteData` fails.

*Websockets*: a message counted but not yet queued makes `front()` meet an empty
queue (`ws_client_wspp.cpp:571`); a message given up is never counted down, and all
later ones wait for ever (`:448`, `:470`); a client dropped with a message on its way
leaves handlers with a destroyed object; `close()` before the connection is open does
nothing; a close that websocketpp refuses, of the status 1006 that `ws_client.h:56`
offers, is dropped (`ws_client_wspp.cpp:692`), and it and the destructor wait for the
peer; a stream without a size fails, although `ws_msg.h:97` says that it may be
buffered.  *Files*: after an uneven refill what is read is short, of the wrong place
or the end (`fileio_posix.cpp:407`, `fileio_win32.cpp:688`); `m_atend` outlives a
seek; a read of Windows that fails counts as data, or never ends; a write of POSIX
that fails calls back twice; `size()` deletes the buffer under a pending read.

*SafeInt*: the least signed number divided by its magnitude as an unsigned number of 64
bits gives 0 (`SafeInt3.hpp:3428`); a plain number `>` or `<=` a SafeInt is compared by
the method of the swapped types (`:6452`, `:6490`); some `*=` and `-=` store before they
throw; two 16-bit unsigned numbers overflow an int (`:1852`). *JSON*: `{"a"}`, `{"a" 1`
and `[{"a",]` are accepted, for a missing colon ends the parse without an error; `01` is
accepted; text left over gives an error and the value; an escaped pair of surrogates is
refused by the narrow parsers, which throw a `range_error` also where an `error_code` is
asked for (`json_parsing.cpp:699`, `asyncrt_utils.cpp:364`); `get()` of objects and
arrays always throws (`json.h:1412`).  *Streams*: a call that fails loses what it had
taken; a read of a block that fails keeps the next `alloc` from working; a container
written partly keeps zeros.  *Extraction*: a lone sign is 0; the overflow of an unsigned
number of 64 bits is not seen, nor that of an exponent; `1.2.3` is 1.2.  *URIs*: the
port after a colon without digits is unwritten; text behind a character that begins no
part is ignored; `join()` loses user and port without a host; a colon in the query of a
relative reference is refused, although `uri_parser.h:26` allows it; comparing throws on
a bad escape.  *Conversions*: overlong UTF-8 and surrogates in it are accepted; days
wrap around an int. *Messages*: `back()` of an empty charset; a charset beside another
parameter is ignored or unknown; a body without a length leaves the length of the one
before; `set_body` keeps a Content-Type that it is said to overwrite (`http_msg.h:540`).

## 5. What is proved

Eight modules `..._proofs` hold the theorems, each for every value of the constants
its assumption admits.  The table gives those that state a property some run
checks; the argument for each component follows.

| Theorem | States |
|---|---|
| **`ProducerConsumerBuffer_proofs`** | |
| `TypeCorrect` | `TypeOK`; in particular no unsigned counter is taken below zero |
| `CountersAlwaysAgree` | `CountersAgree`: blocks contiguous, `m_total` exact, `m_synced` at most `m_total` |
| `NoWakeupIsLost` | `NoLostWakeup`: when nobody holds the lock the oldest parked read has to wait |
| `AcquiredBlockIsStable` | `AcquiredStable`: an acquired block stays at the head of the queue, whole |
| `EndOfStreamIsSound` | `EndIsSound`, for consumers without `nextc` |
| `BufferImplementsStream` | `ImplementsCharStream`: the refinement of `CharStream`, without `nextc` |
| **`HttpSysServer_proofs`** | |
| `ServerTypes`, `ServerIsSound` | `TypeOK`; `ContextSound`: the OVERLAPPED, the lifetime and the count of contexts |
| `ServerImplementsService` | `ImplementsService`: the refinement of `RequestService` |
| **`HttpAsioServer_proofs`** | |
| `AsioTypes`, `ConnectionsAreSound`, `AnswersAreSound`, `ListenersAreServed` | `AsioTypeOK`, `ConnectionsSound`, `AnswersSound`, `ListenersServed` |
| **`HttpClients_proofs`** | |
| `PoolIsSound` | `PoolSound` |
| `FailureIsTold` | `FailureTold`, a property of steps: why a failure is told as it is |
| `AsioClientTypes`, `RequestsAreSound` | `TypeOK`, `RequestsSound` of the client over asio alone |
| `ClientsTypes`, `ExchangesAreSound` | `ClientsTypeOK`, `ExchangesSound`: over both clients, types, and one end for every request, in order and whole |
| **`Monitoring_proofs`** | |
| `InventoryTypes`, `StoredReportsAreSound`, `TableIsOfTheSelection` | types; `ReportsSound`, `TableMatchesSelection` |
| `EnumTypeCorrect`, `EnumerationIsExact` | types; `EnumerationExact` |
| `ApiTypesCorrect`, `RegistrationsAreSound` | types; `RegistrationsSound` |
| `MonitoringTypes` | `MonitoringTypeOK`: all of them side by side |
| **`PplxTasks_proofs`**, **`Pplx_proofs`** | |
| `TokenTypeCorrect`, `TokenIsSound` | types; `TokenSound`: calls made once, deregistering as a barrier, exact counts |
| `TasksAreSound` | `TasksSound`: propagation, nobody forgotten, assertions, the first setter wins |
| `PplxTypesCorrect` | `TypeOK`: tasks and tokens side by side |
| **`AsyncIO_proofs`** | |
| `WsTypeCorrect`, `WebsocketIsSound` | types; `WebsocketSound`: the count of sends and its queue, the queues of receiving, the lifetimes |
| `FileTypeCorrect`, `FileBufferIsSound` | types; `FileBufferSound`: what is read and written is right and whole, up to the known faults |
| `AsyncTypes` | `AsyncTypeOK`: the HTTP.sys server, websockets and files side by side |

### The buffer

Assumption `BufferAssumption` only says that the constants are numbers and kinds
the module knows.  The first four theorems follow from one inductive invariant,
`Inv == DataInv /\ CallInv`.  `CountersAgree` alone is not inductive: the proof
needs that no block reaches beyond the write head (`BelowWriteHead`), so that a
read takes no more than `m_total` (`ReadableIsTotal`).  Around it,
`UpdateReadHeadKeepsData`, `AppendKeepsData` and `ExtendKeepsData` say what the
three ways of touching the queue of blocks preserve.  `NoLostWakeup` needs the
queue of parked requests to be without repetition and made of parked asynchronous
reads (`QueueInv`), and the program points of the producer to agree with the flag
it has cleared (`WriterInv`): the case that matters is a read that parks while the
producer stands between clearing the flag and taking the lock, which the invariant
excuses only at that point and discharges at `CloseLocked`.  `AcquiredStable` needs
that nobody consumes while a block is held (`HeldInv`).

The end of the stream adds `EndInv`: an answer of no characters, a synchronous read
that ended, and the flag `m_stream_read_eof` each imply `Ended` (the producer has
closed and `m_total` is 0), which no step undoes (`EndedStays`); and between the
store of the flag and its test nobody else stores it, if the consumer awaits its
reads (`OneCall`) and because the one other store, at the end of a write, is made
while the stream is open.  The hypothesis `"next" \notin AsyncReads` is needed:
`nextc` looks at a second character without waiting for it, so that it reports an
end that is not one (a hazard without a property).  The same hypothesis makes the buffer a
`CharStream`: `StreamStep` gives for each step the abstract one, with `CallOf` for
what a call shows and the closing of the stream at `CloseFlag`.  `CloseBegin`,
`FulfilEnd` and the stores of the flag are stutters.

### The server over HTTP.sys

Assumption: at least one chunk, and `"none"` is not the name of a request.
`ServerInv` has a part for each context, one for the receiving loop and one for the
count.  `ContextSound` is not inductive: which operation may be pending on the
`OVERLAPPED` is known only from how far the two continuations are (`UseInv`),
these from the events they wait for (`SequenceInv`), and the end of the context
from who still refers to the request (`RefsInv`, `LifetimeInv`).  Each handler has a
lemma `...GoesOn` that it keeps the part of its own context, and `MovesKeep` lifts
it to the server.  The count follows from `FiniteSetTheorems`; it needs that only
the loop makes contexts (`LoopInv`).  For the refinement, `ServiceInv` adds that
nobody saw a request whose handler is still looked up; `ServiceStepKeeps` maps
each step to one of `RequestService` or a stutter.

### The server API

Assumption: finitely many listeners, whose names are not those of the markers.
`ApiInv` adds what is true while somebody holds `s_lock`: the count is one ahead
of the open listeners from `start()` to the end of a registration, and from the
end of an unregistration on (`Counted`); what the operation in hand has done so far
(`LockStages`); whom each URL belongs to (`Owned`); and that a user who waits for
each of its calls has at most one task, of the kind its `m_closed` calls for
(`OneTask`, `Expected`).

### The server over asio

Assumption: finitely many listeners; the setups are setups.  `AsioInv` has one part
per connection and one for the listeners.  `m_refs` is the number of requests that
hold a reference plus one for the set `m_connections` (`RefsSound`, counted by
`HoldersChange`); at most one chain of completions runs per connection, on its last
request (`ChainSound`); so a connection is deleted exactly when nothing is left
that could touch it.  `AnsweredSound` says what earlier requests of the same
connection left, which is what a second reply is explained by.  For the listeners,
`ApiPart` follows `register_listener` and `unregister_listener` line by line; what
it says of a listener in service holds only until a registration was refused
(`Refusal`), which is the exception the property itself makes, because a refused
registration erases that of another.  A host awaits a connection, has just accepted one
or is `deaf`: nothing but a failed accept breaks the chain of accepts.

### The client over asio

Assumption: at least one request, and the clients are among those defined.
`PoolSound` (a connection is in the pool once or belongs to one live context; the
epochs ascend; a timer runs when there is something to clean) needs where each
context is in its flow: one that ends with a connection to keep must have connected
it (`ContextsSound`); and the end of a request moves the contexts that wait, so
these must be waiting, each once (`QueueSound`).  `OneGoesOn` covers every handler
that leaves the pool alone, `OneFinishes` the end of a context.

`FailureTold` is proved from `PoolInv`, from a second invariant, `TellInv`, of what a
context can say of its past (`Explained`), and from one part of `ServeInv` below: who
reads a body has told the response (`Answered`), so that a progress handler that throws
at its end tells nobody.  An operation was aborted only because the
token is cancelled or the timer rang; the connection closed under an unanswered
request only for these reasons, or because the connection was used before and closed
in the pool, or after a tunnel started the timer again, which forgets that it rang;
a context that still waits for its turn has an idle timer.  A handler also closes
sockets of others, through the queue and through the cancellation, so `OneEach` is
needed: two contexts that are not done serve two requests.  `OneTakes` covers the
handlers that go on, `OneTells` those that answer.

`RequestsSound` adds a third, `ServeInv`.  What a request was told and what is left of
its content is a function of where its context is (`Stage`): nothing was told before
the headers, and behind them the body is still read, or the request was already
finished for an encoding nobody knows, which is the one way to a second `finish()`.
The conjunct that takes work is `LineKept`: with `guarantee_order`, and until some
`finish()` was called twice, the finished requests are the first `f`, the count is
`issued - f`, and the queue holds the requests behind the one that is served, in
order.  A call of `finish()` takes the first of them (`FinishLine`), which needs that
nobody but the first unfinished request can call it (`FirstServed`).  That the body was
sent (`SentInFull`) must be known of every point behind it, and that a retry, whose
stream may be used up, says so.

### The client over WinHTTP

Assumption: at least one request, piece and chunk, and the worlds are among those
defined.  `WinInv` says of each request that it waits untouched, is over, or has
exactly one operation pending (`RequestSound`): the context is deleted by the
callback of its last operation, so one operation is what keeps both a use after the
deletion and a leak away.  Which operation it is says what the context knows
(`OpSound`): the response is told exactly from `querying` on, a block is borrowed
only while it is written, and the receiving of the response comes when nothing is
left to send.  `StreamSound` relates what was sent to the position of the stream and
to its copy, through challenges for credentials, after which all of it is sent again; a stream that
cannot be rewound is replaced by its copy.  `LineIs` is the line of
`guarantee_order`, as above.  The lemmas `ThenLives`, `ThenOver` and `ThenSame` say how
a step can end; a step of one handler has a lemma that names the one it is.

`MCHttpClients` runs one of the two clients: a step of one is a stutter of the other
(`OneClientSteps`), so the conjunction of the invariants is inductive.  `MonitoringTypes`,
`AsyncTypes` and the theorems of `MCPplx` are proved in the same way.

### The inventory

Assumption: scripts and bounds are sequences and numbers.  The handlers share
`json_buffer` without a lock.  `InvInv` numbers the posts in the order in which
they assigned the buffer (`turn`).  A text is `Genuine` if it was posted, or if it is a
mixture that the handler of a post made which was not alone; so is what is stored
(`MapIsGenuine`).  What the buffer has, and what a handler has read back, is genuine and
not earlier than any report whose post was alone (`BufferIsLast`, `OwnIsLater`).  A post
whose handler no other overlapped is undisturbed to its end, and is kept
(`LoneUndisturbed`), which is what `ReportsSound` promises.

### The enumeration of the registry

Assumption: finitely many keys, whose names fit in the buffer; the orders have no key
twice.  `EnumerationExact` speaks of the end only.  `EnumInv` says what the loop knows
on the way.  After a key that did not open, the next call uses the size that the last
one stored, which is the length of a name (`NameHeld`): it then meets the same key, or
one before it that an installer put there, and the proof needs that every key before the
one held was dealt with (`Scan`, where `Held` tells the two cases apart), in each root
that no key was removed from and no call failed for (`disturbed`).  A removal shifts
keys past the index, which is why such a root is excepted; from a root that was removed
itself (`broken`) the loop does not come back.  `InsertedAt` and `RemovedAt` say what
the two changes of a hive do to positions.

### Cancellation tokens

Assumption: what is owned is registered, and no thread is numbered like one of the
marks of `_M_state` (the code relies on it: one word holds the mark or the number).
A property of stacks is hard to carry from step to step, so the proof first reads
each stack as a *role*: the innermost call, its registration, and the call around it.
A stack has one of few forms (`Roles`, `StackOf`), which the lemmas `Goes`, `Returns`,
`Begins`, `Invokes` and `Nests` keep.  The invariant has then one part per
registration (`RegSound`), and a step of a thread leaves the registrations it is not
at alone (`Untouched`).  A registration is in one list or handled by one thread
(`PlaceSound`); shared pointers are those of the user and of the running callback
(`OwnerSound`); a callback that runs is marked by its thread or waited for, and while
its owner lives it was called or is still to be (`CallSound`).  The lists and the
flag belong to the one thread in `_Cancel()` (`FlagSound`).  That deregistering is a
barrier needs what it has decided: from then on nobody can take the mark
(`BarrierSound`).  That the list holds no stranger before the token is cancelled is
`LockSound`; `strays` counts the exception, between the two steps of `_Cancel()`.

### Tasks

Assumption: the tasks are finitely many, the programs are well formed (`IsProgram`,
section 2), and the names of the builder and of nothing are nobody else's.  There may
be any number of setters and of threads of the pool.  Three invariants rest on each
other.

`TasksInv`: a task that is made and not finished is in one place (`Located`,
`HandledOnce`): the call that goes on with it, the continuations of its antecedent,
the waiters of its event, the pool, or the hands of the task that unwraps what it
returned (`LinksSound`); and each place says what is known there (`Sound`: a call
about to start a continuation by value knows that the antecedent completed, one about
to register a task that nothing built later exists).  `TasksStep` is the general
form of a step: an actor puts calls `fs` in the place of its innermost one and goes on
with its tasks and with a set `M` taken from a list, from the pool or just made.
`TasksAfter` shows once that such a step keeps the invariant, and each action is shown
to be one.

`EventInv`: only who holds an event calls it (`EventSound`); the wins are counted
exactly by its value and its cancellation (`Settled`); a task of an event ended as the
event did, and failed only with an event that was refused or by its own token
(`EndsWith`).

`JointInv`: `count` is the number of tasks that reported (`CountSound`), each of which
then ends itself (`Followed`); the last one, and before it the first that failed, has
told the event (`Told`); and whoever deletes the parameter does so below every call
that could still come to read the results (`Covered`), once (`DeleteSound`).

`NobodyForgotten` is about when all stacks and the pool are empty
(`EveryoneFinishes`): take the first task, in the order the builder makes them, that is
not finished (`LeastIndex`).  What it depends on was made before it, so its antecedent
is finished and has no continuations left, and so is the inner task whose unwrapping
it waits for; it waits for no event, or for the one of when_all or when_any, but then
all its antecedents have reported and it was told.  So it is in no place, which is
absurd.  `FirstSetterWins` is
`EventInv` read backwards; each assertion of the code is a conjunct of what the calls
know.  Two may fail, and `AssertionsStay` shows that no other does.  `set()` may come
between the two steps of `set_exception()` (`pplxtasks.h:2842`).  `_Cancel()` of an
exception finds its event cancelled without one when another cancellation comes between
its test and its call (`:2781`): only when_all can meet that, where an input that is
cancelled calls the event of one that failed, against the comment at `:6359`; a user of
a completion event has no call that cancels it without an exception.

### The websocket client

Assumption: bounds are numbers, and each user one that `WsWorld` describes.  `WsInv` has
three parts.  *Sending*: `Counted` names the messages that `m_num_sends` counts; at most
one is on its way, and it is the reason that anything is counted (`OneGoes`), so a
message that finds the count at zero may start and one that finds it above zero may rely
on being popped.  That the queue may still be empty at that moment (`Pop`) is what
`wsCrashed = "queue"` stands for; the proof shows that only a send() between its count
and its push causes it.  `WireIsRight` says where a message is once it is on the wire.
*Receiving*: the messages kept are the last that arrived (`KeptIsRight`), tasks that
wait are younger than those served (`WaitingIsRight`), and the pair in hand when the
lock is given up stands between the two (`InHandIsRight`), because the handler runs on
one thread and comes to it again only after the task was set.  *Lifetimes*: the state of
the client determines that of the connection and of the shutdown (`ConnectionIsRight`),
and who still holds the objects (`OwnersAreRight`).

### Files

Assumption: the buffer's size is positive, bounds are numbers, worlds are worlds.
`FileInv` has a part for the reader and one for the writer, which share nothing.
*Reading*: as long as none of the known faults happened (`Clean`) the buffer holds the
characters from its offset on, up to `m_buffill` and within the file, and the reader
stands in it or just behind it (`BufferSound`, `Holds`).  Between the start of a read
and its callback this is false, as `m_bufoff` is moved at once and `m_buffill` only at
the end; `FillSound` says instead that the read begins where the reader stands, leaves
nothing unread and asks for enough.  `FillIsSound` is the heart of the proof: of
the arms of the two `_fill_buffer_fsb`, the one that finds enough cannot be reached from
a good buffer, and the one that keeps characters either keeps none or is the fault
`"uneven"`.  `m_atend` is right until a seek or a short `sgetn` (`AtEndSound`); that
needs that only `getn` asks for more than one (`OnesAsked`), for a call that leaves
the position where it is.  *Writing*: positions of writes that began are below that of
the next and apart (`PositionsSound`); one at the end of a POSIX file has looked where
the end is before it ends (`EndsSound`); `PlacedIs` says that a write disturbs no
other.  The count of writes is exact, so that whoever brings it to zero is the last
(`UncountKeeps`), which is what a flush relies on.

### Only model-checked

- Liveness (`ClosedReadsReturn`, `EverythingEnds`, `OperationsEnd`, `ClientsEnd`,
  `ApiReturns`, `CallsReturn`, `EnumerationReturns`): the prover does not handle
  fairness and ENABLED.
- `LoopsAgree` and what the data modules compute (`SafeIntExact`, `TextsSound`,
  `StreamsSound`): recursive operators, and induction over blocks and texts.
- The types of the data modules (`DataTypeOK`), which use recursive operators.

## 6. What is not modelled

`PROJECT.json` gives the reason for each component.  In short: the client and files
of WinRT wrap objects whose behaviour is not here; thread pools and locks are taken
as atomic; certificates, OAuth and the encrypted credentials are not used by this
program, or are calls of the platform; third-party scripts are not the program's.
Of what is `partly` modelled the notes say what is missing: among it floating point
and bit operations of SafeInt, `print` and the adapters to `std::iostream`, whole
dates, compression, inlining of continuations, the pages and files that `IIS_Server`
serves, and the dispatch by method inside a listener.  The asio server has no
refinement of `RequestService`: a listener there may be erased by the failure of
another, and a request may end the process.

Undefined behaviour is a choice of outcomes where the build gives a few (two handlers
that race in `Inventory`, the unwritten port, `back()` of an empty string); where an
object is used after its destruction, the model ends and the properties say when.

## 7. Plan

Written so far, in this order: the buffer and its first proofs, the server's
requests, the inventory, the enumeration, the server API; tasks and tokens, both
clients, the asio server, websockets, files, and the data modules; then the proofs of
section 5, those of tasks last.  What could follow, in this order: `ServeInv` with the
memory of how long each context waits, as a step to what `ClientsEnd` says under
fairness; and a closed form of the checks of `SafeInt`, whose products the prover could
then compare.
