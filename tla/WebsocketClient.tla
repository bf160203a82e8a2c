--------------------------- MODULE WebsocketClient ---------------------------
(* The websocket client over websocketpp: wspp_callback_client                *)
(* (ws_client_wspp.cpp), which sends, closes and shuts down, and the          *)
(* websocket_client_task_impl around it (ws_client.cpp), which hands incoming *)
(* messages to the tasks of receive().                                        *)
(*                                                                            *)
(* Threads: those of the user; the one thread of asio, on which websocketpp   *)
(* calls the handlers; and the pool, for continuations and the shutdown.      *)
(* The model ends where the program uses what is not there any more: see      *)
(* wsCrashed.                                                                 *)
EXTENDS Naturals, Sequences, FiniteSets

CONSTANTS
    Messages,     \* what the user sends, each once
    Receives,     \* bound: the calls of receive(), 1..Receives
    MaxIncoming,  \* bound: the messages that arrive
    WsWorlds      \* bound: what a user does

\* sends: the messages sent.  kinds: their bodies, which can be acquired
\* ("ready"), must be "read", are "unsized", so that they are buffered before,
\* or too large for the system ("huge"), or that send() refuses ("bad").
\* receives: how often the user receives.  drops: the user destroys the client,
\* whatever goes on.
Kinds == {"ready", "read", "unsized", "huge", "bad"}
WsWorld(w) ==
    /\ w.sends \subseteq Messages /\ w.kinds \subseteq Kinds
    /\ w.receives \in 0..Receives /\ w.incoming \in 0..MaxIncoming
    /\ w.drops \in BOOLEAN

ASSUME WsAssumption ==
    /\ Receives \in Nat /\ MaxIncoming \in Nat
    /\ \A w \in WsWorlds : WsWorld(w)

VARIABLES
    wsWorld,      \* one of WsWorlds
    wsState,      \* m_state
    link,         \* the connection of websocketpp
    opened,       \* m_connect_tce: "none", "set" or "failed"
    closed,       \* m_close_tce is set
    alive,        \* m_client was not reset
    shutdown,     \* the task that shutdown_wspp_impl makes
    call,         \* what the user's tasks wait for: connect() and close()
    message,      \* message[m]: where m is, and what its task was told
    sends,        \* m_num_sends
    outgoing,     \* m_outgoing_msg_queue
    wire,         \* what websocketpp took
    arrived,      \* how many messages arrived
    incoming,     \* m_receive_msg_queue
    awaiting,     \* m_receive_task_queue
    inHand,       \* the message and the task that the thread of asio brings together
    received,     \* received[r]: whether it waits, has a message (which), or an error
    clientClosed, \* m_client_closed
    impl,         \* the websocket_client_task_impl
    dtor,         \* ~wspp_callback_client
    wsCrashed

sending == <<message, sends, outgoing, wire>>
receiving == <<arrived, incoming, awaiting, inHand, received, clientClosed>>
connection == <<wsState, link, opened, closed, alive, shutdown>>
life == <<impl, dtor>>
wsVars == <<wsWorld, connection, call, sending, receiving, life, wsCrashed>>

-----------------------------------------------------------------------------
Nobody == [m |-> 0, r |-> 0]
Outside == {"new", "counted", "queued", "done", "left"}
OnItsWay == {m \in Messages : message[m].at \notin Outside}
InCall(m) == message[m].at \in {"counted", "starting"}

WsInit ==
    /\ wsWorld \in WsWorlds
    /\ wsState = "created" /\ link = "none" /\ opened = "none" /\ closed = FALSE
    /\ alive = TRUE /\ shutdown = "none"
    /\ call = [user |-> TRUE, connect |-> "new", close |-> FALSE]
    /\ message = [m \in Messages |-> [at |-> "new", told |-> "no", result |-> "sent"]]
    /\ sends = 0 /\ outgoing = <<>> /\ wire = <<>>
    /\ arrived = 0 /\ incoming = <<>> /\ awaiting = <<>> /\ inHand = Nobody
    /\ received = [r \in 1..Receives |-> [is |-> "new", m |-> 0]] /\ clientClosed = FALSE
    /\ impl = "alive" /\ dtor = "none" /\ wsCrashed = "no"

-----------------------------------------------------------------------------
(* The connection.                                                            *)

\* close_pending_tasks_with_error, under m_receive_queue_lock.
ClosePending ==
    /\ clientClosed' = TRUE /\ awaiting' = <<>>
    /\ received' = [r \in 1..Receives |->
                        IF \E i \in DOMAIN awaiting : awaiting[i] = r
                        THEN [is |-> "error", m |-> 0] ELSE received[r]]

\* connect(), which may fail before there is a thread.
WsConnect ==
    /\ call.user /\ call.connect = "new"
    /\ \/ wsState' = "connecting" /\ link' = "opening"
            /\ call' = [call EXCEPT !.connect = "pending"]
       \/ call' = [call EXCEPT !.connect = "failed"] /\ UNCHANGED <<wsState, link>>
    /\ UNCHANGED <<wsWorld, opened, closed, alive, shutdown, sending, receiving, life, wsCrashed>>

OnOpen ==
    /\ link = "opening"
    /\ link' = "open" /\ wsState' = "connected" /\ opened' = "set"
    /\ UNCHANGED <<wsWorld, closed, alive, shutdown, call, sending, receiving, life, wsCrashed>>

\* The fail and the close handler: shutdown_wspp_impl.  websocketpp calls the
\* latter when the peer closed, or did not answer in time.
OnFailOrClose ==
    /\ link \in {"opening", "open", "closing"} /\ inHand = Nobody
    /\ link' = "over" /\ wsState' = "closed"
    /\ shutdown' = IF link = "opening" THEN "failing" ELSE "closing"
    /\ UNCHANGED <<wsWorld, opened, closed, alive, call, sending, receiving, life, wsCrashed>>

\* The task joins the thread and deletes the client of websocketpp,
ResetClient ==
    /\ shutdown \in {"failing", "closing"}
    /\ alive' = FALSE
    /\ shutdown' = IF shutdown = "failing" THEN "fail" ELSE "handler"
    /\ UNCHANGED <<wsWorld, wsState, link, opened, closed, call, sending, receiving, life, wsCrashed>>
\* Variants, here and below, are plausible mistakes in the definition that
\* follows; PROJECT.json pairs each with the property that detects it.

\* ends connect() if it failed,
\* (A mutant: nobody is told.)
FailConnect_Untold ==
    /\ shutdown = "fail"
    /\ shutdown' = "handler"
    /\ UNCHANGED <<wsWorld, wsState, link, opened, closed, alive, call, sending, receiving, life, wsCrashed>>
FailConnect ==
    /\ shutdown = "fail"
    /\ opened' = "failed" /\ shutdown' = "handler"
    /\ UNCHANGED <<wsWorld, wsState, link, closed, alive, call, sending, receiving, life, wsCrashed>>
\* calls the close handler,
CallCloseHandler ==
    /\ shutdown = "handler"
    /\ shutdown' = "set"
    /\ IF impl = "gone"
       THEN wsCrashed' = "handler" /\ UNCHANGED receiving
       ELSE ClosePending /\ UNCHANGED <<arrived, incoming, inHand, wsCrashed>>
    /\ UNCHANGED <<wsWorld, wsState, link, opened, closed, alive, call, sending, life>>
\* and ends close().
SetClosed ==
    /\ shutdown = "set"
    /\ closed' = TRUE /\ shutdown' = "over"
    /\ UNCHANGED <<wsWorld, wsState, link, opened, alive, call, sending, receiving, life, wsCrashed>>

\* close(), under m_wspp_client_lock; by the user, or by the destructor.
\* websocketpp may refuse it (the status 1006, a reason that does not convert):
\* the state says "closing" all the same, the error is dropped, and no closing
\* handshake begins.
Closes(refused) ==
    IF wsState = "connected"
    THEN wsState' = "closing" /\ link' = IF refused THEN link ELSE "closing"
    ELSE UNCHANGED <<wsState, link>>

WsClose ==
    /\ call.user /\ call.connect # "new" /\ ~call.close
    /\ \E refused \in BOOLEAN : Closes(refused)
    /\ call' = [call EXCEPT !.close = TRUE]
    /\ UNCHANGED <<wsWorld, opened, closed, alive, shutdown, sending, receiving, life, wsCrashed>>

-----------------------------------------------------------------------------
(* Sending.                                                                   *)

Goes(m, at) == message' = [message EXCEPT ![m].at = at]
\* The task of m is told, and nobody goes on: m_num_sends keeps counting m.
Leaves(m) == message' = [message EXCEPT ![m].at = "left", ![m].told = "failed"]

\* send(), up to the increment of m_num_sends.
SendMessage(m) ==
    /\ call.user /\ m \in wsWorld.sends /\ message[m].at = "new"
    /\ \/ /\ opened # "set" \/ "bad" \in wsWorld.kinds
          /\ message' = [message EXCEPT ![m].at = "done", ![m].told = "failed"]
          /\ UNCHANGED sends
       \/ /\ opened = "set"
          /\ sends' = sends + 1
          /\ Goes(m, IF sends = 0 THEN "starting" ELSE "counted")
    /\ UNCHANGED <<wsWorld, connection, call, outgoing, wire, receiving, life, wsCrashed>>

\* The rest of send() if another message is on its way.
Push(m) ==
    /\ message[m].at = "counted"
    /\ Goes(m, "queued") /\ outgoing' = Append(outgoing, m)
    /\ UNCHANGED <<wsWorld, connection, call, sends, wire, receiving, life, wsCrashed>>

\* send_msg()
SendMsg(m) ==
    /\ message[m].at \in {"starting", "next"}
    /\ \E kind \in wsWorld.kinds :
        \/ kind = "huge" /\ Leaves(m)
        \/ kind = "unsized" /\ Goes(m, "buffering")
        \/ kind = "read" /\ Goes(m, "reading")
        \/ kind = "ready" /\ Goes(m, "writing")
    /\ UNCHANGED <<wsWorld, connection, call, sends, outgoing, wire, receiving, life, wsCrashed>>

\* An exception or an error goes to the last continuation.
Falls(m) == message' = [message EXCEPT ![m].at = "telling", ![m].result = "failed"]

\* The continuation of read_to_end, which calls send_msg again, or not.  The
\* buffer it read into is open for writing only: nothing can be read out of it,
\* which is too little unless the stream was empty.
BodyBuffered(m) ==
    /\ message[m].at = "buffering"
    /\ Falls(m) \/ Goes(m, "writing") \/ Leaves(m)
    /\ UNCHANGED <<wsWorld, connection, call, sends, outgoing, wire, receiving, life, wsCrashed>>

\* The continuation of getn, which throws if there are too few bytes.
Read(m) ==
    /\ message[m].at = "reading"
    /\ Goes(m, "writing") \/ Falls(m)
    /\ UNCHANGED <<wsWorld, connection, call, sends, outgoing, wire, receiving, life, wsCrashed>>

\* Under m_wspp_client_lock: send_msg_impl, which websocketpp may refuse.
MayWrite == wsState \in {"connecting", "connected"}
Write(m) ==
    /\ message[m].at = "writing"
    /\ \/ /\ MayWrite /\ link = "open"
          /\ wire' = Append(wire, m) /\ Goes(m, "telling")
       \/ Falls(m) /\ UNCHANGED wire
    /\ UNCHANGED <<wsWorld, connection, call, sends, outgoing, receiving, life, wsCrashed>>

\* The last continuation: signal_body_sent,
Tell(m) ==
    /\ message[m].at = "telling"
    /\ message' = [message EXCEPT ![m].at = "counting", ![m].told = message[m].result]
    /\ UNCHANGED <<wsWorld, connection, call, sends, outgoing, wire, receiving, life, wsCrashed>>
\* the decrement of m_num_sends,
\* (A mutant: the last one pops as well.)
CountDown_OffByOne(m) ==
    /\ message[m].at = "counting"
    /\ sends' = sends - 1
    /\ Goes(m, "popping")
    /\ UNCHANGED <<wsWorld, connection, call, outgoing, wire, receiving, life, wsCrashed>>
CountDown(m) ==
    /\ message[m].at = "counting"
    /\ sends' = sends - 1
    /\ Goes(m, IF sends > 1 THEN "popping" ELSE "done")
    /\ UNCHANGED <<wsWorld, connection, call, outgoing, wire, receiving, life, wsCrashed>>
\* and front() and pop() of the queue, for the next message.
Pop(m) ==
    /\ message[m].at = "popping"
    /\ IF outgoing = <<>>
       THEN wsCrashed' = "queue" /\ UNCHANGED <<message, outgoing>>
       ELSE /\ outgoing' = Tail(outgoing)
            /\ message' = [message EXCEPT ![m].at = "done", ![Head(outgoing)].at = "next"]
            /\ UNCHANGED wsCrashed
    /\ UNCHANGED <<wsWorld, connection, call, sends, wire, receiving, life>>

-----------------------------------------------------------------------------
(* Receiving.                                                                 *)

\* The message handler, on the thread of asio: under the lock the message meets
\* a task that waits, or is kept;
OnMessage ==
    /\ link \in {"open", "closing"} /\ inHand = Nobody /\ arrived < wsWorld.incoming
    /\ arrived' = arrived + 1
    /\ IF impl = "gone"
       THEN wsCrashed' = "handler" /\ UNCHANGED <<incoming, awaiting, inHand>>
       ELSE /\ IF awaiting = <<>>
               THEN incoming' = Append(incoming, arrived') /\ UNCHANGED <<awaiting, inHand>>
               ELSE /\ inHand' = [m |-> arrived', r |-> Head(awaiting)]
                    /\ awaiting' = Tail(awaiting) /\ UNCHANGED incoming
            /\ UNCHANGED wsCrashed
    /\ UNCHANGED <<wsWorld, connection, call, sending, received, clientClosed, life>>
\* the task is set when the lock was given up.
Deliver ==
    /\ inHand # Nobody
    /\ received' = [received EXCEPT ![inHand.r] = [is |-> "message", m |-> inHand.m]]
    /\ inHand' = Nobody
    /\ UNCHANGED <<wsWorld, connection, call, sending, arrived, incoming, awaiting, clientClosed,
                   life, wsCrashed>>

\* receive(), under the lock.
ReceiveCall(r) ==
    /\ call.user /\ r <= wsWorld.receives /\ received[r].is = "new"
    /\ r > 1 => received[r - 1].is # "new"
    /\ LET fate == IF clientClosed THEN "error"
                   ELSE IF incoming = <<>> THEN "waiting" ELSE "message"
           of == IF fate = "message" THEN Head(incoming) ELSE 0
       IN  /\ received' = [received EXCEPT ![r] = [is |-> fate, m |-> of]]
           /\ awaiting' = IF fate = "waiting" THEN Append(awaiting, r) ELSE awaiting
           /\ incoming' = IF fate = "message" THEN Tail(incoming) ELSE incoming
    /\ UNCHANGED <<wsWorld, connection, call, sending, arrived, inHand, clientClosed, life, wsCrashed>>

-----------------------------------------------------------------------------
(* The end of the client.                                                     *)

\* ~websocket_client_task_impl.  m_callback_client goes first of its members,
\* unless a message on its way keeps it: then it outlives the others.
DestroyImpl ==
    /\ ClosePending
    /\ impl' = IF OnItsWay = {} THEN "dying" ELSE "gone"
    /\ dtor' = IF OnItsWay = {} THEN "begun" ELSE "none"

\* The user's last copy of the websocket_client goes.
DropClient ==
    /\ wsWorld.drops /\ call.user /\ \A m \in Messages : ~InCall(m)
    /\ call' = [call EXCEPT !.user = FALSE]
    /\ IF call.connect \in {"pending", "failed"}
       THEN UNCHANGED <<receiving, life>>
       ELSE DestroyImpl /\ UNCHANGED <<arrived, incoming, inHand>>
    /\ UNCHANGED <<wsWorld, connection, sending, wsCrashed>>

\* The continuation of connect(), which holds a copy.
ConnectDone ==
    /\ call.connect = "failed" \/ (call.connect = "pending" /\ opened # "none")
    /\ call' = [call EXCEPT !.connect = "done"]
    /\ IF ~call.user THEN DestroyImpl
       ELSE /\ IF opened = "set" THEN UNCHANGED <<clientClosed, awaiting, received>>
               ELSE ClosePending
            /\ UNCHANGED life
    /\ UNCHANGED <<wsWorld, connection, sending, arrived, incoming, inHand, wsCrashed>>

\* The last message on its way lets go of a client that nobody else holds.
LastRelease ==
    /\ impl = "gone" /\ dtor = "none" /\ OnItsWay = {}
    /\ dtor' = "begun"
    /\ UNCHANGED <<wsWorld, connection, call, sending, receiving, impl, wsCrashed>>

\* ~wspp_callback_client waits for connect(), closes with the status "normal",
\* which is not refused, and waits for that.
ClientDestroyed == wsState' = "destroyed" /\ dtor' = "over" /\ impl' = "gone"
DtorBegins ==
    /\ dtor = "begun"
    /\ IF wsState = "created" THEN ClientDestroyed
       ELSE dtor' = "connect" /\ UNCHANGED <<wsState, impl>>
    /\ UNCHANGED <<wsWorld, link, opened, closed, alive, shutdown, call, sending, receiving, wsCrashed>>
DtorCloses ==
    /\ dtor = "connect" /\ opened # "none"
    /\ Closes(FALSE) /\ dtor' = "close"
    /\ UNCHANGED <<wsWorld, opened, closed, alive, shutdown, call, sending, receiving, impl, wsCrashed>>
DtorEnds ==
    /\ dtor = "close" /\ closed
    /\ ClientDestroyed
    /\ UNCHANGED <<wsWorld, link, opened, closed, alive, shutdown, call, sending, receiving, wsCrashed>>

-----------------------------------------------------------------------------
MessageStep(m) ==
    \/ Push(m) \/ SendMsg(m) \/ BodyBuffered(m) \/ Read(m) \/ Write(m)
    \/ Tell(m) \/ CountDown(m) \/ Pop(m)
PoolStep ==
    \/ ResetClient \/ FailConnect \/ CallCloseHandler \/ SetClosed
    \/ ConnectDone \/ LastRelease \/ DtorBegins \/ DtorCloses \/ DtorEnds

WsNext ==
    /\ wsCrashed = "no"
    /\ \/ WsConnect \/ WsClose \/ DropClient
       \/ OnOpen \/ OnFailOrClose \/ OnMessage \/ Deliver
       \/ \E m \in Messages : SendMessage(m) \/ MessageStep(m)
       \/ \E r \in 1..Receives : ReceiveCall(r)
       \/ PoolStep

\* The pool and the thread of asio run, streams are read, and websocketpp ends
\* the opening and the closing handshake, by a timeout if the peer is silent.
Handshake == link \in {"opening", "closing"} /\ (OnOpen \/ OnFailOrClose)
WsSpec ==
    /\ WsInit /\ [][WsNext]_wsVars
    /\ WF_wsVars(wsCrashed = "no" /\ PoolStep)
    /\ WF_wsVars(wsCrashed = "no" /\ Handshake)
    /\ WF_wsVars(wsCrashed = "no" /\ Deliver)
    /\ \A m \in Messages : WF_wsVars(wsCrashed = "no" /\ MessageStep(m))

-----------------------------------------------------------------------------
(* Properties.                                                                *)

WsTypeOK ==
    /\ wsWorld \in WsWorlds
    /\ wsState \in {"created", "connecting", "connected", "closing", "closed", "destroyed"}
    /\ link \in {"none", "opening", "open", "closing", "over"}
    /\ opened \in {"none", "set", "failed"} /\ closed \in BOOLEAN /\ alive \in BOOLEAN
    /\ shutdown \in {"none", "failing", "closing", "fail", "handler", "set", "over"}
    /\ call \in [user : BOOLEAN, connect : {"new", "pending", "failed", "done"}, close : BOOLEAN]
    /\ message \in [Messages ->
            [at : Outside \cup {"starting", "next", "buffering", "reading", "writing",
                                "telling", "counting", "popping"},
             told : {"no", "sent", "failed"}, result : {"sent", "failed"}]]
    /\ sends \in Nat /\ outgoing \in Seq(Messages) /\ wire \in Seq(Messages)
    /\ arrived \in 0..MaxIncoming /\ incoming \in Seq(1..MaxIncoming)
    /\ awaiting \in Seq(1..Receives) /\ inHand \in [m : 0..MaxIncoming, r : 0..Receives]
    /\ received \in [1..Receives ->
            [is : {"new", "waiting", "message", "error"}, m : 0..MaxIncoming]]
    /\ clientClosed \in BOOLEAN
    /\ impl \in {"alive", "dying", "gone"}
    /\ dtor \in {"none", "begun", "connect", "close", "over"}
    /\ wsCrashed \in {"no", "queue", "handler"}

InSeq(s) == {s[i] : i \in DOMAIN s}
MessagesAt(where) == {m \in Messages : message[m].at = where}

\* One message is sent at a time, m_num_sends counts those that are sent, queued
\* or about to be queued, and those that were given up; a task is told that its
\* message was sent if and only if it was, once; front() of an empty queue is only
\* met while another send() has counted its message and not queued it yet.
SendsSound ==
    /\ Cardinality(OnItsWay) <= 1
    /\ sends = Cardinality((OnItsWay \ MessagesAt("popping")) \cup MessagesAt("counted") \cup MessagesAt("queued") \cup MessagesAt("left"))
    /\ InSeq(outgoing) = MessagesAt("queued") /\ Len(outgoing) = Cardinality(MessagesAt("queued"))
    /\ Len(wire) = Cardinality(InSeq(wire))
    /\ \A m \in Messages :
        /\ message[m].told = "sent" => m \in InSeq(wire)
        /\ message[m].told = "failed" => m \notin InSeq(wire)
        /\ message[m].at = "done" => message[m].told # "no"
    /\ wsCrashed = "queue" => MessagesAt("counted") # {}

Told == {r \in 1..Receives : received[r].is = "message"}
\* Messages are received in the order they arrived, each once, and none is lost
\* on the way; none is kept while a task waits, and none waits once the client
\* is closed.
ReceivesSound ==
    /\ incoming = <<>> \/ awaiting = <<>>
    /\ clientClosed => awaiting = <<>>
    /\ \A r, q \in Told : r < q => received[r].m < received[q].m
    /\ closed /\ wsCrashed = "no" => clientClosed
    /\ wsCrashed = "no" =>
        1..arrived = {received[r].m : r \in Told} \cup InSeq(incoming) \cup ({inHand.m} \ {0})

\* The client of websocketpp is not deleted before nobody uses it any more, nor
\* this object before the shutdown and the messages are done with it; handlers run
\* into a websocket_client_task_impl that is gone only if the user destroyed the
\* client with a message on its way.
LifeSound ==
    /\ wsState \in {"connecting", "connected", "closing"} => alive
    /\ dtor \notin {"none"} => OnItsWay = {}
    /\ wsState = "destroyed" => shutdown \in {"none", "over"} /\ link \in {"none", "over"}
    /\ wsCrashed = "handler" => ~call.user /\ dtor # "over"

WebsocketSound == SendsSound /\ ReceivesSound /\ LifeSound

\* The client gets to rest again and again: every send() was told how it went,
\* unless one was given up before, which all later ones wait for; a client that
\* was dropped is gone; and close() has ended, unless it came before the connection
\* was open, in which case it does nothing.  The exception is a close() that
\* websocketpp refused: it ends, and the destructor too, only if the peer closes.
RefusedClose == wsState = "closing" /\ link = "open"
Unanswered == {m \in Messages : message[m].at # "new" /\ message[m].told = "no"}
AtRest ==
    /\ Unanswered = {} \/ MessagesAt("left") # {}
    /\ ~call.user => wsState = "destroyed" \/ RefusedClose
    /\ wsState = "closing" => closed \/ RefusedClose
WebsocketEnds == []<>(AtRest \/ wsCrashed # "no")
=============================================================================
