------------------------------ MODULE ServerApi ------------------------------
(* Opening and closing listeners: http_listener_impl (http_listener.cpp), the *)
(* registration of listeners with the one server of the process               *)
(* (http_server_api.cpp), and what http_windows_server does to HTTP.sys when  *)
(* it starts, registers, unregisters and stops (http_server_httpsys.cpp).     *)
(*                                                                            *)
(* open() and close() return at once: register_listener and                   *)
(* unregister_listener are tasks of the thread pool, run in any order, each   *)
(* under s_lock from end to end.  Every call to HTTP.sys may fail.  A server  *)
(* of another kind may be registered in place of the default one; of such a   *)
(* server only the outcome of its operations is modelled, and that it refuses *)
(* a listener that it has already.  Requests are the subject of               *)
(* HttpSysServer; here those in progress are taken to end.                    *)
EXTENDS Integers, FiniteSets

CONSTANTS
    Listeners,
    Patient,   \* those whose user waits for each task before the next call
    Address,   \* Address[l]: the URL of the listener
    MaxCalls   \* MaxCalls[l], a bound: calls of open() and close() that l gets

\* A process has finitely many listeners; what stands for none is none of them.
ASSUME ServerApiAssumption ==
    /\ IsFiniteSet(Listeners) /\ Listeners \cap {"none", "no", "free", "orphan"} = {}
    /\ Patient \subseteq Listeners /\ DOMAIN Address = Listeners
    /\ MaxCalls \in [Listeners -> Nat]

VARIABLES
    closed,        \* closed[l]: m_closed
    calls,         \* calls[l]: the calls so far
    pending,       \* the tasks and continuations that have not run
    lock,          \* who holds s_lock, and where it is
    serverApi,        \* s_server_api: none, default or custom
    registrations, \* s_registrations
    handles,       \* the session, the request queue and the threadpool I/O
    receiving,     \* m_receivingTask
    registered,    \* _M_registeredListeners
    urls,          \* urls[a]: the listener whose URL group has the URL a
    opened,        \* the listeners that registered and did not unregister since
    astray         \* the listener that was unregistered without being open

user == <<closed, calls, pending>>
windows == <<handles, receiving, registered, urls>>
apiVars == <<user, lock, serverApi, registrations, windows, opened, astray>>

-----------------------------------------------------------------------------
Urls == {Address[l] : l \in Listeners}
Handle == {"session", "queue", "io"}
HandleState == {"null", "open", "closed"}  \* closed: not reset since
NoHandles == [h \in Handle |-> "null"]

\* A task registers or unregisters its listener; "failed" is the continuation
\* of an open() that did not succeed.
Task == [op : {"open", "close", "failed"}, of : Listeners, call : Nat]
NoTask == [op |-> "none", of |-> "none", call |-> 0]

\* error: the exception saved in except.  first: the exception of
\* unregister_listener, which a comment calls the original one.
Error == {"none", "open", "unregister", "stop"}
Free == [pc |-> "free", task |-> NoTask, error |-> "none", first |-> "none"]
Lock ==
    {Free} \cup [pc : {"start", "register", "undo", "unregister", "leave", "stop", "end"},
                 task : Task, error : Error, first : Error]

ApiInit ==
    /\ closed = [l \in Listeners |-> TRUE]
    /\ calls = [l \in Listeners |-> 0]
    /\ pending = {}
    /\ lock = Free
    /\ serverApi \in {"none", "default"}
    /\ registrations = 0
    /\ handles = NoHandles /\ receiving = "none"
    /\ registered = {} /\ urls = [a \in Urls |-> "free"]
    /\ opened = {}
    /\ astray = "no"

-----------------------------------------------------------------------------
(* The users of the listeners.                                                *)

Idle(l) ==
    /\ \A t \in pending : t.of # l
    /\ lock.task.of # l

MayCall(l) ==
    /\ astray = "no"
    /\ calls[l] < MaxCalls[l]
    /\ l \in Patient => Idle(l)

Call(l, op) ==
    /\ calls' = [calls EXCEPT ![l] = @ + 1]
    /\ pending' = pending \cup {[op |-> op, of |-> l, call |-> calls[l] + 1]}
    /\ UNCHANGED <<lock, serverApi, registrations, windows, opened, astray>>

\* open() of a listener that is open, and close() of one that is closed, only
\* return a task.
Open(l) ==
    /\ MayCall(l) /\ closed[l]
    /\ closed' = [closed EXCEPT ![l] = FALSE]
    /\ Call(l, "open")

Close(l) ==
    /\ MayCall(l) /\ ~closed[l]
    /\ closed' = [closed EXCEPT ![l] = TRUE]
    /\ Call(l, "close")

\* Variants, here and below, are plausible mistakes in the definition that
\* follows them; PROJECT.json pairs each with the property that detects it.
OpenFailed_StaysOpen(t) ==
    /\ astray = "no" /\ t.op = "failed"
    /\ pending' = pending \ {t}
    /\ UNCHANGED <<closed, calls, lock, serverApi, registrations, windows, opened, astray>>

OpenFailed(t) ==
    /\ astray = "no" /\ t.op = "failed"
    /\ closed' = [closed EXCEPT ![t.of] = TRUE]
    /\ pending' = pending \ {t}
    /\ UNCHANGED <<calls, lock, serverApi, registrations, windows, opened, astray>>

-----------------------------------------------------------------------------
(* Under s_lock.                                                              *)

At(pc) == astray = "no" /\ lock.pc = pc
Goto(pc, error) == lock' = [lock EXCEPT !.pc = pc, !.error = error]

\* Takes a server object out of use, with the registrations it holds; a queue
\* or a session that it left open stays so.
NewServer(kind) ==
    /\ serverApi' = kind
    /\ handles' = NoHandles /\ receiving' = "none"
    /\ registered' = {}
    /\ UNCHANGED urls

BeginRegister(t) ==
    /\ At("free") /\ t.op = "open"
    /\ pending' = pending \ {t}
    /\ IF serverApi = "none" THEN NewServer("default") ELSE UNCHANGED <<serverApi, windows>>
    /\ registrations' = registrations + 1
    /\ lock' = [Free EXCEPT !.task = t,
                            !.pc = IF registrations' = 1 THEN "start" ELSE "register"]
    /\ UNCHANGED <<closed, calls, opened, astray>>

\* The handles start() leaves when the call that fails is the one of
\* "failing", or when none does.
StartedHandles(failing) ==
    CASE failing = "session" -> NoHandles
      [] failing = "queue" -> [NoHandles EXCEPT !["session"] = "open"]
      [] failing = "io" -> [NoHandles EXCEPT !["session"] = "open", !["queue"] = "open"]
      [] OTHER -> [h \in Handle |-> "open"]

\* http_windows_server::start
Start ==
    /\ At("start")
    /\ \E failing \in Handle \cup {"none"} :
        /\ IF serverApi = "custom" THEN UNCHANGED windows
           ELSE /\ handles' = StartedHandles(failing)
                /\ receiving' = IF failing = "none" THEN "running" ELSE receiving
                /\ UNCHANGED <<registered, urls>>
        /\ IF failing = "none" THEN Goto("register", "none") ELSE Goto("undo", "open")
    /\ UNCHANGED <<user, serverApi, registrations, opened, astray>>

\* The URL group that register_listener creates takes the URL, unless another
\* has it.  The group is closed again by every failure after that; the entry
\* in _M_registeredListeners stays when the binding fails.
RegisterFails_KeepsGroup(l, a) ==
    /\ \E failing \in {"group", "timeouts", "listener", "binding"} :
        /\ failing # "group" => urls[a] = "free"
        /\ failing = "listener" => l \in registered
        /\ failing = "binding" => l \notin registered
        /\ registered' = IF failing = "binding" THEN registered \cup {l} ELSE registered
        /\ urls' = IF failing = "timeouts" THEN [urls EXCEPT ![a] = l] ELSE urls
    /\ Goto("undo", "open")
    /\ UNCHANGED opened

RegisterFails(l, a) ==
    /\ \E failing \in {"group", "timeouts", "listener", "binding"} :
        /\ failing # "group" => urls[a] = "free"
        /\ failing = "listener" => l \in registered
        /\ failing = "binding" => l \notin registered
        /\ registered' = IF failing = "binding" THEN registered \cup {l} ELSE registered
    /\ Goto("undo", "open")
    /\ UNCHANGED <<urls, opened>>

RegisterSucceeds(l, a) ==
    /\ urls[a] = "free" /\ l \notin registered
    /\ registered' = registered \cup {l}
    /\ urls' = [urls EXCEPT ![a] = l]
    /\ opened' = opened \cup {l}
    /\ Goto("end", "none")

\* http_windows_server::register_listener
RegisterListener ==
    LET l == lock.task.of IN
    /\ At("register")
    /\ IF serverApi = "default"
       THEN RegisterFails(l, Address[l]) \/ RegisterSucceeds(l, Address[l])
       ELSE /\ \/ Goto("undo", "open") /\ UNCHANGED opened
               \/ /\ l \notin opened
                  /\ Goto("end", "none") /\ opened' = opened \cup {l}
            /\ UNCHANGED <<registered, urls>>
    /\ UNCHANGED <<user, serverApi, registrations, handles, receiving, astray>>

\* Registration failed: the count goes back, and the server stops with it.
Undo_KeepsCount ==
    /\ At("undo")
    /\ Goto(IF registrations = 1 THEN "stop" ELSE "end", lock.error)
    /\ UNCHANGED <<user, serverApi, registrations, windows, opened, astray>>

Undo ==
    /\ At("undo")
    /\ registrations' = registrations - 1
    /\ Goto(IF registrations' = 0 THEN "stop" ELSE "end", lock.error)
    /\ UNCHANGED <<user, serverApi, windows, opened, astray>>

BeginUnregister(t) ==
    /\ At("free") /\ t.op = "close"
    /\ pending' = pending \ {t}
    /\ lock' = [Free EXCEPT !.task = t, !.pc = "unregister"]
    /\ UNCHANGED <<closed, calls, serverApi, registrations, windows, opened, astray>>

\* http_windows_server::unregister_listener.  A group HttpCloseUrlGroup fails to
\* close keeps the URL.  The entry of a listener that is not open is a null
\* pointer, which is dereferenced, or what a failed binding left, which makes
\* the count one too low: the model ends there.
UnregisterListener ==
    LET l == lock.task.of IN
    /\ At("unregister")
    /\ IF l \notin opened
       THEN astray' = l /\ UNCHANGED <<lock, registered, urls, opened>>
       ELSE /\ \E e \in {"none", "unregister"} :
                /\ lock' = [lock EXCEPT !.pc = "leave", !.error = e, !.first = e]
                /\ urls' = [a \in Urls |->
                        IF urls[a] = l THEN IF e = "none" THEN "free" ELSE "orphan"
                        ELSE urls[a]]
            /\ registered' = registered \ {l}
            /\ opened' = opened \ {l}
            /\ UNCHANGED astray
    /\ UNCHANGED <<user, serverApi, registrations, handles, receiving>>

Leave_Early ==
    /\ At("leave")
    /\ registrations' = registrations - 1
    /\ Goto(IF registrations' <= 1 THEN "stop" ELSE "end", lock.error)
    /\ UNCHANGED <<user, serverApi, windows, opened, astray>>

Leave ==
    /\ At("leave")
    /\ registrations' = registrations - 1
    /\ Goto(IF registrations' = 0 THEN "stop" ELSE "end", lock.error)
    /\ UNCHANGED <<user, serverApi, windows, opened, astray>>

\* What becomes of an exception of stop(): open() ignores it, and close() saves
\* it when it has one already.
Merged == IF lock.task.op = "close" /\ lock.error # "none" THEN "stop" ELSE lock.error

\* m_receivingTask.wait() throws when the task was never created or ended with
\* an exception, and stop() ends there.
StopThrows ==
    IF serverApi = "custom" THEN TRUE
    ELSE handles["queue"] # "null" /\ receiving \in {"none", "thrown"}

StopCompletes ==
    IF serverApi = "custom" THEN TRUE
    ELSE handles["queue"] = "null" \/ receiving \in {"running", "ended"}

Released(h) ==
    IF handles[h] = "null" THEN "null" ELSE IF h = "io" THEN "null" ELSE "closed"

\* http_windows_server::stop.  With the session go its URL groups.
Stop ==
    /\ At("stop")
    /\ \/ /\ StopThrows
          /\ Goto("end", Merged)
          /\ UNCHANGED windows
       \/ /\ StopCompletes
          /\ Goto("end", lock.error)
          /\ IF serverApi = "custom" THEN UNCHANGED windows
             ELSE /\ handles' = [h \in Handle |-> Released(h)]
                  /\ receiving' = IF receiving = "running" THEN "ended" ELSE receiving
                  /\ urls' = IF handles["session"] = "open"
                             THEN [a \in Urls |-> "free"] ELSE urls
                  /\ UNCHANGED registered
    /\ UNCHANGED <<user, serverApi, registrations, opened, astray>>

End ==
    /\ At("end")
    /\ lock' = Free
    /\ pending' = IF lock.task.op = "open" /\ lock.error # "none"
                  THEN pending \cup {[lock.task EXCEPT !.op = "failed"]} ELSE pending
    /\ UNCHANGED <<closed, calls, serverApi, registrations, windows, opened, astray>>

-----------------------------------------------------------------------------
(* The rest of the process, and HTTP.sys.                                     *)

\* register_server_api, refused while listeners are attached
RegisterServerApi ==
    /\ At("free") /\ registrations = 0
    /\ serverApi # "custom"
    /\ NewServer("custom")
    /\ UNCHANGED <<user, lock, registrations, opened, astray>>

UnregisterServerApi ==
    /\ At("free") /\ registrations = 0
    /\ serverApi # "none"
    /\ NewServer("none")
    /\ UNCHANGED <<user, lock, registrations, opened, astray>>

\* receive_requests leaves its loop at any error but one, or by an exception.
ReceivingEnds ==
    /\ astray = "no"
    /\ receiving = "running"
    /\ receiving' \in {"ended", "thrown"}
    /\ UNCHANGED <<user, lock, serverApi, registrations, handles, registered, urls,
                   opened, astray>>

ApiNext ==
    \/ \E l \in Listeners : Open(l) \/ Close(l)
    \/ \E t \in pending : OpenFailed(t) \/ BeginRegister(t) \/ BeginUnregister(t)
    \/ Start \/ RegisterListener \/ Undo
    \/ UnregisterListener \/ Leave
    \/ Stop \/ End
    \/ RegisterServerApi \/ UnregisterServerApi \/ ReceivingEnds

ApiSpec == ApiInit /\ [][ApiNext]_apiVars

-----------------------------------------------------------------------------
(* Properties.                                                                *)

ApiTypeOK ==
    /\ closed \in [Listeners -> BOOLEAN]
    /\ DOMAIN calls = Listeners /\ \A l \in Listeners : calls[l] \in 0..MaxCalls[l]
    /\ pending \subseteq Task /\ lock \in Lock
    /\ serverApi \in {"none", "default", "custom"}
    /\ registrations \in 0..(Cardinality(Listeners) + 1)
    /\ handles \in [Handle -> HandleState]
    /\ receiving \in {"none", "running", "ended", "thrown"}
    /\ registered \subseteq Listeners /\ opened \subseteq Listeners
    /\ urls \in [Urls -> Listeners \cup {"free", "orphan"}]
    /\ astray \in Listeners \cup {"no"}

\* Whatever fails on the way, between two operations the count is the number of
\* listeners that are open.
CountExact == lock = Free => registrations = Cardinality(opened)

\* Listeners that are open are served: they are registered, own their URLs, and
\* the server runs on handles that are all open.
OpenIsServed ==
    lock = Free /\ serverApi = "default" /\ opened # {} =>
        /\ \A h \in Handle : handles[h] = "open"
        /\ receiving # "none"
        /\ \A l \in opened : l \in registered /\ urls[Address[l]] = l

\* No failed open() keeps its URL from the other listeners: a URL is taken by an
\* open listener or by a group that HTTP.sys refused to close.  And stop() does
\* not pass to HTTP.sys a handle it closed before, although it leaves the values
\* of two of the three where they were.
ResourcesOwned ==
    /\ lock = Free => \A a \in Urls : urls[a] \in opened \cup {"free", "orphan"}
    /\ At("stop") /\ serverApi = "default" => \A h \in Handle : handles[h] # "closed"

\* Between calls, m_closed of a listener whose user waits for every task says
\* whether it is open; so close() never meets a registration that is not there.
FlagIsTrue ==
    /\ astray \notin Patient
    /\ astray = "no" => \A l \in Patient : Idle(l) => (closed[l] <=> l \notin opened)

\* The listeners that are open are counted and served, nothing else is held, and
\* m_closed says so.
RegistrationsSound == CountExact /\ OpenIsServed /\ ResourcesOwned /\ FlagIsTrue

\* "save the original exception from unregister listener": what close() reports
\* when both the unregistration and the stop fail.
CloseReportsOriginal ==
    lock.pc = "end" /\ lock.first # "none" => lock.error = lock.first
=============================================================================
