------------------------------ MODULE PplxTasks ------------------------------
(* Tasks, continuations, task completion events, when_all and when_any        *)
(* (pplxtasks.h, over the thread pool of pplx.h): the state machine of        *)
(* _Task_impl with the regions of its locks as steps.                         *)
(*                                                                            *)
(* A program is a few tasks and who makes them.  The builder creates them in  *)
(* order; setters hold an event and call set() or set_exception() on it, or   *)
(* drop it; workers are threads of the pool; and the token of the tasks that  *)
(* have one may be cancelled.  Every actor is a call stack, since a           *)
(* continuation may run within the call that completes its antecedent.        *)
EXTENDS Integers, Sequences, FiniteSets

CONSTANTS
    Tasks, Events, Setters, Workers,
    Programs   \* see IsProgram

Bodies == {"none", "user", "task", "unwrap", "all", "any", "vector", "value"}
\* from: what completes or starts the task.  of: its event or antecedent, or
\* its own name.  based: takes the task and not its value.  inline:
\* _ForceInline.  other: the task unwrapped into or the unwrapping one.
TaskInfo ==
    [from : {"event", "chore", "then"}, of : Tasks \cup Events, based : BOOLEAN,
     inline : BOOLEAN, body : Bodies, other : Tasks, token : BOOLEAN]
\* build: the tasks the builder creates.  target: the event of each setter.
\* parts: how many tasks when_all or when_any was given.  joint: its event.
HasParts(p) ==
    /\ DOMAIN p = {"build", "info", "target", "parts", "joint"}
    /\ p.build \in Seq(Tasks) /\ DOMAIN p.info \subseteq Tasks
    /\ \A t \in DOMAIN p.info : p.info[t] \in TaskInfo
    /\ p.target \in [Setters -> Events \cup {"none"}]
    /\ p.parts \in Nat /\ p.joint \in Events

Before(p, t, u) ==
    \E i, j \in DOMAIN p.build : i < j /\ p.build[i] = t /\ p.build[j] = u
\* A task is created once, and continued only then; _AsyncInit unwraps a task
\* that the user could return.
IsOrdered(p) ==
    /\ \A i, j \in DOMAIN p.build : p.build[i] = p.build[j] => i = j
    /\ \A i \in DOMAIN p.build : p.build[i] \in DOMAIN p.info
    /\ \A t \in DOMAIN p.info :
        LET x == p.info[t] IN
        /\ x.from = "event" <=> x.body = "none"
        /\ x.from = "event" => x.of \in Events
        /\ x.body # "unwrap" <=> \E i \in DOMAIN p.build : p.build[i] = t
        /\ x.from = "then" /\ x.body # "unwrap" => Before(p, x.of, t)
        /\ x.body = "task" =>
            /\ x.other \in DOMAIN p.info /\ Before(p, p.info[x.other].of, t)
            /\ p.info[x.other].body = "unwrap" /\ p.info[x.other].other = t
        /\ x.body = "unwrap" =>
            /\ x.other \in DOMAIN p.info
            /\ p.info[x.other].body = "task" /\ p.info[x.other].other = t
        /\ x.body \in {"unwrap", "all", "any"} => x.from = "then" /\ x.based /\ ~x.token

\* The continuations that report to the event of when_all or when_any are made
\* when the tasks of that event are, and the one that reads the results.
Reporters(p) == {t \in DOMAIN p.info : p.info[t].body \in {"all", "any"}}
JointTasks(p) == {t \in DOMAIN p.info : p.info[t].from = "event" /\ p.info[t].of = p.joint}
IsJoined(p) ==
    /\ p.parts = Cardinality(Reporters(p))
    /\ Reporters(p) = {} => JointTasks(p) = {}
    /\ \A s \in Setters : p.target[s] # p.joint
    /\ \A r, q \in Reporters(p) : p.info[r].body = p.info[q].body
    /\ \A t \in JointTasks(p), r \in Reporters(p) : Before(p, p.info[r].of, t) /\ Before(p, t, r)
    /\ \A t \in DOMAIN p.info : p.info[t].body = "vector" =>
        /\ p.info[t].from = "then" /\ p.info[t].inline /\ ~p.info[t].based
        /\ p.info[t].of \in JointTasks(p)
        /\ \A r \in Reporters(p) : p.info[r].body = "all" /\ Before(p, t, r)

IsProgram(p) == HasParts(p) /\ IsOrdered(p) /\ IsJoined(p)

ASSUME PplxAssumption ==
    /\ \A p \in Programs : IsProgram(p)
    /\ IsFiniteSet(Tasks)
    /\ "builder" \notin Setters \cup Workers
    /\ "none" \notin Tasks \cup Events \cup Setters

VARIABLES
    program,
    todo,       \* what the builder has still to create
    state,      \* state[t]: _M_TaskState
    exc,        \* exc[t]: _M_exceptionHolder, named after who threw
    conts,      \* conts[t]: _M_Continuations, the newest first
    done,       \* tasks whose _M_TaskCollection is complete: wait() returns
    armed,      \* tasks registered with the token
    cancelled,  \* whether the token is cancelled
    waiting,    \* waiting[e]: _M_tasks of the event
    hasValue, isCanceled,  \* the events that were set, or cancelled
    stored,     \* stored[e]: the exception of the event
    unused,     \* the setters that have not called
    wins,       \* wins[e]: how many calls on the event returned true
    count, param,  \* _M_completeCount and whether the _RunAllParam exists
    pool,       \* what is scheduled on the thread pool
    stack,      \* stack[a]: the calls of actor a, the innermost first
    broken      \* the assertions of the code that did not hold

task == <<state, exc, conts, done>>
token == <<armed, cancelled>>
event == <<waiting, hasValue, isCanceled, stored, wins>>
joint == <<count, param>>
pplxVars ==
    <<program, todo, task, token, event, unused, joint, pool, stack, broken>>

-----------------------------------------------------------------------------
Actors == Setters \cup Workers \cup {"builder"}
Info(t) == program.info[t]
Based(t) == Info(t).based
Antecedent(t) == Info(t).of
Outcome == {"Completed", "Canceled"}
States == {"none", "Created", "Started", "PendingCancel"} \cup Outcome
Exceptions == Tasks \cup Setters
Done(t) == state[t] \in Outcome
Triggered(e) == e \in hasValue \cup isCanceled

\* A call: where it is, the task or event, the exception, the tasks left.
Points ==
    {"register", "schedule", "start", "perform", "finalize", "complete", "continue",
     "cancel", "cancelled", "run", "set", "store", "keep", "cancelEvent", "deliver",
     "fail", "countAll", "countAny", "delete"}
Call(at, of) == [at |-> at, of |-> of, exc |-> "none", rest |-> <<>>]
Cancelling(t, x) == [Call("cancel", t) EXCEPT !.exc = x]
With(call, x) == [call EXCEPT !.exc = x]

PplxInit ==
    /\ program \in Programs /\ todo = program.build
    /\ state = [t \in Tasks |-> "none"] /\ exc = [t \in Tasks |-> "none"]
    /\ conts = [t \in Tasks |-> <<>>] /\ done = {}
    /\ armed = {} /\ cancelled = FALSE
    /\ waiting = [e \in Events |-> <<>>]
    /\ hasValue = {} /\ isCanceled = {} /\ stored = [e \in Events |-> "none"]
    /\ unused = {s \in Setters : program.target[s] # "none"}
    /\ wins = [e \in Events |-> 0]
    /\ count = 0 /\ param = "exists"
    /\ pool = {} /\ stack = [a \in Actors |-> <<>>]
    /\ broken = {}

-----------------------------------------------------------------------------
\* Top(a, point): actor a is at the beginning of that part of a call.
Top(a, point) == stack[a] # <<>> /\ stack[a][1].at = point
This(a) == stack[a][1]
\* The call is replaced by the calls fs, or left if there are none.
Go(a, fs) == stack' = [stack EXCEPT ![a] = fs \o Tail(@)]
Expect(holds, what) == broken' = IF holds THEN broken ELSE broken \cup {what}

\* _ScheduleContinuationTask: on this thread, or on the pool.
Dispatch(a, t, more) ==
    IF Info(t).inline
    THEN Go(a, <<Call("start", t)>> \o more) /\ UNCHANGED pool
    ELSE Go(a, more) /\ pool' = pool \cup {Call("start", t)}

\* _CreateImpl: a token that is cancelled calls back at once.
Create(t) ==
    /\ state' = [state EXCEPT ![t] =
            IF Info(t).token /\ cancelled THEN "PendingCancel" ELSE "Created"]
    /\ armed' = IF Info(t).token /\ ~cancelled THEN armed \cup {t} ELSE armed

\* task(event), create_task(functor), then().
Build ==
    /\ todo # <<>> /\ stack["builder"] = <<>>
    /\ LET t == Head(todo) IN
       /\ Create(t)
       /\ IF Info(t).from = "chore"
          THEN pool' = pool \cup {Call("start", t)} /\ UNCHANGED stack
          ELSE /\ LET point == IF Info(t).from = "event" THEN "register" ELSE "schedule"
                  IN  stack' = [stack EXCEPT !["builder"] = <<Call(point, t)>>]
               /\ UNCHANGED pool
    /\ todo' = Tail(todo)
    /\ UNCHANGED <<program, exc, conts, done, cancelled, event, unused, joint, broken>>

Idle(a) == a \in Workers /\ stack[a] = <<>>
Work(a) ==
    /\ Idle(a)
    /\ \E call \in pool :
        /\ pool' = pool \ {call}
        /\ stack' = [stack EXCEPT ![a] = <<call>>]
    /\ UNCHANGED <<program, todo, task, token, event, unused, joint, broken>>

-----------------------------------------------------------------------------
\* _ScheduleContinuation: decides under the lock of the antecedent.
Schedule(a) ==
    /\ Top(a, "schedule")
    /\ LET t == This(a).of
           from == Antecedent(t)
       IN  CASE state[from] = "Completed" \/ (state[from] = "Canceled" /\ Based(t)) ->
                    Dispatch(a, t, <<>>) /\ UNCHANGED conts
             [] state[from] = "Canceled" /\ ~Based(t) ->
                    Go(a, <<Cancelling(t, exc[from])>>) /\ UNCHANGED <<conts, pool>>
             [] ~Done(from) ->
                    /\ conts' = [conts EXCEPT ![from] = <<t>> \o @]
                    /\ Go(a, <<>>) /\ UNCHANGED pool
    /\ UNCHANGED <<program, todo, state, exc, done, token, event, unused, joint, broken>>

\* invoke(): _TransitionedToStarted, or else _SyncCancelAndPropagateException.
Start(a) ==
    /\ Top(a, "start")
    /\ LET t == This(a).of IN
       /\ Expect(state[t] \in {"Created", "PendingCancel"}, "start")
       /\ IF state[t] = "PendingCancel"
          THEN /\ Go(a, <<Cancelling(t, IF Info(t).from = "then" THEN exc[Antecedent(t)]
                                        ELSE "none")>>)
               /\ UNCHANGED state
          ELSE /\ state' = [state EXCEPT ![t] = "Started"]
               /\ Go(a, <<Call("perform", t)>>)
    /\ UNCHANGED <<program, todo, exc, conts, done, token, event, unused, joint, pool>>

\* _Perform(), with what invoke() makes of an exception.
UserBody(a) ==
    /\ Top(a, "perform") /\ Info(This(a).of).body = "user"
    /\ LET t == This(a).of IN
       \E next \in {Call("finalize", t), Cancelling(t, "none"), Cancelling(t, t)} :
            Go(a, <<next>>)
    /\ UNCHANGED <<program, todo, task, token, event, unused, joint, pool, broken>>

\* A body that returns a task, which _AsyncInit continues with the unwrapping.
TaskBody(a) ==
    /\ Top(a, "perform") /\ Info(This(a).of).body = "task"
    /\ LET t == This(a).of
           unwrapping == Info(t).other
       IN  \/ /\ Go(a, <<Call("schedule", unwrapping)>>)
              /\ state' = [state EXCEPT ![unwrapping] = "Created"]
           \/ /\ \E x \in {"none", t} : Go(a, <<Cancelling(t, x)>>)
              /\ UNCHANGED state
    /\ UNCHANGED <<program, todo, exc, conts, done, token, event, unused, joint, pool, broken>>

Unwrap(a) ==
    /\ Top(a, "perform") /\ Info(This(a).of).body = "unwrap"
    /\ LET t == This(a).of
           inner == Antecedent(t)
           outer == Info(t).other
       IN  Go(a, <<IF state[inner] = "Completed" THEN Call("finalize", outer)
                   ELSE Cancelling(outer, exc[inner]),
                   Call("finalize", t)>>)
    /\ UNCHANGED <<program, todo, task, token, event, unused, joint, pool, broken>>

-----------------------------------------------------------------------------
\* _FinalizeAndRunContinuations.
Finalize(a) ==
    /\ Top(a, "finalize")
    /\ LET t == This(a).of IN
       /\ Expect(exc[t] = "none" /\ state[t] # "Completed", "finalize")
       /\ IF state[t] = "Canceled"
          THEN Go(a, <<>>) /\ UNCHANGED state
          ELSE /\ state' = [state EXCEPT ![t] = "Completed"]
               /\ Go(a, <<Call("complete", t)>>)
    /\ UNCHANGED <<program, todo, exc, conts, done, token, event, unused, joint, pool>>

\* _RunTaskContinuations takes the list without the lock.
Complete(a) ==
    /\ Top(a, "complete") \/ Top(a, "run")
    /\ LET t == This(a).of IN
       /\ done' = done \cup {t}
       /\ conts' = [conts EXCEPT ![t] = <<>>]
       /\ Go(a, <<[Call("continue", t) EXCEPT !.rest = conts[t]]>>)
    /\ UNCHANGED <<program, todo, state, exc, token, event, unused, joint, pool, broken>>

\* Variants, here and below, are plausible mistakes in the definition that
\* follows; PROJECT.json pairs each with the property that detects it.

\* A mutant: runs them even if the antecedent was cancelled.
Continue_Always(a) ==
    /\ Top(a, "continue")
    /\ LET rest == This(a).rest IN
       IF rest = <<>>
       THEN Go(a, <<>>) /\ UNCHANGED pool
       ELSE Dispatch(a, Head(rest), <<[This(a) EXCEPT !.rest = Tail(rest)]>>)
    /\ UNCHANGED <<program, todo, task, token, event, unused, joint, broken>>

\* _RunContinuation, for each of the list.
Continue(a) ==
    /\ Top(a, "continue")
    /\ LET t == This(a).of
           rest == This(a).rest
       IN  IF rest = <<>>
           THEN Go(a, <<>>) /\ UNCHANGED <<pool, broken>>
           ELSE LET next == Head(rest)
                    more == <<[This(a) EXCEPT !.rest = Tail(rest)]>>
                IN  IF state[t] = "Canceled" /\ ~Based(next)
                    THEN /\ Go(a, <<Cancelling(next, exc[t])>> \o more)
                         /\ UNCHANGED <<pool, broken>>
                    ELSE /\ Expect(state[next] # "Canceled", "continue")
                         /\ Dispatch(a, next, more)
    /\ UNCHANGED <<program, todo, task, token, event, unused, joint>>

\* _CancelAndRunContinuations(true, ...), with an exception or without.
CancelTask(a) ==
    /\ Top(a, "cancel")
    /\ LET t == This(a).of
           x == This(a).exc
       IN  /\ Expect(x # "none" => state[t] # "Completed" /\ exc[t] = "none", "cancel")
           /\ IF state[t] = "Canceled" \/ (x = "none" /\ state[t] = "Completed")
              THEN Go(a, <<>>) /\ UNCHANGED <<state, exc>>
              ELSE /\ state' = [state EXCEPT ![t] = "Canceled"]
                   /\ exc' = [exc EXCEPT ![t] = x]
                   /\ Go(a, <<Call("cancelled", t)>>)
    /\ UNCHANGED <<program, todo, conts, done, token, event, unused, joint, pool>>

\* Its continuations are run on the pool.
Cancelled(a) ==
    /\ Top(a, "cancelled")
    /\ LET t == This(a).of IN
       /\ done' = done \cup {t}
       /\ pool' = IF conts[t] = <<>> THEN pool ELSE pool \cup {Call("run", t)}
    /\ Go(a, <<>>)
    /\ UNCHANGED <<program, todo, state, exc, conts, token, event, unused, joint, broken>>

\* The token: each task registered with it gets _Cancel(false).
CancelToken ==
    /\ ~cancelled /\ \E t \in DOMAIN program.info : Info(t).token
    /\ cancelled' = TRUE
    /\ UNCHANGED <<program, todo, task, armed, event, unused, joint, pool, stack, broken>>

\* A mutant: cancels a task that is finished.
Callback_Unchecked(t) ==
    /\ cancelled /\ t \in armed
    /\ armed' = armed \ {t}
    /\ state' = [state EXCEPT ![t] = "PendingCancel"]
    /\ UNCHANGED <<program, todo, exc, conts, done, cancelled, event, unused, joint, pool,
                   stack, broken>>

Callback(t) ==
    /\ cancelled /\ t \in armed
    /\ armed' = armed \ {t}
    /\ state' = [state EXCEPT ![t] = IF Done(t) THEN @ ELSE "PendingCancel"]
    /\ UNCHANGED <<program, todo, exc, conts, done, cancelled, event, unused, joint, pool,
                   stack, broken>>

-----------------------------------------------------------------------------
\* task_completion_event.  What _RegisterTask does to the task, it does under
\* the lock of the event.
RegisterTask(a) ==
    /\ Top(a, "register")
    /\ LET t == This(a).of
           e == Info(t).of
       IN  CASE stored[e] # "none" ->
                    /\ state' = [state EXCEPT ![t] = "Canceled"]
                    /\ exc' = [exc EXCEPT ![t] = stored[e]]
                    /\ done' = done \cup {t} /\ UNCHANGED waiting
             [] stored[e] = "none" /\ e \in hasValue ->
                    /\ state' = [state EXCEPT ![t] = "Completed"]
                    /\ done' = done \cup {t} /\ UNCHANGED <<exc, waiting>>
             [] stored[e] = "none" /\ e \notin hasValue ->
                    /\ waiting' = [waiting EXCEPT ![e] = Append(@, t)]
                    /\ UNCHANGED <<state, exc, done>>
    /\ Go(a, <<>>)
    /\ UNCHANGED <<program, todo, conts, token, hasValue, isCanceled, stored, wins, unused,
                   joint, pool, broken>>

\* A setter calls set() or set_exception() once, or drops the event.
Use(s) ==
    /\ s \in unused /\ stack[s] = <<>>
    /\ unused' = unused \ {s}
    /\ LET e == program.target[s] IN
       \/ stack' = [stack EXCEPT ![s] = <<Call("set", e)>>]
       \/ stack' = [stack EXCEPT ![s] = <<With(Call("store", e), s)>>]
       \/ UNCHANGED stack
    /\ UNCHANGED <<program, todo, task, token, event, joint, pool, broken>>

Set(a) ==
    /\ Top(a, "set")
    /\ LET e == This(a).of IN
       IF Triggered(e)
       THEN Go(a, <<>>) /\ UNCHANGED <<waiting, hasValue, wins>>
       ELSE /\ hasValue' = hasValue \cup {e}
            /\ waiting' = [waiting EXCEPT ![e] = <<>>]
            /\ wins' = [wins EXCEPT ![e] = @ + 1]
            /\ Go(a, <<[Call("deliver", e) EXCEPT !.rest = waiting[e]]>>)
    /\ UNCHANGED <<program, todo, task, token, isCanceled, stored, unused, joint, pool, broken>>

\* The test for a pending cancellation is made without the lock of the task.
Deliver(a) ==
    /\ Top(a, "deliver")
    /\ LET rest == This(a).rest
           e == This(a).of
       IN  IF rest = <<>>
           THEN Go(a, <<>>) /\ stored' = [stored EXCEPT ![e] = "none"]
           ELSE /\ Go(a, <<IF state[Head(rest)] = "PendingCancel"
                           THEN Cancelling(Head(rest), "none")
                           ELSE Call("finalize", Head(rest)),
                           [This(a) EXCEPT !.rest = Tail(rest)]>>)
                /\ UNCHANGED stored
    /\ UNCHANGED <<program, todo, task, token, waiting, hasValue, isCanceled, wins, unused,
                   joint, pool, broken>>

\* _StoreException, then _CancelInternal; when_any only stores ("keep").
Store(a) ==
    /\ Top(a, "store") \/ Top(a, "keep")
    /\ LET e == This(a).of IN
       IF Triggered(e) \/ stored[e] # "none"
       THEN Go(a, <<>>) /\ UNCHANGED stored
       ELSE /\ stored' = [stored EXCEPT ![e] = This(a).exc]
            /\ Go(a, IF Top(a, "store") THEN <<With(Call("cancelEvent", e), This(a).exc)>>
                     ELSE <<>>)
    /\ UNCHANGED <<program, todo, task, token, waiting, hasValue, isCanceled, wins, unused,
                   joint, pool, broken>>

\* What a call may find that stored its exception without cancelling.
SetBetween == "set between _StoreException and _CancelInternal"
CancelledBetween == "cancelled between _StoreException and _CancelInternal"
Found(call) ==
    (IF call.of \in hasValue THEN {SetBetween} ELSE {})
        \cup (IF call.exc # "none" /\ call.of \in isCanceled THEN {CancelledBetween} ELSE {})

\* _CancelInternal; who stored an exception asserts that it cancels.
CancelEvent(a) ==
    /\ Top(a, "cancelEvent")
    /\ broken' = broken \cup Found(This(a))
    /\ LET e == This(a).of IN
       IF e \in isCanceled
       THEN Go(a, <<>>) /\ UNCHANGED <<waiting, isCanceled, wins>>
       ELSE /\ isCanceled' = isCanceled \cup {e}
            /\ waiting' = [waiting EXCEPT ![e] = <<>>]
            /\ wins' = [wins EXCEPT ![e] = @ + 1]
            /\ Go(a, <<[With(Call("fail", e), stored[e]) EXCEPT !.rest = waiting[e]]>>)
    /\ UNCHANGED <<program, todo, task, token, hasValue, stored, unused, joint, pool>>

Fail(a) ==
    /\ Top(a, "fail")
    /\ LET rest == This(a).rest IN
       IF rest = <<>> THEN Go(a, <<>>)
       ELSE Go(a, <<Cancelling(Head(rest), This(a).exc),
                    [This(a) EXCEPT !.rest = Tail(rest)]>>)
    /\ UNCHANGED <<program, todo, task, token, event, unused, joint, pool, broken>>

\* ~_Task_completion_event_impl: whoever held the event has dropped it.
Abandon(s) ==
    /\ program.target[s] \in Events /\ stack[s] = <<>>
    /\ todo = <<>> /\ stack["builder"] = <<>>
    /\ \A q \in Setters : program.target[q] = program.target[s] =>
        q \notin unused /\ stack[q] = <<>>
    /\ LET e == program.target[s] IN
       /\ waiting[e] # <<>>
       /\ Expect(~Triggered(e), "abandon")
       /\ waiting' = [waiting EXCEPT ![e] = <<>>]
       /\ stack' = [stack EXCEPT ![s] = <<[Call("fail", e) EXCEPT !.rest = waiting[e]]>>]
    /\ UNCHANGED <<program, todo, task, token, hasValue, isCanceled, stored, wins, unused,
                   joint, pool>>

-----------------------------------------------------------------------------
\* _WhenAllContinuationWrapper.
WhenAll(a) ==
    /\ Top(a, "perform") /\ Info(This(a).of).body = "all"
    /\ LET t == This(a).of
           from == Antecedent(t)
           e == program.joint
           end == Call("finalize", t)
       IN  IF state[from] = "Completed"
           THEN /\ count' = count + 1
                /\ Go(a, IF count + 1 = program.parts
                         THEN <<Call("set", e), Call("delete", t), end>> ELSE <<end>>)
           ELSE /\ Go(a, <<IF exc[from] = "none" THEN Call("cancelEvent", e)
                           ELSE With(Call("store", e), exc[from]),
                           Call("countAll", t), end>>)
                /\ UNCHANGED count
    /\ UNCHANGED <<program, todo, task, token, event, unused, param, pool, broken>>

\* _WhenAnyContinuationWrapper, of tasks without a token.
WhenAny(a) ==
    /\ Top(a, "perform") /\ Info(This(a).of).body = "any"
    /\ LET t == This(a).of
           from == Antecedent(t)
           e == program.joint
           end == Call("finalize", t)
       IN  Go(a, CASE state[from] = "Completed" -> <<Call("set", e), Call("countAll", t), end>>
                   [] state[from] = "Canceled" /\ exc[from] # "none" ->
                        <<With(Call("keep", e), exc[from]), Call("countAny", t), end>>
                   [] state[from] = "Canceled" /\ exc[from] = "none" ->
                        <<Call("countAny", t), end>>)
    /\ UNCHANGED <<program, todo, task, token, event, unused, joint, pool, broken>>

CountAll(a) ==
    /\ Top(a, "countAll")
    /\ count' = count + 1
    /\ Go(a, IF count + 1 = program.parts THEN <<Call("delete", This(a).of)>> ELSE <<>>)
    /\ UNCHANGED <<program, todo, task, token, event, unused, param, pool, broken>>

CountAny(a) ==
    /\ Top(a, "countAny")
    /\ count' = count + 1
    /\ LET e == program.joint
           delete == Call("delete", This(a).of)
       IN  Go(a, IF count + 1 # program.parts THEN <<>>
                 ELSE IF Triggered(e) THEN <<delete>>
                 ELSE <<Call("cancelEvent", e), delete>>)
    /\ UNCHANGED <<program, todo, task, token, event, unused, param, pool, broken>>

Delete(a) ==
    /\ Top(a, "delete")
    /\ Expect(param = "exists", "parameter deleted twice")
    /\ param' = "deleted"
    /\ Go(a, <<>>)
    /\ UNCHANGED <<program, todo, task, token, event, unused, count, pool>>

\* The continuation that is returned: that of when_all reads the results, that
\* of when_any has its own in the event.
Vector(a) ==
    /\ Top(a, "perform") /\ Info(This(a).of).body \in {"vector", "value"}
    /\ Expect(Info(This(a).of).body = "vector" => param = "exists",
              "results read after they were deleted")
    /\ Go(a, <<Call("finalize", This(a).of)>>)
    /\ UNCHANGED <<program, todo, task, token, event, unused, joint, pool>>

-----------------------------------------------------------------------------
Run(a) ==
    \/ Schedule(a) \/ Start(a) \/ UserBody(a) \/ TaskBody(a) \/ Unwrap(a)
    \/ Finalize(a) \/ Complete(a) \/ Continue(a) \/ CancelTask(a) \/ Cancelled(a)
    \/ RegisterTask(a) \/ Set(a) \/ Deliver(a) \/ Store(a) \/ CancelEvent(a) \/ Fail(a)
    \/ WhenAll(a) \/ WhenAny(a) \/ CountAll(a) \/ CountAny(a) \/ Delete(a) \/ Vector(a)

PplxNext ==
    \/ Build
    \/ \E a \in Actors : Run(a) \/ Work(a)
    \/ \E s \in Setters : Use(s) \/ Abandon(s)
    \/ CancelToken
    \/ \E t \in Tasks : Callback(t)

PplxSpec == PplxInit /\ [][PplxNext]_pplxVars

-----------------------------------------------------------------------------
PplxTypeOK ==
    /\ program \in Programs /\ todo \in Seq(Tasks)
    /\ state \in [Tasks -> States]
    /\ exc \in [Tasks -> Exceptions \cup {"none"}]
    /\ conts \in [Tasks -> Seq(Tasks)]
    /\ done \subseteq {t \in Tasks : Done(t)}
    /\ armed \subseteq Tasks /\ cancelled \in BOOLEAN
    /\ waiting \in [Events -> Seq(Tasks)]
    /\ hasValue \subseteq Events /\ isCanceled \subseteq Events
    /\ stored \in [Events -> Exceptions \cup {"none"}]
    /\ unused \subseteq Setters /\ wins \in [Events -> 0..2]
    /\ count \in 0..program.parts /\ param \in {"exists", "deleted"}
    /\ \A call \in pool \cup UNION {{stack[a][i] : i \in 1..Len(stack[a])} : a \in Actors} :
        call.at \in Points /\ call.of \in Tasks \cup Events

Made == {t \in DOMAIN program.info : state[t] # "none"}
Continuations == {t \in Made : Info(t).from = "then"}
Quiet == todo = <<>> /\ unused = {} /\ pool = {} /\ \A a \in Actors : stack[a] = <<>>
\* A value won against an exception that was stored but had not cancelled yet.
Raced(e) == e \in hasValue \cap isCanceled

\* A continuation runs only on a finished antecedent, one by value only on a
\* completed one; and the continuation by value of a task that failed ends as
\* it did, with the same exception (_RunContinuation, _ScheduleContinuation).
Propagated ==
    \A t \in Continuations :
        LET from == Antecedent(t) IN
        /\ state[t] \in {"Started"} \cup Outcome => Done(from)
        /\ ~Based(t) /\ state[from] = "Canceled" /\ Done(t) =>
            state[t] = "Canceled" /\ exc[t] = exc[from]
        /\ ~Based(t) /\ state[t] \in {"Started", "Completed"} => state[from] = "Completed"

\* Nobody is forgotten: when everything has come to rest, and each event was
\* set, cancelled or dropped, every task is finished, whoever waits for it is
\* woken, no continuation is left in a list, and the parameter of when_all or
\* when_any is gone if all its tasks have reported.
NobodyForgotten ==
    Quiet /\ (\A e \in Events : waiting[e] # <<>> => e = program.joint) =>
        /\ \A e \in Events : waiting[e] = <<>>
        /\ \A t \in Made : Done(t) /\ t \in done /\ conts[t] = <<>>
        /\ program.parts > 0 => param = "deleted"

\* What the code asserts holds, with two exceptions: set() may come between the
\* two steps of set_exception(); and so may, in when_all alone, an input that is
\* cancelled without an exception.
AssertionsHold ==
    /\ broken \subseteq {SetBetween, CancelledBetween}
    /\ CancelledBetween \in broken => \E r \in Reporters(program) : Info(r).body = "all"

\* The first call on an event wins and the others are ignored, but for that
\* race: one call returns true and the tasks of the event end alike, except
\* those that their own token cancelled.
FirstSetterWins ==
    \A e \in Events :
        Raced(e) \/ (\E a \in Actors : Top(a, "cancelEvent") /\ This(a).of = e) \/
        /\ wins[e] <= 1
        /\ \A t, u \in {v \in Made : Info(v).from = "event" /\ Info(v).of = e} :
            state[t] = "Completed" /\ state[u] = "Canceled" => exc[u] = "none" /\ Info(u).token

\* Tasks are sound: what the four parts above say of continuations, waiters,
\* events and assertions.
TasksSound == Propagated /\ NobodyForgotten /\ AssertionsHold /\ FirstSetterWins
=============================================================================
