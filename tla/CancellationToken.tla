-------------------------- MODULE CancellationToken --------------------------
(* A cancellation token and the callbacks registered with it                  *)
(* (pplxcancellation_token.h): _RegisterCallback, _DeregisterCallback,        *)
(* _Cancel and _Invoke, step by step between their interlocked operations and *)
(* the regions of _M_listLock.                                                *)
(*                                                                            *)
(* An owned callback is registered by an object that it holds weakly and that *)
(* deregisters it in its destructor: a task (_RegisterCancellation and        *)
(* _DeregisterCancellation of pplxtasks.h).  Of the others the handle is      *)
(* dropped as soon as register_callback returns (_JoinAllTokens_Add,          *)
(* create_linked_source).  The threads are call stacks, so that a destructor  *)
(* may run inside the callback of the object it destroys.                     *)
EXTENDS Integers, Sequences, FiniteSets

CONSTANTS
    Threads,
    Registrations,
    Owned   \* those that an object owns and deregisters

\* The number of a thread is none of the values that mark a state (_STATE_CLEAR
\* to _STATE_CALLED): _M_state holds the one or the other.
Phases == {"none", "clear", "defer", "synchronize", "called"}

ASSUME TokenAssumption == Owned \subseteq Registrations /\ Threads \cap Phases = {}

VARIABLES
    flag,       \* _M_stateFlag: 0, 1 while the callbacks run, 2
    listed,     \* _M_registrations
    rundown,    \* the list that _Cancel() took
    phase,      \* phase[r]: _M_state; a thread while it runs the callback
    refs,       \* refs[r]: _M_refCount
    sync,       \* sync[r]: the thread whose event is _M_pSyncBlock
    signalled,  \* the threads whose event is set
    shared,     \* shared[r]: the shared pointers to the owner of r
    held,       \* the owners whose user has not dropped them
    thread,     \* thread[t]: the calls of t, the innermost first
    alive,      \* whether the token still exists
    called,     \* called[r]: the times the callback was made
    strays      \* registrations released as listed that were not in the list

registration == <<phase, refs, sync, signalled>>
owners == <<shared, held>>
tokenVars ==
    <<flag, listed, rundown, registration, owners, thread, alive, called, strays>>

-----------------------------------------------------------------------------
Frame(at, r) == [at |-> at, reg |-> r]
TokenPoints ==
    {"push", "registered", "enter", "exec", "body", "unlock", "exit", "leave",
     "lock", "cas", "exchange", "wait", "release"}
Calls ==
    [at : TokenPoints, reg : Registrations] \cup [at : {"swap", "run"}, reg : {"all"}]

TokenInit ==
    /\ flag = 0 /\ listed = <<>> /\ rundown = <<>>
    /\ phase = [r \in Registrations |-> "none"]
    /\ refs = [r \in Registrations |-> 0]
    /\ sync = [r \in Registrations |-> "none"]
    /\ signalled = {}
    /\ shared = [r \in Registrations |-> 0] /\ held = {}
    /\ thread = [t \in Threads |-> <<>>]
    /\ alive = TRUE
    /\ called = [r \in Registrations |-> 0]
    /\ strays = {}

-----------------------------------------------------------------------------
\* Calls and returns.
At(t, point) == thread[t] # <<>> /\ thread[t][1].at = point
Of(t) == thread[t][1].reg
Caller(t) == Tail(thread[t])
Goto(t, point) == thread' = [thread EXCEPT ![t][1].at = point]
Return(t) == thread' = [thread EXCEPT ![t] = Caller(t)]
\* Goes on at point once the call of f has returned.
Invoke(t, point, f) ==
    thread' = [thread EXCEPT ![t] = <<f, Frame(point, Of(t))>> \o Caller(t)]

In(r, list) == \E i \in 1..Len(list) : list[i] = r
\* The list without the first entry of r.
Without(r, list) ==
    IF In(r, list)
    THEN LET i == CHOOSE i \in 1..Len(list) :
                    list[i] = r /\ \A j \in 1..(i - 1) : list[j] # r
         IN  [j \in 1..(Len(list) - 1) |-> IF j < i THEN list[j] ELSE list[j + 1]]
    ELSE list

-----------------------------------------------------------------------------
\* _RegisterCallback(), and what its callers do around it.
\* The new registration has two references: the handle and the list.
Register(t, r) ==
    /\ thread[t] = <<>> /\ alive /\ phase[r] = "none"
    /\ phase' = [phase EXCEPT ![r] = "clear"]
    /\ refs' = [refs EXCEPT ![r] = 2]
    /\ shared' = [shared EXCEPT ![r] = IF r \in Owned THEN 1 ELSE 0]
    /\ thread' = [thread EXCEPT ![t] =
            IF flag = 0 THEN <<Frame("push", r)>>
            ELSE <<Frame("enter", r), Frame("registered", r)>>]
    /\ UNCHANGED <<flag, listed, rundown, sync, signalled, held, alive, called, strays>>

\* Variants, here and below, are plausible mistakes in the definition that
\* follows; PROJECT.json pairs each with the property that detects it.

\* A mutant: no second test of the flag.
Push_Untested(t) ==
    /\ At(t, "push")
    /\ listed' = Append(listed, Of(t))
    /\ Goto(t, "registered")
    /\ UNCHANGED <<flag, rundown, registration, owners, alive, called, strays>>

\* Under the lock, with the second test of the flag.
Push(t) ==
    /\ At(t, "push")
    /\ IF flag = 0
       THEN /\ listed' = Append(listed, Of(t))
            /\ Goto(t, "registered")
       ELSE /\ Invoke(t, "registered", Frame("enter", Of(t)))
            /\ UNCHANGED listed
    /\ UNCHANGED <<flag, rundown, registration, owners, alive, called, strays>>

Registered(t) ==
    /\ At(t, "registered")
    /\ IF Of(t) \in Owned
       THEN held' = held \cup {Of(t)} /\ UNCHANGED refs
       ELSE refs' = [refs EXCEPT ![Of(t)] = @ - 1] /\ UNCHANGED held
    /\ Return(t)
    /\ UNCHANGED <<flag, listed, rundown, phase, sync, signalled, shared, alive, called, strays>>

-----------------------------------------------------------------------------
\* _Invoke().
Enter(t) ==
    /\ At(t, "enter")
    /\ IF phase[Of(t)] = "clear"
       THEN phase' = [phase EXCEPT ![Of(t)] = t] /\ Goto(t, "exec")
       ELSE Goto(t, "leave") /\ UNCHANGED phase
    /\ UNCHANGED <<flag, listed, rundown, refs, sync, signalled, owners, alive, called, strays>>

\* The callback of an owned registration takes a shared pointer first.
Exec(t) ==
    /\ At(t, "exec")
    /\ LET r == Of(t) IN
       \/ /\ r \in Owned /\ shared[r] > 0
          /\ shared' = [shared EXCEPT ![r] = @ + 1]
          /\ Goto(t, "body")
          /\ UNCHANGED called
       \/ /\ r \in Owned /\ shared[r] = 0
          /\ Goto(t, "exit")
          /\ UNCHANGED <<shared, called>>
       \/ /\ r \notin Owned
          /\ called' = [called EXCEPT ![r] = @ + 1]
          /\ Goto(t, "exit")
          /\ UNCHANGED shared
    /\ UNCHANGED <<flag, listed, rundown, registration, held, alive, strays>>

Body(t) ==
    /\ At(t, "body")
    /\ called' = [called EXCEPT ![Of(t)] = @ + 1]
    /\ Goto(t, "unlock")
    /\ UNCHANGED <<flag, listed, rundown, registration, owners, alive, strays>>

\* If this was the last pointer, the destructor runs here.
Unlock(t) ==
    /\ At(t, "unlock")
    /\ shared' = [shared EXCEPT ![Of(t)] = @ - 1]
    /\ IF shared[Of(t)] = 1
       THEN Invoke(t, "exit", Frame("lock", Of(t)))
       ELSE Goto(t, "exit")
    /\ UNCHANGED <<flag, listed, rundown, registration, held, alive, called, strays>>

Exit(t) ==
    /\ At(t, "exit")
    /\ LET r == Of(t) IN
       /\ phase' = [phase EXCEPT ![r] = IF @ = t THEN "called" ELSE @]
       /\ signalled' =
            IF phase[r] = "synchronize" THEN signalled \cup {sync[r]} ELSE signalled
    /\ Goto(t, "leave")
    /\ UNCHANGED <<flag, listed, rundown, refs, sync, owners, alive, called, strays>>

Leave(t) ==
    /\ At(t, "leave")
    /\ refs' = [refs EXCEPT ![Of(t)] = @ - 1]
    /\ Return(t)
    /\ UNCHANGED <<flag, listed, rundown, phase, sync, signalled, owners, alive, called, strays>>

-----------------------------------------------------------------------------
\* _DeregisterCallback(), called by the destructor of the owner.
Drop(t, r) ==
    /\ thread[t] = <<>> /\ r \in held
    /\ held' = held \ {r}
    /\ shared' = [shared EXCEPT ![r] = @ - 1]
    /\ thread' = [thread EXCEPT ![t] = IF shared[r] = 1 THEN <<Frame("lock", r)>> ELSE <<>>]
    /\ UNCHANGED <<flag, listed, rundown, registration, alive, called, strays>>

\* Under the lock: any entry in the list is taken to mean that r is one.
Remove(t) ==
    /\ At(t, "lock")
    /\ LET r == Of(t) IN
       IF listed # <<>>
       THEN /\ listed' = Without(r, listed)
            /\ phase' = [phase EXCEPT ![r] = "synchronize"]
            /\ refs' = [refs EXCEPT ![r] = @ - 1]
            /\ strays' = IF In(r, listed) THEN strays ELSE strays \cup {r}
            /\ Goto(t, "release")
       ELSE /\ Goto(t, "cas")
            /\ UNCHANGED <<listed, phase, refs, strays>>
    /\ UNCHANGED <<flag, rundown, sync, signalled, owners, alive, called>>

\* A mutant: waits for the callback even if it is the caller.
Defer_WaitsForItself(t) ==
    /\ At(t, "cas")
    /\ LET r == Of(t) IN
       /\ phase' = [phase EXCEPT ![r] = IF @ = "clear" THEN "defer" ELSE @]
       /\ Goto(t, IF phase[r] \in Phases THEN "release" ELSE "exchange")
    /\ UNCHANGED <<flag, listed, rundown, refs, sync, signalled, owners, alive, called, strays>>

Defer(t) ==
    /\ At(t, "cas")
    /\ LET r == Of(t) IN
       /\ phase' = [phase EXCEPT ![r] = IF @ = "clear" THEN "defer" ELSE @]
       /\ Goto(t, IF phase[r] \in Phases \cup {t} THEN "release" ELSE "exchange")
    /\ UNCHANGED <<flag, listed, rundown, refs, sync, signalled, owners, alive, called, strays>>

Exchange(t) ==
    /\ At(t, "exchange")
    /\ LET r == Of(t) IN
       /\ sync' = [sync EXCEPT ![r] = t]
       /\ phase' = [phase EXCEPT ![r] = "synchronize"]
       /\ Goto(t, IF phase[r] = "called" THEN "release" ELSE "wait")
    /\ UNCHANGED <<flag, listed, rundown, refs, signalled, owners, alive, called, strays>>

Wait(t) ==
    /\ At(t, "wait") /\ t \in signalled
    /\ signalled' = signalled \ {t}
    /\ Goto(t, "release")
    /\ UNCHANGED <<flag, listed, rundown, phase, refs, sync, owners, alive, called, strays>>

\* The handle of the owner.
Release(t) ==
    /\ At(t, "release")
    /\ refs' = [refs EXCEPT ![Of(t)] = @ - 1]
    /\ Return(t)
    /\ UNCHANGED <<flag, listed, rundown, phase, sync, signalled, owners, alive, called, strays>>

-----------------------------------------------------------------------------
\* _Cancel().
Cancel(t) ==
    /\ thread[t] = <<>> /\ alive /\ flag = 0
    /\ flag' = 1
    /\ thread' = [thread EXCEPT ![t] = <<Frame("swap", "all")>>]
    /\ UNCHANGED <<listed, rundown, registration, owners, alive, called, strays>>

Swap(t) ==
    /\ At(t, "swap")
    /\ rundown' = listed /\ listed' = <<>>
    /\ Goto(t, "run")
    /\ UNCHANGED <<flag, registration, owners, alive, called, strays>>

RunNext(t) ==
    /\ At(t, "run")
    /\ IF rundown = <<>>
       THEN flag' = 2 /\ Return(t) /\ UNCHANGED rundown
       ELSE /\ rundown' = Tail(rundown)
            /\ Invoke(t, "run", Frame("enter", Head(rundown)))
            /\ UNCHANGED flag
    /\ UNCHANGED <<listed, registration, owners, alive, called, strays>>

\* ~_CancellationTokenState(): the source is gone, and so is every owner.
Destroy ==
    /\ alive
    /\ \A t \in Threads : thread[t] = <<>>
    /\ held = {}
    /\ alive' = FALSE
    /\ listed' = <<>>
    /\ phase' = [r \in Registrations |-> IF In(r, listed) THEN "synchronize" ELSE phase[r]]
    /\ refs' = [r \in Registrations |-> IF In(r, listed) THEN refs[r] - 1 ELSE refs[r]]
    /\ UNCHANGED <<flag, rundown, sync, signalled, owners, thread, called, strays>>

Step(t) ==
    \/ Push(t) \/ Registered(t)
    \/ Enter(t) \/ Exec(t) \/ Body(t) \/ Unlock(t) \/ Exit(t) \/ Leave(t)
    \/ Remove(t) \/ Defer(t) \/ Exchange(t) \/ Wait(t) \/ Release(t)
    \/ Swap(t) \/ RunNext(t)

TokenNext ==
    \/ \E t \in Threads : Step(t) \/ Cancel(t)
    \/ \E t \in Threads, r \in Registrations : Register(t, r) \/ Drop(t, r)
    \/ Destroy

\* A call once begun goes on; nobody has to begin one.
TokenFairness == \A t \in Threads : WF_tokenVars(Step(t))
TokenSpec == TokenInit /\ [][TokenNext]_tokenVars /\ TokenFairness

-----------------------------------------------------------------------------
TokenTypeOK ==
    /\ flag \in 0..2
    /\ listed \in Seq(Registrations) /\ rundown \in Seq(Registrations)
    /\ phase \in [Registrations -> Phases \cup Threads]
    /\ refs \in [Registrations -> -2..2]
    /\ sync \in [Registrations -> Threads \cup {"none"}]
    /\ signalled \subseteq Threads
    /\ shared \in [Registrations -> 0..2] /\ held \subseteq Owned
    /\ thread \in [Threads -> Seq(Calls)]
    /\ alive \in BOOLEAN
    /\ called \in [Registrations -> 0..2]
    /\ strays \subseteq Owned

\* The calls of _Invoke() and of the destructor's _DeregisterCancellation().
Invoking == {"enter", "exec", "body", "unlock", "exit", "leave"}
Deregistering == {"lock", "cas", "exchange", "wait", "release"}
Frames(r, points) ==
    {f \in Threads \X (1..4) :
        /\ f[2] <= Len(thread[f[1]])
        /\ thread[f[1]][f[2]].reg = r /\ thread[f[1]][f[2]].at \in points}
Created == {r \in Registrations : phase[r] # "none"}
\* The owner is destroyed and its destructor has returned.
Gone == {r \in Created \cap Owned :
            shared[r] = 0 /\ Frames(r, Deregistering \cup {"push", "registered"}) = {}}

\* A callback is made at most once and only when the token is cancelled, and
\* when cancel() has returned it was made to all that are still registered
\* (_Invoke and the two tests of _RegisterCallback).
CallbackOnce ==
    /\ \A r \in Registrations : called[r] <= 1 /\ (called[r] = 1 => flag # 0)
    /\ flag = 2 => \A r \in held : called[r] = 1

\* When _DeregisterCallback() has returned, the callback is not running on any
\* thread and never will be, except on the thread that deregistered within it.
DeregisterIsBarrier ==
    \A r \in Gone : Frames(r, {"exec", "body", "unlock"}) = {}

\* Who holds a reference: the handle, and the list or the invocation.
HandleRefs(r) ==
    IF \/ Frames(r, {"push", "registered"}) # {}
       \/ r \in Owned /\ (shared[r] > 0 \/ Frames(r, Deregistering) # {})
    THEN 1 ELSE 0
ListRefs(r) ==
    Cardinality(Frames(r, Invoking \cup {"push"}))
        + (IF In(r, listed) \/ In(r, rundown) THEN 1 ELSE 0)

\* References to a registration are exactly its handle and its place in a list
\* or its invocation, so that nobody uses one that was freed and none is
\* leaked; but for those that _DeregisterCallback() took to be in the list, and
\* that happens only between the two steps with which _Cancel() begins.
RefsExact ==
    /\ \A r \in Created \ strays : refs[r] = HandleRefs(r) + ListRefs(r)
    /\ \A t \in Threads :
        At(t, "lock") /\ listed # <<>> /\ ~In(Of(t), listed) =>
            \E s \in Threads : At(s, "swap")

\* A token is sound: callbacks are made once, deregistering is a barrier, and
\* the counts of references are exact.
TokenSound == CallbackOnce /\ DeregisterIsBarrier /\ RefsExact

\* A call that has begun returns: a destructor that runs within the callback
\* does not wait for the callback to end.
CallsReturn == \A t \in Threads : thread[t] # <<>> ~> thread[t] = <<>>
=============================================================================
