------------------------------- MODULE MCPplx -------------------------------
(* Instances of PplxTasks and of CancellationToken, side by side: a behaviour *)
(* is one of the tasks or one of the token, as which says.                    *)
EXTENDS PplxTasks, CancellationToken, TLC

CONSTANTS ta, tb, tc, td, te, tf, here, joined, s1, s2, w1, w2, t1, t2, t3, r1, r2

VARIABLE which
allVars == <<which, pplxVars, tokenVars>>

-----------------------------------------------------------------------------
FromEvent(ev) ==
    [from |-> "event", of |-> ev, based |-> FALSE, inline |-> FALSE, body |-> "none",
     other |-> ta, token |-> FALSE]
Chore(t) ==
    [from |-> "chore", of |-> t, based |-> FALSE, inline |-> FALSE, body |-> "user",
     other |-> ta, token |-> FALSE]
Then(t, body) ==
    [from |-> "then", of |-> t, based |-> FALSE, inline |-> FALSE, body |-> body,
     other |-> ta, token |-> FALSE]
OfTask(t, body) == [Then(t, body) EXCEPT !.based = TRUE]
Inline(info) == [info EXCEPT !.inline = TRUE]
Cancellable(info) == [info EXCEPT !.token = TRUE]

Program(build, info, others, parts) ==
    [build |-> build, info |-> info, parts |-> parts, joint |-> joined,
     target |-> [s \in Setters |-> IF s = s1 \/ others THEN here ELSE "none"]]

\* A task of an event, a continuation by value and one that takes the task.
Chain ==
    Program(<<ta, tb, tc>>,
            ta :> Cancellable(FromEvent(here)) @@ tb :> Cancellable(Then(ta, "user"))
                @@ tc :> OfTask(ta, "user"), FALSE, 0)
\* Two tasks of an event that two setters call.
Race ==
    Program(<<ta, tb, tc>>,
            ta :> FromEvent(here) @@ tb :> Inline(OfTask(ta, "user"))
                @@ tc :> Cancellable(FromEvent(here)), TRUE, 0)
\* A chore that returns the task of the event; td is what _AsyncInit adds to it.
Unwrapping ==
    Program(<<ta, tb, tc>>,
            ta :> Cancellable(FromEvent(here))
                @@ tb :> Cancellable([Chore(tb) EXCEPT !.body = "task", !.other = td])
                @@ tc :> Cancellable(Then(tb, "user"))
                @@ td :> [OfTask(ta, "unwrap") EXCEPT !.other = tb], FALSE, 0)
\* when_all and when_any of a task of the event and a chore.
WhenAllOf ==
    Program(<<ta, tb, tc, td, te, tf>>,
            ta :> FromEvent(here) @@ tb :> Chore(tb) @@ tc :> Cancellable(FromEvent(joined))
                @@ td :> Inline(Then(tc, "vector"))
                @@ te :> Inline(OfTask(ta, "all")) @@ tf :> Inline(OfTask(tb, "all")), FALSE, 2)
WhenAnyOf ==
    Program(<<ta, tb, tc, td, te, tf>>,
            ta :> FromEvent(here) @@ tb :> Chore(tb) @@ tc :> FromEvent(joined)
                @@ td :> Inline(OfTask(ta, "any")) @@ te :> Inline(OfTask(tb, "any"))
                @@ tf :> Inline(Then(tc, "value")), FALSE, 2)

MCPrograms == {Chain, Race, Unwrapping, WhenAllOf, WhenAnyOf}

-----------------------------------------------------------------------------
MCInit ==
    /\ PplxInit /\ TokenInit
    /\ which \in {"tasks", "token"}
    /\ which # "tasks" => program = Chain

MCNext ==
    \/ which = "tasks" /\ PplxNext /\ UNCHANGED <<which, tokenVars>>
    \/ which = "token" /\ TokenNext /\ UNCHANGED <<which, pplxVars>>

MCSpec ==
    /\ MCInit /\ [][MCNext]_allVars
    /\ \A t \in Threads :
        WF_allVars(which = "token" /\ Step(t) /\ UNCHANGED <<which, pplxVars>>)

\* Every variable has its type.
TypeOK == PplxTypeOK /\ TokenTypeOK
=============================================================================
