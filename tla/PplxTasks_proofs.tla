-------------------------- MODULE PplxTasks_proofs --------------------------
(* Tasks and events of PplxTasks, for every set of well formed programs.      *)
(*                                                                            *)
(* TasksInv says that a task that is made and not finished is in one place,   *)
(* and what is known of it there: the call that will go on with it, a list,   *)
(* the pool, or the task that unwraps what it returned.  A step of an actor   *)
(* takes one call from its stack and puts a few in its place; TasksStep says  *)
(* which tasks those go on with, TasksAfter that the invariant then stays,    *)
(* and each action is shown to be such a step.  EventInv adds what the calls  *)
(* know of events, and rests on TasksInv.                                     *)
EXTENDS PplxTasks, SequenceTheorems, FiniteSetTheorems, TLAPS

-----------------------------------------------------------------------------
(* Where a task is.  A task that is made and not finished is in one place: a  *)
(* call that will go on with it, a list of continuations or of an event's     *)
(* tasks, or the pool.                                                        *)

Values(s) == {s[i] : i \in 1..Len(s)}
NoRepeats(s) == \A i, j \in 1..Len(s) : s[i] = s[j] => i = j

Known == DOMAIN program.info
BodyOf(t) == Info(t).body
Fresh(t) == state[t] \in {"Created", "PendingCancel"}
Underway(t) == state[t] \in {"Started", "PendingCancel"}
Alive(t) == Fresh(t) \/ Underway(t)

AnyCall ==
    [at : Points, of : Tasks \cup Events, exc : Exceptions \cup {"none"}, rest : Seq(Tasks)]
Single == {"register", "schedule", "start", "perform", "finalize", "cancel"}
Listing == {"continue", "deliver", "fail"}
OfEvents == {"set", "store", "keep", "cancelEvent"}
HandledBy(f) ==
    IF f.at \in Single THEN {f.of} ELSE IF f.at \in Listing THEN Values(f.rest) ELSE {}
Handlers(t) == {f \in AnyCall : t \in HandledBy(f)}
Runners(t) == {f \in AnyCall : f.at \in {"complete", "cancelled", "run"} /\ f.of = t}
Entrants(t) == {f \in AnyCall : f.at \in {"register", "schedule"} /\ f.of = t}
Finals(t) == {f \in AnyCall : f.at = "finalize" /\ f.of = t}

\* Some call, and one call at most, of all that are going on is in the set S.
Has(S) == \E a \in Actors : \E i \in 1..Len(stack[a]) : stack[a][i] \in S
Sole(S) ==
    \A a, b \in Actors : \A i \in 1..Len(stack[a]), j \in 1..Len(stack[b]) :
        stack[a][i] \in S /\ stack[b][j] \in S => a = b /\ i = j
TopIn(a, S) == stack[a] # <<>> /\ stack[a][1] \in S
SomeOf(fs, S) == \E i \in 1..Len(fs) : fs[i] \in S
OneOf(fs, S) == \E i \in 1..Len(fs) : fs[i] \in S /\ \A j \in 1..Len(fs) : fs[j] \in S => j = i

\* The calls fs take the place of the innermost call, if there is one.
Below(a) == IF stack[a] = <<>> THEN <<>> ELSE Tail(stack[a])
Turns(a, fs) == stack' = [stack EXCEPT ![a] = fs \o Below(a)]
StacksTyped == stack \in [Actors -> Seq(AnyCall)]

-----------------------------------------------------------------------------
(* Lists.                                                                     *)

LEMMA ListFacts ==
    ASSUME NEW S, NEW s \in Seq(S)
    PROVE  /\ Values(s) \subseteq S
           /\ s = <<>> <=> Values(s) = {}
           /\ NoRepeats(<<>>) /\ Values(<<>>) = {}
  BY EmptySeq, LenProperties, ElementOfSeq DEF Values, NoRepeats

LEMMA ListTail ==
    ASSUME NEW S, NEW s \in Seq(S), s # <<>>, NoRepeats(s)
    PROVE  /\ Head(s) \in S /\ Tail(s) \in Seq(S)
           /\ Values(s) = {Head(s)} \cup Values(Tail(s))
           /\ Head(s) \notin Values(Tail(s)) /\ NoRepeats(Tail(s))
<1>1. /\ Head(s) = s[1] /\ Tail(s) \in Seq(S) /\ Len(Tail(s)) = Len(s) - 1
      /\ \A i \in 1..Len(Tail(s)) : Tail(s)[i] = s[i + 1]
      /\ Len(s) \in Nat /\ Len(s) > 0
  BY HeadTailProperties, LenProperties, EmptySeq
<1>3. Values(s) = {Head(s)} \cup Values(Tail(s))
  <2>1. ASSUME NEW i \in 1..Len(s)
        PROVE  s[i] \in {Head(s)} \cup Values(Tail(s))
    <3>1. CASE i = 1
      BY <3>1, <1>1
    <3>2. CASE i # 1
      BY <1>1, <3>2 DEF Values
    <3> QED BY <3>1, <3>2
  <2>2. ASSUME NEW i \in 1..Len(Tail(s))
        PROVE  Tail(s)[i] \in Values(s)
    BY <1>1 DEF Values
  <2>3. s[1] \in Values(s)
    BY <1>1 DEF Values
  <2> QED BY <1>1, <2>1, <2>2, <2>3 DEF Values
<1> QED BY <1>1, <1>3, ElementOfSeq DEF Values, NoRepeats

LEMMA ListFront ==
    ASSUME NEW S, NEW s \in Seq(S), NEW t \in S, NoRepeats(s), t \notin Values(s)
    PROVE  /\ <<t>> \o s \in Seq(S) /\ <<t>> \o s # <<>>
           /\ Values(<<t>> \o s) = {t} \cup Values(s) /\ NoRepeats(<<t>> \o s)
<1> DEFINE q == <<t>> \o s
<1>1. /\ <<t>> \in Seq(S) /\ Len(<<t>>) = 1 /\ <<t>>[1] = t
      /\ q \in Seq(S) /\ Len(q) = 1 + Len(s) /\ Len(s) \in Nat
      /\ \A i \in 1..(1 + Len(s)) : q[i] = IF i <= 1 THEN t ELSE s[i - 1]
  BY ConcatProperties, LenProperties
<1> HIDE DEF q
<1>3. \A i \in 1..Len(s) : i + 1 \in 1..Len(q) /\ q[i + 1] = s[i]
  BY <1>1
<1>4. q[1] = t /\ 1 \in 1..Len(q)
  BY <1>1
<1>5. Values(q) = {t} \cup Values(s)
  <2>1. \A i \in 1..Len(q) : q[i] \in {t} \cup Values(s)
    BY <1>1, <1>4 DEF Values
  <2>4. {t} \cup Values(s) \subseteq Values(q)
    BY <1>3, <1>4 DEF Values
  <2> QED BY <2>1, <2>4 DEF Values
<1>6. NoRepeats(q)
  <2>1. SUFFICES ASSUME NEW i \in 1..Len(q), NEW j \in 1..Len(q), q[i] = q[j]
                 PROVE  i = j
    BY DEF NoRepeats
  <2>2. \A k \in 1..Len(s) : s[k] # t
    BY DEF Values
  <2> QED BY <1>1, <1>4, <2>1, <2>2 DEF NoRepeats
<1> QED BY <1>1, <1>5, <1>6, EmptySeq DEF q

LEMMA ListAppend ==
    ASSUME NEW S, NEW s \in Seq(S), NEW t \in S, NoRepeats(s), t \notin Values(s)
    PROVE  /\ Append(s, t) \in Seq(S)
           /\ Values(Append(s, t)) = {t} \cup Values(s) /\ NoRepeats(Append(s, t))
<1> DEFINE q == Append(s, t)
<1>1. /\ q \in Seq(S) /\ Len(q) = Len(s) + 1 /\ Len(s) \in Nat
      /\ \A i \in 1..Len(s) : q[i] = s[i]
      /\ q[Len(s) + 1] = t
  BY AppendProperties, LenProperties
<1> HIDE DEF q
<1> QED BY <1>1 DEF q, Values, NoRepeats

-----------------------------------------------------------------------------
(* Calls.                                                                     *)

LEMMA Turned ==
    ASSUME StacksTyped, NEW a \in Actors, NEW fs \in Seq(AnyCall), Turns(a, fs)
    PROVE  /\ StacksTyped'
           /\ \A b \in Actors \ {a} : stack'[b] = stack[b]
           /\ Len(fs) \in Nat
           /\ \A i \in 1..Len(fs) : i \in 1..Len(stack'[a]) /\ stack'[a][i] = fs[i]
           /\ \A i \in 1..Len(stack'[a]) :
                i \in 1..Len(fs) \/ (/\ i - Len(fs) + 1 \in 2..Len(stack[a])
                                     /\ stack'[a][i] = stack[a][i - Len(fs) + 1])
           /\ \A i \in 2..Len(stack[a]) :
                /\ i - 1 + Len(fs) \in 1..Len(stack'[a])
                /\ stack'[a][i - 1 + Len(fs)] = stack[a][i]
<1>2. /\ Below(a) \in Seq(AnyCall)
      /\ Len(Below(a)) = IF stack[a] = <<>> THEN 0 ELSE Len(stack[a]) - 1
      /\ \A i \in 1..Len(Below(a)) : Below(a)[i] = stack[a][i + 1]
  <2>1. CASE stack[a] = <<>>
    BY <2>1, EmptySeq DEF Below
  <2>2. CASE stack[a] # <<>>
    BY <2>2, HeadTailProperties DEF Below, StacksTyped
  <2> QED BY <2>1, <2>2
<1>3. Len(stack[a]) \in Nat /\ Len(fs) \in Nat /\ (stack[a] = <<>> <=> Len(stack[a]) = 0)
  BY LenProperties, EmptySeq DEF StacksTyped
<1>4. /\ fs \o Below(a) \in Seq(AnyCall)
      /\ Len(fs \o Below(a)) = Len(fs) + Len(Below(a))
      /\ \A i \in 1..(Len(fs) + Len(Below(a))) :
            (fs \o Below(a))[i] = IF i <= Len(fs) THEN fs[i] ELSE Below(a)[i - Len(fs)]
  BY <1>2, ConcatProperties
<1>5. stack'[a] = fs \o Below(a) /\ \A b \in Actors \ {a} : stack'[b] = stack[b]
  BY DEF Turns, StacksTyped
<1>6. StacksTyped'
  BY <1>4 DEF StacksTyped, Actors, Turns
<1>8. ASSUME NEW i \in 1..Len(stack'[a]), i \notin 1..Len(fs)
      PROVE  /\ i - Len(fs) + 1 \in 2..Len(stack[a])
             /\ stack'[a][i] = stack[a][i - Len(fs) + 1]
  BY <1>2, <1>3, <1>4, <1>5, <1>8
<1>9. ASSUME NEW i \in 2..Len(stack[a])
      PROVE  /\ i - 1 + Len(fs) \in 1..Len(stack'[a])
             /\ stack'[a][i - 1 + Len(fs)] = stack[a][i]
  <2>1. /\ i - 1 \in 1..Len(Below(a)) /\ i - 1 + Len(fs) \in 1..(Len(fs) + Len(Below(a)))
        /\ ~(i - 1 + Len(fs) <= Len(fs)) /\ i - 1 + Len(fs) - Len(fs) = i - 1 /\ (i - 1) + 1 = i
    BY <1>2, <1>3
  <2> QED BY <1>2, <1>4, <1>5, <2>1
<1> QED BY <1>2, <1>3, <1>4, <1>5, <1>6, <1>8, <1>9

\* What the calls of an actor are in the set S after it turned to fs.
LEMMA TurnedHas ==
    ASSUME StacksTyped, NEW a \in Actors, NEW fs \in Seq(AnyCall), Turns(a, fs), NEW S
    PROVE  /\ Has(S)' => SomeOf(fs, S) \/ Has(S)
           /\ SomeOf(fs, S) => Has(S)'
           /\ Has(S) => Has(S)' \/ TopIn(a, S)
           /\ Sole(S) /\ TopIn(a, S) /\ ~SomeOf(fs, S) => ~Has(S)'
<1>1. /\ \A b \in Actors \ {a} : stack'[b] = stack[b]
      /\ \A i \in 1..Len(fs) : i \in 1..Len(stack'[a]) /\ stack'[a][i] = fs[i]
      /\ \A i \in 1..Len(stack'[a]) :
            i \in 1..Len(fs) \/ (/\ i - Len(fs) + 1 \in 2..Len(stack[a])
                                 /\ stack'[a][i] = stack[a][i - Len(fs) + 1])
      /\ \A i \in 2..Len(stack[a]) :
            /\ i - 1 + Len(fs) \in 1..Len(stack'[a])
            /\ stack'[a][i - 1 + Len(fs)] = stack[a][i]
  BY Turned
<1>2. Len(stack[a]) \in Nat /\ (stack[a] = <<>> <=> Len(stack[a]) = 0)
  BY LenProperties, EmptySeq DEF StacksTyped
<1>3. \A i \in 2..Len(stack[a]) : i \in 1..Len(stack[a]) /\ i # 1
  BY <1>2
<1>4. ASSUME NEW b \in Actors, NEW i \in 1..Len(stack'[b]), stack'[b][i] \in S, ~SomeOf(fs, S)
      PROVE  \E j \in 1..Len(stack[b]) : stack[b][j] \in S /\ (b = a => j # 1)
  <2>1. CASE b = a
    BY <2>1, <1>1, <1>3, <1>4 DEF SomeOf
  <2>2. CASE b # a
    BY <2>2, <1>1, <1>4
  <2> QED BY <2>1, <2>2
<1>5. ASSUME Has(S)', ~SomeOf(fs, S)
      PROVE  Has(S)
  BY <1>4, <1>5 DEF Has
<1>6. ASSUME SomeOf(fs, S)
      PROVE  Has(S)'
  BY <1>1, <1>6 DEF Has, SomeOf
<1>7. ASSUME Has(S), ~TopIn(a, S)
      PROVE  Has(S)'
  <2>1. PICK b \in Actors : \E i \in 1..Len(stack[b]) : stack[b][i] \in S
    BY <1>7 DEF Has
  <2>2. PICK i \in 1..Len(stack[b]) : stack[b][i] \in S
    BY <2>1
  <2>3. CASE b = a
    <3>1. i \in 2..Len(stack[a])
      BY <1>2, <1>7, <2>2, <2>3 DEF TopIn
    <3> QED BY <3>1, <1>1, <2>2, <2>3 DEF Has
  <2>4. CASE b # a
    BY <2>2, <2>4, <1>1 DEF Has
  <2> QED BY <2>3, <2>4
<1>8. ASSUME Sole(S), TopIn(a, S), ~SomeOf(fs, S), Has(S)'
      PROVE  FALSE
  <2>1. PICK b \in Actors : \E i \in 1..Len(stack'[b]) : stack'[b][i] \in S
    BY <1>8 DEF Has
  <2>2. PICK j \in 1..Len(stack[b]) : stack[b][j] \in S /\ (b = a => j # 1)
    BY <1>4, <1>8, <2>1
  <2> QED BY <1>2, <1>8, <2>2 DEF Sole, TopIn
<1> QED BY <1>5, <1>6, <1>7, <1>8

LEMMA TurnedSole ==
    ASSUME StacksTyped, NEW a \in Actors, NEW fs \in Seq(AnyCall), Turns(a, fs), NEW S, Sole(S),
           SomeOf(fs, S) => OneOf(fs, S) /\ (TopIn(a, S) \/ ~Has(S))
    PROVE  Sole(S)'
<1>1. /\ \A b \in Actors \ {a} : stack'[b] = stack[b]
      /\ Len(fs) \in Nat
      /\ \A i \in 1..Len(stack'[a]) :
            i \in 1..Len(fs) \/ (/\ i - Len(fs) + 1 \in 2..Len(stack[a])
                                 /\ stack'[a][i] = stack[a][i - Len(fs) + 1])
      /\ \A i \in 1..Len(fs) : i \in 1..Len(stack'[a]) /\ stack'[a][i] = fs[i]
  BY Turned
<1>3. \A i \in 2..Len(stack[a]) : i \in 1..Len(stack[a]) /\ i # 1
  BY LenProperties, EmptySeq DEF StacksTyped
\* Where a call in S was, or that it is one of fs.
<1>4. ASSUME NEW b \in Actors, NEW i \in 1..Len(stack'[b]), stack'[b][i] \in S
      PROVE  \/ b = a /\ i \in 1..Len(fs) /\ fs[i] \in S
             \/ b = a /\ i - Len(fs) + 1 \in 2..Len(stack[a]) /\ stack[a][i - Len(fs) + 1] \in S
             \/ b # a /\ i \in 1..Len(stack[b]) /\ stack[b][i] \in S
  <2>1. CASE b = a
    BY <2>1, <1>1, <1>4
  <2>2. CASE b # a
    BY <2>2, <1>1, <1>4
  <2> QED BY <2>1, <2>2
<1>5. ASSUME SomeOf(fs, S), NEW b \in Actors, NEW i \in 1..Len(stack[b]), stack[b][i] \in S, b = a => i # 1
      PROVE  FALSE
  BY <1>5, LenProperties, EmptySeq DEF Sole, TopIn, StacksTyped, Has
<1> SUFFICES ASSUME NEW b \in Actors, NEW c \in Actors,
                    NEW i \in 1..Len(stack'[b]), NEW j \in 1..Len(stack'[c]),
                    stack'[b][i] \in S, stack'[c][j] \in S
             PROVE  b = c /\ i = j
  BY DEF Sole
<1>6. CASE SomeOf(fs, S)
  <2>3. PICK k \in 1..Len(fs) : \A l \in 1..Len(fs) : fs[l] \in S => l = k
    BY <1>6 DEF OneOf
  <2> QED BY <1>3, <1>4, <1>5, <1>6, <2>3
<1>7. CASE ~SomeOf(fs, S)
  <2> DEFINE I == IF b = a THEN i - Len(fs) + 1 ELSE i
             J == IF c = a THEN j - Len(fs) + 1 ELSE j
  <2>1. I \in 1..Len(stack[b]) /\ stack[b][I] \in S
    BY <1>3, <1>4, <1>7 DEF SomeOf
  <2>2. J \in 1..Len(stack[c]) /\ stack[c][J] \in S
    BY <1>3, <1>4, <1>7 DEF SomeOf
  <2> HIDE DEF I, J
  <2> QED BY <1>1, <2>1, <2>2 DEF I, J, Sole
<1> QED BY <1>6, <1>7

-----------------------------------------------------------------------------
(* The invariant of the tasks.                                                *)

FieldsTyped ==
    /\ hasValue \subseteq Events /\ isCanceled \subseteq Events
    /\ stored \in [Events -> Exceptions \cup {"none"}]
    /\ unused \subseteq {s \in Setters : program.target[s] \in Events}
TasksTyped ==
    /\ program \in Programs /\ todo \in Seq(Tasks)
    /\ state \in [Tasks -> States] /\ exc \in [Tasks -> Exceptions \cup {"none"}]
    /\ conts \in [Tasks -> Seq(Tasks)] /\ waiting \in [Events -> Seq(Tasks)]
    /\ armed \subseteq Tasks /\ cancelled \in BOOLEAN
    /\ pool \subseteq AnyCall /\ StacksTyped /\ FieldsTyped

\* The antecedent of t is finished such that t may run; the task that t returns
\* is not unwrapped yet; nothing that was built after t exists.
MayRun(t) ==
    Info(t).from = "then" =>
        Done(Antecedent(t)) /\ (Based(t) \/ state[Antecedent(t)] = "Completed")
Unbegun(t) == BodyOf(t) = "task" => state[Info(t).other] = "none"
Newest(t) == \A u \in Tasks : Before(program, t, u) => state[u] = "none"

\* What is known of a task at the points of a call.
Registers(t) == t \in Known /\ Info(t).from = "event" /\ Fresh(t) /\ Newest(t)
Schedules(t) == t \in Known /\ Info(t).from = "then" /\ Fresh(t) /\ Unbegun(t) /\ Newest(t)
Startable(t) == t \in Known /\ Info(t).from # "event" /\ Fresh(t) /\ Unbegun(t) /\ MayRun(t)
Performs(t) == t \in Known /\ Info(t).from # "event" /\ Underway(t) /\ Unbegun(t) /\ MayRun(t)
Finishes(t) ==
    t \in Known /\ MayRun(t) /\ (IF Info(t).from = "event" THEN Fresh(t) ELSE Underway(t))
Fails(t, x) ==
    /\ t \in Known /\ Alive(t) /\ BodyOf(t) \notin {"unwrap", "all", "any"}
    /\ Info(t).from = "then" =>
        /\ Done(Antecedent(t))
        /\ ~Based(t) /\ state[Antecedent(t)] = "Canceled" => x = exc[Antecedent(t)]
Follows(t, x) ==
    t \in Known /\ Info(t).from = "then" /\ Antecedent(t) = x /\ Fresh(t) /\ Unbegun(t)
WaitsFor(t, e) == t \in Known /\ Info(t).from = "event" /\ Info(t).of = e /\ Fresh(t)

Sound(b, f) ==
    /\ NoRepeats(f.rest)
    /\ f.at = "register" => b = "builder" /\ Registers(f.of)
    /\ f.at = "schedule" => (b = "builder" \/ BodyOf(f.of) = "unwrap") /\ Schedules(f.of)
    /\ f.at = "start" => Startable(f.of)
    /\ f.at = "perform" => Performs(f.of)
    /\ f.at = "finalize" => Finishes(f.of)
    /\ f.at = "cancel" => Fails(f.of, f.exc)
    /\ f.at = "complete" => f.of \in Known /\ state[f.of] = "Completed"
    /\ f.at \in {"cancelled", "run"} => f.of \in Known /\ state[f.of] = "Canceled"
    /\ f.at = "continue" => f.of \in Known /\ Done(f.of) /\ \A t \in Values(f.rest) : Follows(t, f.of)
    /\ f.at \in {"deliver", "fail"} => \A t \in Values(f.rest) : WaitsFor(t, f.of)
    /\ f.at \in OfEvents \cup {"deliver", "fail"} => f.of \in Events

CallsSound == \A b \in Actors : \A i \in 1..Len(stack[b]) : Sound(b, stack[b][i])
HandledOnce == \A t \in Tasks : Sole(Handlers(t))
ContsSound(x) ==
    /\ NoRepeats(conts[x])
    /\ \A t \in Values(conts[x]) : Follows(t, x) /\ ~Has(Handlers(t))
    /\ conts[x] # <<>> /\ Done(x) => Has(Runners(x)) \/ Call("run", x) \in pool
WaitingSound(e) ==
    /\ NoRepeats(waiting[e])
    /\ \A t \in Values(waiting[e]) : WaitsFor(t, e) /\ ~Has(Handlers(t))
PoolSound(c) ==
    /\ c = Call(c.at, c.of) /\ c.of \in Known /\ c.at \in {"start", "run"}
    /\ c.at = "run" => state[c.of] = "Canceled"
    /\ c.at = "start" =>
        /\ Startable(c.of) /\ ~Has(Handlers(c.of))
        /\ Info(c.of).from = "then" => ~Info(c.of).inline /\ c.of \notin Values(conts[Antecedent(c.of)])
PlacesSound ==
    /\ CallsSound /\ HandledOnce
    /\ \A x \in Tasks : ContsSound(x)
    /\ \A e \in Events : WaitingSound(e)
    /\ \A c \in pool : PoolSound(c)

Queued(t) ==
    \/ Info(t).from = "then" /\ t \in Values(conts[Antecedent(t)])
    \/ Info(t).from = "event" /\ t \in Values(waiting[Info(t).of])
    \/ Call("start", t) \in pool
Located(t) == Has(Handlers(t)) \/ Queued(t)
\* The task that returned a task waits for u, which unwraps that one.
Unwraps(u, t) == BodyOf(u) = "unwrap" /\ Info(u).other = t
Linked(u) == Alive(u) /\ ~Has(Finals(u))
LinksSound ==
    /\ \A u, t \in Known : Unwraps(u, t) /\ Linked(u) => Underway(t) /\ MayRun(t) /\ ~Located(t)
    /\ \A t \in Known : Alive(t) => Located(t) \/ \E u \in Known : Unwraps(u, t) /\ Linked(u)

StateSound(t) ==
    /\ state[t] # "none" => t \in Known
    /\ state[t] = "PendingCancel" => Info(t).token
    /\ exc[t] # "none" => state[t] = "Canceled"
    /\ t \in armed => state[t] # "none" /\ Info(t).token
    /\ t \in Known /\ BodyOf(t) \in {"unwrap", "all", "any"} => state[t] # "Canceled"
    /\ t \in Known /\ BodyOf(t) = "unwrap" /\ state[t] # "none" => state[Info(t).other] # "none"
    /\ t \in Known /\ Info(t).from = "event" => state[t] # "Started"
DoneSound(t) ==
    /\ t \in done => Done(t)
    /\ Done(t) => t \in done \/ Has(Runners(t))
PropagatedTo(t) ==
    state[t] # "none" /\ Info(t).from = "then" =>
        /\ state[t] \in {"Started"} \cup Outcome => Done(Antecedent(t))
        /\ ~Based(t) /\ state[Antecedent(t)] = "Canceled" /\ Done(t) =>
            state[t] = "Canceled" /\ exc[t] = exc[Antecedent(t)]
        /\ ~Based(t) /\ state[t] \in {"Started", "Completed"} => state[Antecedent(t)] = "Completed"
BuiltTo(k) ==
    /\ todo = SubSeq(program.build, k + 1, Len(program.build))
    /\ \A i \in 1..Len(program.build) : state[program.build[i]] = "none" <=> i > k
StatesSound ==
    /\ \E k \in 0..Len(program.build) : BuiltTo(k)
    /\ done \subseteq Tasks
    /\ \A t \in Tasks : StateSound(t) /\ DoneSound(t) /\ PropagatedTo(t)

TasksInv == TasksTyped /\ StatesSound /\ PlacesSound /\ LinksSound

-----------------------------------------------------------------------------
(* Programs.                                                                  *)

LEMMA ProgramFacts ==
    ASSUME program \in Programs
    PROVE  /\ program.build \in Seq(Tasks) /\ Known \subseteq Tasks
           /\ DOMAIN program.build = 1..Len(program.build) /\ Len(program.build) \in Nat
           /\ \A i, j \in 1..Len(program.build) : program.build[i] = program.build[j] => i = j
           /\ \A i \in 1..Len(program.build) : program.build[i] \in Known
           /\ \A t \in Known :
                /\ Info(t) \in TaskInfo
                /\ Info(t).from = "event" <=> BodyOf(t) = "none"
                /\ Info(t).from = "event" => Info(t).of \in Events
                /\ BodyOf(t) # "unwrap" <=> \E i \in 1..Len(program.build) : program.build[i] = t
                /\ Info(t).from = "then" /\ BodyOf(t) # "unwrap" => Before(program, Info(t).of, t)
                /\ BodyOf(t) = "task" =>
                    /\ Info(t).other \in Known /\ Before(program, Info(Info(t).other).of, t)
                    /\ BodyOf(Info(t).other) = "unwrap" /\ Info(Info(t).other).other = t
                /\ BodyOf(t) = "unwrap" =>
                    /\ Info(t).other \in Known
                    /\ BodyOf(Info(t).other) = "task" /\ Info(Info(t).other).other = t
                /\ BodyOf(t) \in {"unwrap", "all", "any"} =>
                    Info(t).from = "then" /\ Based(t) /\ ~Info(t).token
           /\ program.parts \in Nat /\ program.joint \in Events
           /\ program.target \in [Setters -> Events \cup {"none"}]
  BY PplxAssumption, LenProperties DEF IsOrdered, Known, Info, BodyOf, Based, HasParts, IsProgram

\* The antecedent of a task is built, and before it if it is built itself.
LEMMA AntecedentBuilt ==
    ASSUME program \in Programs, NEW t \in Known, Info(t).from = "then"
    PROVE  /\ Antecedent(t) \in Known
           /\ \E i \in 1..Len(program.build) : program.build[i] = Antecedent(t)
           /\ BodyOf(t) # "unwrap" => Before(program, Antecedent(t), t)
           /\ BodyOf(t) = "unwrap" => Before(program, Antecedent(t), Info(t).other)
  BY ProgramFacts DEF Before, Antecedent

-----------------------------------------------------------------------------
(* What stays true of a call that nobody goes on with.                        *)

LEMMA HandledIsAlive ==
    ASSUME NEW b, NEW f \in AnyCall, Sound(b, f), NEW t \in HandledBy(f)
    PROVE  t \in Known /\ Alive(t)
<1>1. CASE f.at \in Single
  BY <1>1 DEF HandledBy, Single, Sound, Registers, Schedules, Startable, Performs, Finishes,
     Fails, Alive
<1>2. CASE f.at \in Listing
  BY <1>2 DEF HandledBy, Single, Listing, Sound, Follows, WaitsFor, Alive
<1> QED BY <1>1, <1>2 DEF HandledBy

\* What is finished stays as it is.
FinishedStay == \A x \in Tasks : Done(x) => state'[x] = state[x] /\ exc'[x] = exc[x]
Keeps(t) ==
    /\ Fresh(t) => Fresh(t)'
    /\ Underway(t) => Underway(t)'
    /\ Unbegun(t) => Unbegun(t)'

LEMMA MayStillRun ==
    ASSUME program \in Programs, UNCHANGED program, FinishedStay, NEW t \in Known
    PROVE  /\ MayRun(t) => MayRun(t)'
           /\ \A x : Fails(t, x) /\ Keeps(t) => Fails(t, x)'
<1>1. CASE Info(t).from = "then"
  <2>2. Done(Antecedent(t)) => /\ Done(Antecedent(t))'
                               /\ state'[Antecedent(t)] = state[Antecedent(t)]
                               /\ exc'[Antecedent(t)] = exc[Antecedent(t)]
    BY <1>1, AntecedentBuilt, ProgramFacts DEF FinishedStay, Done, Antecedent, Info
  <2> QED BY <2>2 DEF Fails, Keeps, Alive, Info, Antecedent, Based, BodyOf, Known, MayRun
<1>2. CASE Info(t).from # "then"
  BY <1>2 DEF MayRun, Fails, Keeps, Alive, Info, BodyOf, Known
<1> QED BY <1>1, <1>2

LEMMA SoundStays ==
    ASSUME program \in Programs, UNCHANGED program, FinishedStay,
           NEW b, NEW f \in AnyCall, Sound(b, f),
           \A t \in HandledBy(f) : Keeps(t),
           f.at \in {"register", "schedule"} => (Newest(f.of) => Newest(f.of)')
    PROVE  Sound(b, f)'
<1>1. Known' = Known /\ \A t : Info(t)' = Info(t) /\ Based(t)' = Based(t)
                               /\ Antecedent(t)' = Antecedent(t) /\ BodyOf(t)' = BodyOf(t)
  BY DEF Known, Info, Based, Antecedent, BodyOf
<1>3. ASSUME f.at \in Single
      PROVE  /\ f.at = "register" => (b = "builder" /\ Registers(f.of))'
             /\ f.at = "schedule" => ((b = "builder" \/ BodyOf(f.of) = "unwrap") /\ Schedules(f.of))'
             /\ f.at = "start" => Startable(f.of)'
             /\ f.at = "perform" => Performs(f.of)'
             /\ f.at = "finalize" => Finishes(f.of)'
             /\ f.at = "cancel" => Fails(f.of, f.exc)'
  <2>1. f.of \in Known /\ Keeps(f.of)
    BY <1>3, HandledIsAlive DEF HandledBy
  <2> QED
    BY <1>1, <2>1, MayStillRun DEF Sound, Schedules, Keeps, Registers, Finishes, Performs,
       Startable
<1>4. ASSUME f.at \in {"complete", "cancelled", "run", "continue"}
      PROVE  /\ f.at = "complete" => f.of \in Known' /\ state'[f.of] = "Completed"
             /\ f.at \in {"cancelled", "run"} => f.of \in Known' /\ state'[f.of] = "Canceled"
             /\ f.at = "continue" => f.of \in Known' /\ Done(f.of)'
  BY <1>1, <1>4, ProgramFacts DEF Sound, Done, FinishedStay, Outcome
<1>5. ASSUME f.at \in Listing
      PROVE  /\ f.at = "continue" => \A t \in Values(f.rest) : Follows(t, f.of)'
             /\ f.at \in {"deliver", "fail"} => \A t \in Values(f.rest) : WaitsFor(t, f.of)'
  BY <1>1, <1>5 DEF Sound, Follows, WaitsFor, Keeps, HandledBy, Single, Listing
<1>8. f.at = "start" => Startable(f.of)'
  BY <1>3 DEF Single
<1>9. f.at = "perform" => Performs(f.of)'
  BY <1>3 DEF Single
<1>10. f.at = "finalize" => Finishes(f.of)'
  BY <1>3 DEF Single
<1>11. f.at = "cancel" => Fails(f.of, f.exc)'
  BY <1>3 DEF Single
<1> QED BY <1>3, <1>4, <1>5, <1>8, <1>9, <1>10, <1>11 DEF Sound, Single, Listing

-----------------------------------------------------------------------------
(* A step of an actor a: the calls fs take the place of its innermost call.   *)
(* The tasks that they go on with, or that the step puts in a list or on the  *)
(* pool, are those of the innermost call and the set M, of tasks taken from a *)
(* list or from the pool, or just created.                                    *)

AtTop(a, t) == TopIn(a, Handlers(t))
Moved(a, M, t) == AtTop(a, t) \/ t \in M
Handles(fs, t) == SomeOf(fs, Handlers(t))
Apart(fs) == \A i, j \in 1..Len(fs) : HandledBy(fs[i]) \cap HandledBy(fs[j]) # {} => i = j
Arrives(a, fs, M, t) == Moved(a, M, t) /\ ~Handles(fs, t)

\* What happens to the tasks themselves.
TasksChange(a, M) ==
    /\ UNCHANGED program /\ FinishedStay /\ M \subseteq Tasks
    /\ \A t \in Known : Moved(a, M, t) \/ Keeps(t)
    /\ \A t \in Tasks : state[t] # "none" => state'[t] # "none"
    /\ \A t \in Tasks : Has(Entrants(t)) /\ Newest(t) => Newest(t)'
    /\ \A t \in M : ~Has(Handlers(t))
\* To the calls.
CallsChange(a, fs, M) ==
    /\ fs \in Seq(AnyCall) /\ Turns(a, fs) /\ Apart(fs)
    /\ \A g \in Values(fs) : Sound(a, g)'
    /\ \A t \in Tasks : Handles(fs, t) => Moved(a, M, t)
\* To the lists and the pool.
ListsChange(a, fs, M) ==
    /\ \A x \in Tasks : NoRepeats(conts'[x]) /\ \A t \in Values(conts'[x]) :
        (t \in Values(conts[x]) \ M) \/ (Arrives(a, fs, M, t) /\ Follows(t, x)')
    /\ \A e \in Events : NoRepeats(waiting'[e]) /\ \A t \in Values(waiting'[e]) :
        (t \in Values(waiting[e]) \ M) \/ (Arrives(a, fs, M, t) /\ WaitsFor(t, e)')
    /\ \A c \in pool' :
        \/ c \in pool /\ (c.at = "start" => c.of \notin M)
        \/ /\ c = Call(c.at, c.of) /\ c.of \in Known /\ c.at \in {"start", "run"}
           /\ c.at = "run" => state'[c.of] = "Canceled"
           /\ c.at = "start" =>
                /\ Startable(c.of)' /\ Arrives(a, fs, M, c.of)
                /\ Info(c.of).from = "then" =>
                    ~Info(c.of).inline /\ c.of \notin Values(conts'[Antecedent(c.of)])
\* To what a finished task has still to do.
RunnersChange(a, fs) ==
    /\ \A x \in Tasks : Done(x)' /\ conts'[x] # <<>> =>
        \/ SomeOf(fs, Runners(x)) \/ Call("run", x) \in pool'
        \/ Done(x) /\ conts[x] # <<>> /\ ~TopIn(a, Runners(x)) /\ Call("run", x) \notin pool
    /\ \A t \in Tasks : Done(t)' =>
        t \in done' \/ SomeOf(fs, Runners(t)) \/ (Done(t) /\ t \notin done /\ ~TopIn(a, Runners(t)))
    /\ \A t \in done' : Done(t)'
\* To where tasks are.
PlacesChange(a, fs, M) ==
    /\ \A t \in Tasks : TopIn(a, Finals(t)) => ~Alive(t)'
    /\ \A t \in Known : Alive(t)' /\ (Moved(a, M, t) \/ ~Alive(t)) =>
        Handles(fs, t) \/ Queued(t)' \/ \E u \in Known : Unwraps(u, t) /\ Linked(u)'
    /\ \A t \in Known \ M : Queued(t) => Queued(t)'
    /\ \A t \in M : Queued(t) \/ ~Alive(t) \/ \E u \in Known : Unwraps(u, t) /\ ~Linked(u)'
    /\ \A u \in Known : BodyOf(u) = "unwrap" =>
        /\ Alive(u) /\ ~Alive(u)' => TopIn(a, Finals(u))
        /\ SomeOf(fs, Finals(u)) => TopIn(a, Finals(u)) \/ Info(u).other \in M
    /\ \A u, t \in Known : Unwraps(u, t) /\ Linked(u)' /\ ~Alive(u) =>
        Underway(t)' /\ MayRun(t)' /\ Arrives(a, fs, M, t) /\ ~Queued(t)'
\* And to their states.
StatesChange ==
    /\ \E k \in 0..Len(program.build) : BuiltTo(k)'
    /\ done' \subseteq Tasks
    /\ \A t \in Tasks :
        \/ state'[t] = state[t] /\ exc'[t] = exc[t] /\ (t \in armed' => t \in armed)
        \/ StateSound(t)' /\ PropagatedTo(t)'
TasksStep(a, fs, M) ==
    /\ TasksChange(a, M) /\ CallsChange(a, fs, M) /\ ListsChange(a, fs, M)
    /\ RunnersChange(a, fs) /\ PlacesChange(a, fs, M) /\ StatesChange

\* Where a task is handled after the step.
LEMMA HandledAfter ==
    ASSUME StacksTyped, HandledOnce, NEW a \in Actors, NEW fs, NEW M, NEW t \in Tasks,
           TasksChange(a, M), CallsChange(a, fs, M)
    PROVE  /\ Sole(Handlers(t))'
           /\ ~Has(Handlers(t)) /\ ~Moved(a, M, t) => ~Has(Handlers(t))'
           /\ Arrives(a, fs, M, t) => ~Has(Handlers(t))'
           /\ Has(Handlers(t)) /\ ~AtTop(a, t) => Has(Handlers(t))'
           /\ Handles(fs, t) => Has(Handlers(t))'
           /\ AtTop(a, t) => Has(Handlers(t))
<1>2. t \in M => ~Has(Handlers(t))
  BY DEF TasksChange
<1>3. Sole(Handlers(t))
  BY DEF HandledOnce
<1>4. AtTop(a, t) => Has(Handlers(t))
  BY EmptySeq, LenProperties DEF AtTop, TopIn, Has, StacksTyped
<1> QED
  BY <1>2, <1>3, <1>4, TurnedSole, TurnedHas DEF Handles, Moved, AtTop, Arrives, CallsChange,
     SomeOf, OneOf, Apart, Handlers

LEMMA CallsAfter ==
    ASSUME TasksTyped, CallsSound, HandledOnce, NEW a \in Actors, NEW fs, NEW M,
           TasksChange(a, M), CallsChange(a, fs, M)
    PROVE  CallsSound'
<1> SUFFICES ASSUME NEW b \in Actors, NEW i \in 1..Len(stack'[b]), NEW g, g = stack'[b][i]
             PROVE  Sound(b, g)'
  BY DEF CallsSound
<1>1. /\ fs \in Seq(AnyCall) /\ Turns(a, fs) /\ StacksTyped
      /\ program \in Programs /\ UNCHANGED program /\ FinishedStay
  BY DEF CallsChange, TasksTyped, TasksChange
<1>2. /\ \A c \in Actors \ {a} : stack'[c] = stack[c]
      /\ \A j \in 1..Len(fs) : j \in 1..Len(stack'[a]) /\ stack'[a][j] = fs[j]
      /\ \A j \in 1..Len(stack'[a]) :
            j \in 1..Len(fs) \/ (/\ j - Len(fs) + 1 \in 2..Len(stack[a])
                                 /\ stack'[a][j] = stack[a][j - Len(fs) + 1])
  BY <1>1, Turned
<1>3. \A c \in Actors : stack[c] \in Seq(AnyCall) /\ Len(stack[c]) \in Nat
  BY <1>1, LenProperties DEF StacksTyped
<1>4. ASSUME NEW j \in 1..Len(stack[b]), b = a => j # 1, stack'[b][i] = stack[b][j]
      PROVE  Sound(b, g)'
  <2> PICK f \in AnyCall : f = stack[b][j]
    BY <1>3, ElementOfSeq
  <2>1. Sound(b, f)
    BY DEF CallsSound
  <2>2. ASSUME NEW t \in HandledBy(f)
        PROVE  Keeps(t)
    BY <1>1, <1>3, <1>4, <2>1, HandledIsAlive, ProgramFacts, EmptySeq DEF TasksChange, Moved,
       HandledOnce, Sole, AtTop, TopIn, Has, Handlers
  <2> QED
    BY <1>1, <1>4, <2>1, <2>2, HandledIsAlive, ProgramFacts, SoundStays DEF TasksChange, Has,
       Entrants, HandledBy, Single
<1>5. CASE b # a
  BY <1>2, <1>4, <1>5
<1>6. CASE b = a /\ i \notin 1..Len(fs)
  BY <1>2, <1>3, <1>4, <1>6
<1>7. CASE b = a /\ i \in 1..Len(fs)
  <2> PICK f \in AnyCall : f = fs[i]
    BY <1>1, <1>7, ElementOfSeq
  <2> QED BY <1>2, <1>7 DEF CallsChange, Values
<1> QED BY <1>5, <1>6, <1>7

\* A task that is handled nowhere and not moved keeps what is known of it.
LEMMA RestStays ==
    ASSUME TasksTyped, NEW a \in Actors, NEW M, TasksChange(a, M), HandledOnce,
           NEW t \in Known, ~Moved(a, M, t)
    PROVE  /\ \A x : Follows(t, x) => Follows(t, x)'
           /\ \A e : WaitsFor(t, e) => WaitsFor(t, e)'
           /\ Startable(t) => Startable(t)'
  BY MayStillRun DEF WaitsFor, Keeps, Known, Info, Follows, Antecedent, Startable, TasksTyped,
     TasksChange

LEMMA ListsAfter ==
    ASSUME TasksTyped, PlacesSound, NEW a \in Actors, NEW fs, NEW M,
           TasksChange(a, M), CallsChange(a, fs, M), ListsChange(a, fs, M), RunnersChange(a, fs)
    PROVE  /\ \A x \in Tasks : ContsSound(x)'
           /\ \A e \in Events : WaitingSound(e)'
           /\ \A c \in pool' : PoolSound(c)'
<1>1. HandledOnce /\ StacksTyped /\ program \in Programs /\ Known \subseteq Tasks
  BY ProgramFacts DEF PlacesSound, TasksTyped
<1>2. ASSUME NEW t \in Tasks
      PROVE  /\ ~Has(Handlers(t)) /\ ~Moved(a, M, t) => ~Has(Handlers(t))'
             /\ Arrives(a, fs, M, t) => ~Has(Handlers(t))'
             /\ ~Has(Handlers(t)) /\ t \notin M => ~Moved(a, M, t)
  BY <1>1, HandledAfter DEF Moved
<1>4. Known' = Known /\ \A t : Info(t)' = Info(t) /\ Antecedent(t)' = Antecedent(t)
  BY DEF Known, Info, Antecedent, CallsChange, TasksChange
<1>5. ASSUME NEW x \in Tasks
      PROVE  ContsSound(x)'
  <2>2. ASSUME NEW t \in Values(conts'[x])
        PROVE  Follows(t, x)' /\ ~Has(Handlers(t))'
    <3>1. CASE t \in Values(conts[x]) \ M
      BY <1>1, <1>2, <3>1, RestStays DEF PlacesSound, ContsSound, Follows
    <3>2. CASE Arrives(a, fs, M, t) /\ Follows(t, x)'
      BY <1>1, <1>2, <1>4, <3>2 DEF Follows
    <3> QED BY <3>1, <3>2 DEF ListsChange
  <2> QED
    BY <1>1, <2>2, TurnedHas DEF ContsSound, ListsChange, RunnersChange, PlacesSound, CallsChange,
       TasksChange
<1>6. ASSUME NEW e \in Events
      PROVE  WaitingSound(e)'
  <2>2. ASSUME NEW t \in Values(waiting'[e])
        PROVE  WaitsFor(t, e)' /\ ~Has(Handlers(t))'
    <3>1. CASE t \in Values(waiting[e]) \ M
      BY <1>1, <1>2, <3>1, RestStays DEF PlacesSound, WaitingSound, WaitsFor
    <3>2. CASE Arrives(a, fs, M, t) /\ WaitsFor(t, e)'
      BY <1>1, <1>2, <1>4, <3>2 DEF WaitsFor
    <3> QED BY <3>1, <3>2 DEF ListsChange
  <2> QED BY <2>2 DEF WaitingSound, ListsChange
<1>7. ASSUME NEW c \in pool'
      PROVE  PoolSound(c)'
  <2>1. CASE c \in pool /\ (c.at = "start" => c.of \notin M)
    <3>1. PoolSound(c)
      BY <2>1 DEF PlacesSound
    <3>2. c.of \in Known /\ c.of \in Tasks
      BY <1>1, <3>1 DEF PoolSound
    <3>4. ASSUME c.at = "start"
          PROVE  /\ Startable(c.of)' /\ ~Has(Handlers(c.of))'
                 /\ Info(c.of).from = "then" =>
                    ~Info(c.of).inline /\ c.of \notin Values(conts'[Antecedent(c.of)])
      <4>3. ASSUME Info(c.of).from = "then"
            PROVE  ~Info(c.of).inline /\ c.of \notin Values(conts'[Antecedent(c.of)])
        BY <1>1, <1>2, <2>1, <3>1, <3>2, <3>4, <4>3, AntecedentBuilt DEF ListsChange, Arrives,
           PoolSound
      <4> QED BY <1>1, <1>2, <2>1, <3>1, <3>2, <3>4, <4>3, RestStays DEF PoolSound
    <3> QED BY <1>4, <3>1, <3>2, <3>4 DEF PoolSound, TasksChange, FinishedStay, Done, Outcome
  <2>2. CASE ~(c \in pool /\ (c.at = "start" => c.of \notin M))
    BY <1>1, <1>2, <1>4, <2>2 DEF PoolSound, ListsChange
  <2> QED BY <2>1, <2>2
<1> QED BY <1>5, <1>6, <1>7

LEMMA QueuedAfter ==
    ASSUME TasksTyped, NEW a \in Actors, NEW fs, NEW M, NEW t \in Known,
           TasksChange(a, M), ListsChange(a, fs, M), ~Moved(a, M, t), Queued(t)'
    PROVE  Queued(t)
<1>1. program \in Programs /\ UNCHANGED program /\ Known \subseteq Tasks
  BY ProgramFacts DEF TasksTyped, TasksChange
<1>2. ~Arrives(a, fs, M, t)
  BY DEF Arrives
<1>3. CASE Info(t).from = "then" /\ t \in Values(conts'[Antecedent(t)])
  BY <1>1, <1>2, <1>3, AntecedentBuilt DEF ListsChange, Queued
<1>4. CASE Info(t).from = "event" /\ t \in Values(waiting'[Info(t).of])
  BY <1>1, <1>2, <1>4, ProgramFacts DEF ListsChange, Queued
<1>5. CASE Call("start", t) \in pool'
  BY <1>2, <1>5 DEF ListsChange, Queued, Call
<1> QED BY <1>1, <1>3, <1>4, <1>5 DEF Queued, Info, Antecedent, Call

LEMMA LinksAfter ==
    ASSUME TasksTyped, PlacesSound, LinksSound, NEW a \in Actors, NEW fs, NEW M,
           TasksChange(a, M), CallsChange(a, fs, M), ListsChange(a, fs, M), PlacesChange(a, fs, M)
    PROVE  LinksSound'
<1>1. HandledOnce /\ StacksTyped /\ program \in Programs /\ Known \subseteq Tasks /\ UNCHANGED program
  BY ProgramFacts DEF PlacesSound, TasksTyped, TasksChange
<1>3. ASSUME NEW t \in Known
      PROVE  /\ ~Has(Handlers(t)) /\ ~Moved(a, M, t) => ~Has(Handlers(t))'
             /\ Arrives(a, fs, M, t) => ~Has(Handlers(t))'
             /\ Has(Handlers(t)) /\ ~AtTop(a, t) => Has(Handlers(t))'
             /\ Handles(fs, t) => Has(Handlers(t))'
             /\ AtTop(a, t) => Has(Handlers(t))
  BY <1>1, HandledAfter
<1>5. ASSUME NEW u \in Known
      PROVE  /\ Has(Finals(u))' => SomeOf(fs, Finals(u)) \/ Has(Finals(u))
             /\ Has(Finals(u)) => Has(Finals(u))' \/ TopIn(a, Finals(u))
             /\ TopIn(a, Finals(u)) => Has(Finals(u))
  <2>1. stack[a] # <<>> => 1 \in 1..Len(stack[a])
    BY <1>1, EmptySeq, LenProperties DEF StacksTyped
  <2> QED BY <1>1, <2>1, TurnedHas DEF TopIn, Has, CallsChange
<1>6. ASSUME NEW u \in Known, NEW o \in Known, Unwraps(u, o), Linked(u)'
      PROVE  Underway(o)' /\ MayRun(o)' /\ ~Located(o)'
  <2>1. CASE Alive(u)
    BY <1>1, <1>3, <1>5, <1>6, <2>1, ProgramFacts, QueuedAfter, MayStillRun DEF Located, Keeps,
       TasksChange, PlacesChange, Moved, Unwraps, Alive, LinksSound, Linked
  <2>2. CASE ~Alive(u)
    BY <1>3, <1>6, <2>2 DEF Located, PlacesChange
  <2> QED BY <2>1, <2>2
<1>7. ASSUME NEW t \in Known, Alive(t)'
      PROVE  Located(t)' \/ \E u \in Known : Unwraps(u, t) /\ Linked(u)'
  <2>1. CASE Moved(a, M, t) \/ ~Alive(t)
    BY <1>3, <1>7, <2>1 DEF Located, PlacesChange
  <2>2. CASE ~Moved(a, M, t) /\ Alive(t)
    <3>1. CASE Has(Handlers(t))
      BY <1>3, <2>2, <3>1 DEF Located, Moved
    <3>2. CASE Queued(t)
      BY <2>2, <3>2 DEF PlacesChange, Moved, Located
    <3>3. CASE \E u \in Known : Unwraps(u, t) /\ Linked(u)
      <4> PICK u \in Known : Unwraps(u, t) /\ Linked(u)
        BY <3>3
      <4> QED BY <1>5, <2>2 DEF Linked, PlacesChange, Moved, Unwraps
    <3> QED BY <2>2, <3>1, <3>2, <3>3 DEF LinksSound, Located
  <2> QED BY <2>1, <2>2
<1> QED BY <1>1, <1>6, <1>7 DEF LinksSound, Known, Info, BodyOf, Unwraps

LEMMA StatesAfter ==
    ASSUME TasksTyped, StatesSound, NEW a \in Actors, NEW fs, NEW M,
           TasksChange(a, M), CallsChange(a, fs, M), RunnersChange(a, fs), StatesChange
    PROVE  StatesSound'
<1>1. StacksTyped /\ program \in Programs /\ Known \subseteq Tasks /\ UNCHANGED program /\ FinishedStay
  BY ProgramFacts DEF TasksTyped, TasksChange
<1>2. Known' = Known /\ \A t : /\ Info(t)' = Info(t) /\ BodyOf(t)' = BodyOf(t)
                               /\ Antecedent(t)' = Antecedent(t) /\ Based(t)' = Based(t)
  BY <1>1 DEF Known, Info, BodyOf, Antecedent, Based
<1>3. ASSUME NEW t \in Tasks
      PROVE  StateSound(t)' /\ PropagatedTo(t)'
  <2>1. CASE state'[t] = state[t] /\ exc'[t] = exc[t] /\ (t \in armed' => t \in armed)
    <3>1. StateSound(t) /\ PropagatedTo(t)
      BY DEF StatesSound
    <3>3. PropagatedTo(t)'
      <4>1. CASE state[t] # "none" /\ Info(t).from = "then" /\ t \in Known
        <5> PICK x \in Tasks : x = Antecedent(t)
          BY <1>1, <4>1, AntecedentBuilt
        <5> QED BY <1>1, <1>2, <2>1, <3>1, <4>1 DEF PropagatedTo, Done, Outcome, FinishedStay
      <4>2. CASE ~(state[t] # "none" /\ Info(t).from = "then")
        BY <1>2, <2>1, <4>2 DEF PropagatedTo
      <4> QED BY <3>1, <4>1, <4>2 DEF StateSound
    <3> QED BY <1>1, <1>2, <2>1, <3>1, <3>3, ProgramFacts DEF StateSound, TasksChange
  <2> QED BY <2>1 DEF StatesChange
<1>4. ASSUME NEW t \in Tasks
      PROVE  DoneSound(t)'
  BY <1>1, TurnedHas DEF RunnersChange, DoneSound, StatesSound, CallsChange
<1> QED BY <1>1, <1>3, <1>4 DEF StatesSound, StatesChange

\* A step that does what TasksStep says keeps the invariant of the tasks.
LEMMA TasksAfter ==
    ASSUME TasksInv, NEW a \in Actors, NEW fs, NEW M, TasksStep(a, fs, M), TasksTyped'
    PROVE  TasksInv'
  BY CallsAfter, HandledAfter, ListsAfter, LinksAfter, StatesAfter DEF TasksInv, TasksStep,
     PlacesSound, TasksTyped, HandledOnce

-----------------------------------------------------------------------------
(* Steps that leave the states of the tasks alone.                            *)

\* What is at the top of a stack.
LEMMA TopFacts ==
    ASSUME TasksInv, NEW a \in Actors, stack[a] # <<>>, NEW f, f = stack[a][1]
    PROVE  /\ f \in AnyCall /\ Sound(a, f)
           /\ \A t : AtTop(a, t) <=> t \in HandledBy(f)
           /\ \A t : TopIn(a, Finals(t)) <=> f.at = "finalize" /\ f.of = t
           /\ \A t : TopIn(a, Entrants(t)) <=> f.at \in {"register", "schedule"} /\ f.of = t
           /\ \A t : TopIn(a, Runners(t)) <=> f.at \in {"complete", "cancelled", "run"} /\ f.of = t
           /\ \A fs : Go(a, fs) => Turns(a, fs)
           /\ HandledBy(f) \subseteq Known /\ \A t \in HandledBy(f) : Alive(t)
<1>2. f \in AnyCall
  BY EmptySeq, LenProperties, ElementOfSeq DEF TasksInv, TasksTyped, StacksTyped
<1>3. Sound(a, f)
  BY EmptySeq, LenProperties DEF TasksInv, PlacesSound, CallsSound, TasksTyped, StacksTyped
<1> QED
  BY <1>2, <1>3, HandledIsAlive DEF AtTop, TopIn, Handlers, Finals, Runners, Entrants, Go, Turns,
     Below

\* A few calls written out.
LEMMA Written ==
    ASSUME NEW f \in AnyCall, NEW g \in AnyCall, NEW h \in AnyCall
    PROVE  /\ <<>> \in Seq(AnyCall) /\ Values(<<>>) = {} /\ Apart(<<>>)
           /\ <<f>> \in Seq(AnyCall) /\ Values(<<f>>) = {f} /\ Apart(<<f>>)
           /\ <<f, g>> \in Seq(AnyCall) /\ Values(<<f, g>>) = {f, g}
           /\ HandledBy(f) \cap HandledBy(g) = {} => Apart(<<f, g>>)
           /\ <<f, g, h>> \in Seq(AnyCall) /\ Values(<<f, g, h>>) = {f, g, h}
           /\ /\ HandledBy(f) \cap HandledBy(g) = {} /\ HandledBy(f) \cap HandledBy(h) = {}
              /\ HandledBy(g) \cap HandledBy(h) = {}
              => Apart(<<f, g, h>>)
<1>6. HandledBy(f) \cap HandledBy(g) = {} => Apart(<<f, g>>)
  BY DEF Apart
<1> QED BY <1>6 DEF Apart, Values

LEMMA NoCalls == <<>> \in Seq(AnyCall) /\ Values(<<>>) = {} /\ Apart(<<>>)
  BY DEF Values, Apart

LEMMA TwoCalls ==
    ASSUME NEW f \in AnyCall, NEW g \in AnyCall, HandledBy(f) \cap HandledBy(g) = {}
    PROVE  <<f, g>> \in Seq(AnyCall) /\ Values(<<f, g>>) = {f, g} /\ Apart(<<f, g>>)
  BY DEF Values, Apart

LEMMA ThreeCalls ==
    ASSUME NEW f \in AnyCall, NEW g \in AnyCall, NEW h \in AnyCall,
           HandledBy(f) = {}, HandledBy(g) = {}
    PROVE  /\ <<f, g, h>> \in Seq(AnyCall) /\ Values(<<f, g, h>>) = {f, g, h}
           /\ Apart(<<f, g, h>>)
  BY DEF Values, Apart

LEMMA WrittenOf ==
    ASSUME NEW f \in AnyCall, NEW g \in AnyCall, NEW h \in AnyCall, NEW fs,
           \/ fs = <<>> \/ fs = <<f>> \/ fs = <<g>> \/ fs = <<f, g>> \/ fs = <<g, f>>
           \/ fs = <<f, g, h>>
    PROVE  fs \in Seq(AnyCall) /\ Values(fs) \subseteq {f, g, h}
<1>2. \A k \in AnyCall : <<k>> \in Seq(AnyCall) /\ Values(<<k>>) = {k}
  BY Written
<1>3. \A k, l \in AnyCall : <<k, l>> \in Seq(AnyCall) /\ Values(<<k, l>>) = {k, l}
  BY Written
<1>5. CASE fs = <<>>
  BY <1>5, Written
<1>6. CASE fs = <<f>> \/ fs = <<g>>
  BY <1>2, <1>6
<1>7. CASE fs = <<f, g>> \/ fs = <<g, f>>
  <2>1. /\ <<f, g>> \in Seq(AnyCall) /\ Values(<<f, g>>) = {f, g}
        /\ <<g, f>> \in Seq(AnyCall) /\ Values(<<g, f>>) = {f, g}
    BY <1>3
  <2> QED BY <1>7, <2>1
<1>8. CASE fs = <<f, g, h>>
  BY <1>8 DEF Values
<1> QED BY <1>5, <1>6, <1>7, <1>8

\* What a sequence of calls contains.
LEMMA SomeAmong ==
    ASSUME NEW fs \in Seq(AnyCall)
    PROVE  /\ \A S : SomeOf(fs, S) <=> Values(fs) \cap S # {}
           /\ \A t : Handles(fs, t) <=> \E g \in Values(fs) : t \in HandledBy(g)
  BY ListFacts DEF SomeOf, Values, Handles, Handlers

\* The tasks themselves are as they were.
LEMMA TasksStill ==
    ASSUME TasksInv, UNCHANGED <<program, todo, state, exc, armed>>,
           NEW a \in Actors, NEW M \in SUBSET Tasks, \A t \in M : ~Has(Handlers(t)), done' \subseteq Tasks
    PROVE  /\ TasksChange(a, M) /\ StatesChange
           /\ \A b, f : Sound(b, f) => Sound(b, f)'
           /\ \A t : Alive(t)' = Alive(t) /\ Done(t)' = Done(t)
           /\ \A t, x : Follows(t, x)' = Follows(t, x) /\ WaitsFor(t, x)' = WaitsFor(t, x)
           /\ \A t : Startable(t)' = Startable(t) /\ MayRun(t)' = MayRun(t)
<1>1. \A b, f : Sound(b, f) => Sound(b, f)'
  BY DEF Sound, Registers, Schedules, Startable, Performs, Finishes, Fails, Follows, WaitsFor,
     MayRun, Unbegun, Newest, Fresh, Underway, Alive, Done, Info, Based, Antecedent, BodyOf, Known
<1>2. /\ \A t : Alive(t)' = Alive(t) /\ Done(t)' = Done(t) /\ Keeps(t)
      /\ \A t, x : Follows(t, x)' = Follows(t, x) /\ WaitsFor(t, x)' = WaitsFor(t, x)
      /\ \A t : Startable(t)' = Startable(t) /\ MayRun(t)' = MayRun(t)
  BY DEF Keeps, Startable, Follows, WaitsFor, MayRun, Unbegun, Fresh, Underway, Alive, Done, Info,
     Based, Antecedent, BodyOf, Known
<1> QED
  BY <1>1, <1>2 DEF StatesChange, TasksInv, StatesSound, BuiltTo, TasksChange, FinishedStay,
     Newest

\* The step of an actor changes its calls and nothing else of the tasks: the
\* calls fs go on with what the innermost one handled.
LEMMA CallsOnly ==
    ASSUME TasksInv, NEW a \in Actors, NEW fs \in Seq(AnyCall), Turns(a, fs), FieldsTyped',
           UNCHANGED <<program, todo, task, token, waiting, pool>>,
           Apart(fs), \A g \in Values(fs) : Sound(a, g),
           \A t : AtTop(a, t) <=> \E g \in Values(fs) : t \in HandledBy(g),
           \A t \in Tasks : ~TopIn(a, Runners(t)) /\ ~TopIn(a, Finals(t)),
           \A g \in Values(fs) : g.at = "finalize" => BodyOf(g.of) # "unwrap"
    PROVE  TasksInv'
<1>1. /\ \A S : SomeOf(fs, S) <=> Values(fs) \cap S # {}
      /\ \A t : Handles(fs, t) <=> \E g \in Values(fs) : t \in HandledBy(g)
  BY SomeAmong
<1>2. /\ TasksChange(a, {}) /\ StatesChange
      /\ \A b, f : Sound(b, f) => Sound(b, f)'
      /\ \A t : Alive(t)' = Alive(t) /\ Done(t)' = Done(t)
  <2>1. UNCHANGED <<program, todo, state, exc, armed>> /\ done' \subseteq Tasks
    BY DEF TasksInv, StatesSound, task, token
  <2> QED BY <2>1, TasksStill
<1>4. ListsChange(a, fs, {})
  BY DEF ListsChange, TasksInv, PlacesSound, ContsSound, WaitingSound, task
<1>6. PlacesChange(a, fs, {})
  <2>2. Known \subseteq Tasks
    BY ProgramFacts DEF TasksInv, TasksTyped
  <2>3. \A t : SomeOf(fs, Finals(t)) => BodyOf(t) # "unwrap"
    BY <1>1 DEF Finals
  <2> QED
    BY <1>1, <1>2, <2>2, <2>3, TopFacts DEF PlacesChange, Moved, AtTop, TopIn, Linked, Queued,
       Info, Antecedent, task
<1>7. TasksStep(a, fs, {})
  BY <1>1, <1>2, <1>4, <1>6 DEF TasksStep, CallsChange, Moved, RunnersChange, TasksInv,
     StatesSound, DoneSound, task
<1> QED BY <1>7, Turned, TasksAfter DEF TasksInv, TasksTyped, task, token

LEMMA CallFacts ==
    ASSUME NEW at \in Points, NEW of \in Tasks \cup Events, NEW x \in Exceptions \cup {"none"}
    PROVE  /\ Call(at, of) \in AnyCall /\ Call(at, of).at = at /\ Call(at, of).of = of
           /\ Call(at, of).exc = "none" /\ Call(at, of).rest = <<>>
           /\ HandledBy(Call(at, of)) = IF at \in Single THEN {of} ELSE {}
           /\ With(Call(at, of), x) = [at |-> at, of |-> of, exc |-> x, rest |-> <<>>]
           /\ With(Call(at, of), x) \in AnyCall
           /\ Cancelling(of, x) = [at |-> "cancel", of |-> of, exc |-> x, rest |-> <<>>]
           /\ Cancelling(of, x) \in AnyCall /\ HandledBy(Cancelling(of, x)) = {of}
           /\ at \notin Single => HandledBy(With(Call(at, of), x)) = {}
<1>1. <<>> \in Seq(Tasks) /\ Values(<<>>) = {}
  BY DEF Values
<1>2. /\ Call(at, of) = [at |-> at, of |-> of, exc |-> "none", rest |-> <<>>]
      /\ With(Call(at, of), x) = [at |-> at, of |-> of, exc |-> x, rest |-> <<>>]
      /\ Cancelling(of, x) = [at |-> "cancel", of |-> of, exc |-> x, rest |-> <<>>]
  BY DEF Call, With, Cancelling
<1>4. /\ Call(at, of) \in AnyCall /\ Call(at, of).at = at /\ Call(at, of).of = of
      /\ Call(at, of).exc = "none" /\ Call(at, of).rest = <<>>
      /\ With(Call(at, of), x) \in AnyCall /\ Cancelling(of, x) \in AnyCall
  <2>1. \A p \in Points, y \in Exceptions \cup {"none"} :
            [at |-> p, of |-> of, exc |-> y, rest |-> <<>>] \in AnyCall
    BY <1>1 DEF AnyCall
  <2> QED BY <1>2, <2>1 DEF Points, Single
<1>6. HandledBy(Cancelling(of, x)) = {of}
  BY <1>2 DEF HandledBy, Points, Single
<1>7. at \notin Single => HandledBy(With(Call(at, of), x)) = {}
  BY <1>1, <1>2 DEF HandledBy
<1> QED BY <1>1, <1>2, <1>4, <1>6, <1>7 DEF HandledBy

LEMMA CallOf ==
    ASSUME NEW at \in Points, NEW of \in Tasks \cup Events
    PROVE  /\ Call(at, of) \in AnyCall /\ Call(at, of).at = at /\ Call(at, of).of = of
           /\ Call(at, of).exc = "none" /\ Call(at, of).rest = <<>>
           /\ HandledBy(Call(at, of)) = IF at \in Single THEN {of} ELSE {}
  BY CallFacts

\* The innermost call of one task is replaced by another call of it.
LEMMA HandOn ==
    ASSUME TasksInv, NEW a \in Actors, stack[a] # <<>>, NEW f, f = stack[a][1],
           NEW g \in AnyCall, Go(a, <<g>>), FieldsTyped',
           UNCHANGED <<program, todo, task, token, waiting, pool>>,
           f.at \in Single \ {"finalize"}, g.at \in Single, g.of = f.of, Sound(a, g),
           g.at = "finalize" => BodyOf(g.of) # "unwrap"
    PROVE  TasksInv'
<1>1. /\ \A t : AtTop(a, t) <=> t \in HandledBy(f)
      /\ \A t : TopIn(a, Finals(t)) <=> f.at = "finalize" /\ f.of = t
      /\ \A t : TopIn(a, Runners(t)) <=> f.at \in {"complete", "cancelled", "run"} /\ f.of = t
      /\ Turns(a, <<g>>)
  BY TopFacts
<1>2. <<g>> \in Seq(AnyCall) /\ Values(<<g>>) = {g} /\ Apart(<<g>>)
  BY Written
<1> HIDE DEF Single
<1> QED BY <1>1, <1>2, CallsOnly DEF Single, HandledBy

\* Calls that handle no task take the place of one that handles none.
LEMMA NoTask ==
    ASSUME TasksInv, NEW a \in Actors, NEW fs \in Seq(AnyCall), Turns(a, fs), FieldsTyped',
           stack[a] # <<>> =>
               HandledBy(stack[a][1]) = {} /\ stack[a][1].at \notin {"complete", "cancelled", "run"},
           UNCHANGED <<program, todo, task, token, waiting, pool>>,
           \A g \in Values(fs) : Sound(a, g) /\ HandledBy(g) = {}
    PROVE  TasksInv'
<1>1. \A t \in Tasks : ~AtTop(a, t) /\ ~TopIn(a, Runners(t)) /\ ~TopIn(a, Finals(t))
  <2>1. CASE stack[a] = <<>>
    BY <2>1 DEF AtTop, TopIn
  <2>2. CASE stack[a] # <<>>
    <3> PICK f : f = stack[a][1]
      OBVIOUS
    <3> QED BY <2>2, TopFacts DEF HandledBy, Single
  <2> QED BY <2>1, <2>2
<1> QED BY <1>1, CallsOnly DEF HandledBy, Single, AtTop, TopIn, Handlers, Apart, Values

LEMMA JoinedCalls ==
    ASSUME NEW g, NEW h
    PROVE  <<g>> \o <<h>> = <<g, h>>
<1> DEFINE p == <<g>> \o <<h>>
           q == <<g, h>>
<1>1. /\ <<g>> \in Seq({g, h}) /\ Len(<<g>>) = 1 /\ <<g>>[1] = g
      /\ <<h>> \in Seq({g, h}) /\ Len(<<h>>) = 1 /\ <<h>>[1] = h
      /\ q \in Seq({g, h}) /\ Len(q) = 2 /\ q[1] = g /\ q[2] = h
  OBVIOUS
<1>2. /\ p \in Seq({g, h}) /\ Len(p) = 1 + 1
      /\ \A i \in 1..(1 + 1) : p[i] = IF i <= 1 THEN <<g>>[i] ELSE <<h>>[i - 1]
  BY <1>1, ConcatProperties
<1> HIDE DEF p, q
<1>4. p = q
  BY <1>1, <1>2, SeqEqual
<1> QED BY <1>4 DEF p, q

\* The innermost call goes through a list: the call g is for its first task.
LEMMA ListStep ==
    ASSUME TasksInv, NEW a \in Actors, stack[a] # <<>>, NEW f, f = stack[a][1],
           f.at \in Listing, f.rest # <<>>, NEW g \in AnyCall,
           Go(a, <<g, [f EXCEPT !.rest = Tail(f.rest)]>>), FieldsTyped',
           UNCHANGED <<program, todo, task, token, waiting, pool>>,
           g.at \in Single, g.of = Head(f.rest), Sound(a, g),
           g.at = "finalize" => BodyOf(g.of) # "unwrap"
    PROVE  TasksInv'
<1> DEFINE h == [f EXCEPT !.rest = Tail(f.rest)]
<1>1. /\ f \in AnyCall /\ Sound(a, f)
      /\ \A t : AtTop(a, t) <=> t \in HandledBy(f)
      /\ \A t : TopIn(a, Finals(t)) <=> f.at = "finalize" /\ f.of = t
      /\ \A t : TopIn(a, Runners(t)) <=> f.at \in {"complete", "cancelled", "run"} /\ f.of = t
      /\ Turns(a, <<g, h>>)
  BY TopFacts
<1>3. /\ Tail(f.rest) \in Seq(Tasks)
      /\ Values(f.rest) = {Head(f.rest)} \cup Values(Tail(f.rest))
      /\ Head(f.rest) \notin Values(Tail(f.rest)) /\ NoRepeats(Tail(f.rest))
  BY <1>1, ListTail DEF AnyCall, Sound
<1>4. h \in AnyCall /\ h.at = f.at /\ h.of = f.of /\ h.exc = f.exc /\ h.rest = Tail(f.rest)
  BY <1>1, <1>3 DEF AnyCall
<1> HIDE DEF h
<1>8. /\ <<g, h>> \in Seq(AnyCall) /\ Values(<<g, h>>) = {g, h}
      /\ HandledBy(g) \cap HandledBy(h) = {} => Apart(<<g, h>>)
  BY <1>4, Written
<1>12. \A k \in Values(<<g, h>>) : Sound(a, k) /\ (k.at = "finalize" => BodyOf(k.of) # "unwrap")
  BY <1>1, <1>3, <1>4, <1>8 DEF Sound, Listing, Single
<1> QED BY <1>1, <1>3, <1>4, <1>8, <1>12, CallsOnly DEF HandledBy, Single, Listing

-----------------------------------------------------------------------------
(* The actions that only change calls.                                        *)

\* What is known of a task at one point is enough for the next.
LEMMA NextCalls ==
    ASSUME TasksInv, NEW t \in Known
    PROVE  /\ t \in Tasks /\ Info(t) \in TaskInfo
           /\ Performs(t) => Finishes(t)
           /\ \A x : Performs(t) /\ BodyOf(t) \notin {"unwrap", "all", "any"} => Fails(t, x)
           /\ \A x : Follows(t, x) /\ Done(x) /\ (Based(t) \/ state[x] = "Completed") => Startable(t)
           /\ \A x : Follows(t, x) /\ state[x] = "Canceled" /\ ~Based(t) => Fails(t, exc[x])
           /\ \A e, x : WaitsFor(t, e) => Finishes(t) /\ Fails(t, x)
           /\ Startable(t) /\ state[t] = "PendingCancel" =>
                Fails(t, IF Info(t).from = "then" THEN exc[Antecedent(t)] ELSE "none")
           /\ Schedules(t) => Follows(t, Antecedent(t))
<1>1. program \in Programs /\ t \in Tasks /\ Info(t) \in TaskInfo
  BY ProgramFacts DEF TasksInv, TasksTyped
<1>2. /\ BodyOf(t) \in {"unwrap", "all", "any"} => Info(t).from = "then" /\ Based(t) /\ ~Info(t).token
      /\ Info(t).from = "event" <=> BodyOf(t) = "none"
  BY <1>1, ProgramFacts
<1>3. Performs(t) => Finishes(t)
  BY DEF Performs, Finishes
<1>6. \A x : Follows(t, x) /\ state[x] = "Canceled" /\ ~Based(t) => Fails(t, exc[x])
  BY <1>2 DEF Follows, Fails, Alive, Done, Outcome
<1>7. \A e, x : WaitsFor(t, e) => Finishes(t) /\ Fails(t, x)
  BY <1>2 DEF WaitsFor, Finishes, Fails, Alive, MayRun
<1>9. Schedules(t) => Follows(t, Antecedent(t))
  BY DEF Schedules, Follows
<1> QED
  BY <1>1, <1>2, <1>3, <1>6, <1>7, <1>9 DEF Follows, Startable, MayRun, Fails, Alive, TasksInv,
     StatesSound, StateSound, Performs

LEMMA SoundCalls ==
    ASSUME NEW b, NEW x \in Exceptions \cup {"none"}
    PROVE  /\ \A t \in Tasks : Finishes(t) => Sound(b, Call("finalize", t))
           /\ \A t \in Tasks : Fails(t, x) => Sound(b, Cancelling(t, x))
           /\ \A t \in Tasks : Startable(t) => Sound(b, Call("start", t))
           /\ \A t \in Tasks, p \in {"countAll", "countAny", "delete"} :
                Sound(b, Call(p, t)) /\ HandledBy(Call(p, t)) = {}
           /\ \A e \in Events, p \in OfEvents :
                /\ Sound(b, Call(p, e)) /\ HandledBy(Call(p, e)) = {}
                /\ Sound(b, With(Call(p, e), x)) /\ HandledBy(With(Call(p, e), x)) = {}
<1>1. NoRepeats(<<>>) /\ Values(<<>>) = {}
  BY DEF NoRepeats, Values
<1> QED BY <1>1 DEF Sound, Call, With, OfEvents, HandledBy, Single, Listing, Cancelling

LEMMA UserBodyTasks ==
    ASSUME TasksInv, NEW a \in Actors, UserBody(a)
    PROVE  TasksInv'
<1> PICK f : f = stack[a][1]
  OBVIOUS
<1> PICK t : t = f.of
  OBVIOUS
<1>4. t \in Tasks /\ Finishes(t) /\ \A x : Fails(t, x)
  BY TopFacts, NextCalls DEF Sound, Performs, UserBody, Top, This, BodyOf
<1> PICK g : Go(a, <<g>>) /\ g \in {Call("finalize", t), Cancelling(t, "none"), Cancelling(t, t)}
  BY DEF UserBody, This
<1>5. g \in AnyCall /\ g.of = t /\ g.at \in Single
  BY <1>4, CallFacts DEF Points, Exceptions, Single
<1>6. Sound(a, g)
  BY <1>4, SoundCalls DEF Exceptions
<1> QED
  BY <1>5, <1>6, HandOn DEF UserBody, event, TasksInv, TasksTyped, FieldsTyped, Single, Top, This,
     BodyOf

LEMMA VectorTasks ==
    ASSUME TasksInv, NEW a \in Actors, Vector(a)
    PROVE  TasksInv'
<1> PICK f : f = stack[a][1]
  OBVIOUS
<1> PICK t : t = f.of
  OBVIOUS
<1>1. stack[a] # <<>> /\ f.at = "perform" /\ BodyOf(t) \in {"vector", "value"}
  BY DEF Vector, Top, This, BodyOf
<1>3. Performs(t) /\ t \in Known
  BY <1>1, TopFacts DEF Sound, Performs
<1> PICK g : g = Call("finalize", t)
  OBVIOUS
<1>5. g \in AnyCall /\ g.of = t /\ g.at \in Single
  BY <1>3, NextCalls, CallFacts DEF Points, Exceptions, Single
<1>6. Sound(a, g) /\ Go(a, <<g>>)
  BY <1>3, NextCalls, SoundCalls DEF Exceptions, Vector, This
<1> QED BY <1>1, <1>5, <1>6, HandOn DEF Vector, event, TasksInv, TasksTyped, FieldsTyped, Single

LEMMA PlainCalls ==
    ASSUME NEW b
    PROVE  /\ \A t \in Tasks \cup Events, p \in {"countAll", "countAny", "delete"} :
                Call(p, t) \in AnyCall /\ Sound(b, Call(p, t)) /\ HandledBy(Call(p, t)) = {}
           /\ \A e \in Events, p \in OfEvents, x \in Exceptions \cup {"none"} :
                /\ Call(p, e) \in AnyCall /\ Sound(b, Call(p, e)) /\ HandledBy(Call(p, e)) = {}
                /\ With(Call(p, e), x) \in AnyCall /\ Sound(b, With(Call(p, e), x))
                /\ HandledBy(With(Call(p, e), x)) = {}
<1>1. ASSUME NEW t \in Tasks \cup Events, NEW p \in {"countAll", "countAny", "delete"}
      PROVE  Call(p, t) \in AnyCall /\ Sound(b, Call(p, t)) /\ HandledBy(Call(p, t)) = {}
  BY CallFacts DEF Sound, Call, OfEvents, HandledBy, Single, Listing, Points, NoRepeats
<1>2. ASSUME NEW e \in Events, NEW p \in OfEvents, NEW x \in Exceptions \cup {"none"}
      PROVE  /\ Call(p, e) \in AnyCall /\ Sound(b, Call(p, e)) /\ HandledBy(Call(p, e)) = {}
             /\ With(Call(p, e), x) \in AnyCall /\ Sound(b, With(Call(p, e), x))
             /\ HandledBy(With(Call(p, e), x)) = {}
  <2>1. p \in Points
    BY DEF Points, OfEvents
  <2> QED BY <2>1, CallFacts, SoundCalls
<1> QED BY <1>1, <1>2

\* A call on an event or of when_all or when_any is replaced by such calls.
LEMMA EventCalls ==
    ASSUME TasksInv, NEW a \in Actors, stack[a] # <<>>, NEW f, f = stack[a][1],
           f.at \in OfEvents \cup {"countAll", "countAny", "delete"},
           NEW fs \in Seq(AnyCall), Go(a, fs), FieldsTyped',
           UNCHANGED <<program, todo, task, token, waiting, pool>>,
           \A g \in Values(fs) : Sound(a, g) /\ HandledBy(g) = {}
    PROVE  TasksInv'
<1>1. Turns(a, fs)
  BY TopFacts
<1> HIDE DEF OfEvents
<1> QED BY <1>1, NoTask DEF HandledBy, Single, Listing, OfEvents

LEMMA StoreTasks ==
    ASSUME TasksInv, NEW a \in Actors, Store(a)
    PROVE  TasksInv'
<1> PICK f : f = stack[a][1]
  OBVIOUS
<1> PICK e : e = f.of
  OBVIOUS
<1>1. stack[a] # <<>> /\ f.at \in OfEvents
  BY DEF Store, Top, OfEvents
<1>2. f \in AnyCall /\ e \in Events
  BY <1>1, TopFacts DEF Sound
<1>4. FieldsTyped'
  BY <1>2 DEF Store, This, TasksInv, TasksTyped, FieldsTyped, AnyCall
<1> PICK g : g = With(Call("cancelEvent", e), f.exc)
  OBVIOUS
<1> PICK fs \in {<<>>, <<g>>} : Go(a, fs)
  BY DEF Store, This
<1>6. g \in AnyCall /\ Sound(a, g) /\ HandledBy(g) = {}
  <2>1. f.exc \in Exceptions \cup {"none"}
    BY <1>2 DEF AnyCall
  <2> QED BY <1>2, <2>1, PlainCalls DEF OfEvents
<1>7. UNCHANGED <<program, todo, task, token, waiting, pool>>
  BY DEF Store
<1>8. fs \in Seq(AnyCall) /\ \A k \in Values(fs) : k \in {g}
  BY <1>6, WrittenOf
<1> QED BY <1>1, <1>4, <1>6, <1>7, <1>8, EventCalls

LEMMA CountTasks ==
    ASSUME TasksInv, NEW a \in Actors, CountAll(a) \/ CountAny(a) \/ Delete(a)
    PROVE  TasksInv'
<1> PICK f : f = stack[a][1]
  OBVIOUS
<1> PICK t : t = f.of
  OBVIOUS
<1> PICK e : e = program.joint
  OBVIOUS
<1>2. f \in AnyCall /\ e \in Events
  BY TopFacts, ProgramFacts DEF TasksInv, TasksTyped, CountAll, CountAny, Delete, Top
<1> PICK g : g = Call("delete", t)
  OBVIOUS
<1> PICK h : h = Call("cancelEvent", e)
  OBVIOUS
<1> PICK fs \in {<<>>, <<g>>, <<h, g>>} : Go(a, fs)
  BY DEF CountAll, CountAny, Delete, This
<1>6. h \in AnyCall /\ Sound(a, h) /\ HandledBy(h) = {}
  BY <1>2, PlainCalls DEF OfEvents
<1>7. g \in AnyCall /\ Sound(a, g) /\ HandledBy(g) = {}
  BY <1>2, PlainCalls DEF AnyCall
<1>8. fs \in Seq(AnyCall) /\ \A k \in Values(fs) : k \in {g, h}
  BY <1>6, <1>7, WrittenOf
<1> QED
  BY <1>6, <1>7, <1>8, EventCalls DEF CountAll, CountAny, Delete, event, TasksInv, TasksTyped,
     FieldsTyped, Top

LEMMA UseTasks ==
    ASSUME TasksInv, NEW s \in Setters, Use(s)
    PROVE  TasksInv'
<1> PICK e : e = program.target[s]
  OBVIOUS
<1>0. s \in Actors /\ stack[s] = <<>>
  BY DEF Actors, Use
<1> PICK g : g = Call("set", e)
  OBVIOUS
<1> PICK h : h = With(Call("store", e), s)
  OBVIOUS
<1>2. e \in Events /\ s \in Exceptions
  BY DEF Use, TasksInv, TasksTyped, FieldsTyped, Exceptions
<1>3. g \in AnyCall /\ Sound(s, g) /\ HandledBy(g) = {}
  BY <1>2, PlainCalls DEF OfEvents
<1>4. h \in AnyCall /\ Sound(s, h) /\ HandledBy(h) = {}
  BY <1>2, PlainCalls DEF OfEvents
<1> PICK fs \in {<<>>, <<g>>, <<h>>} : stack' = [stack EXCEPT ![s] = fs]
  BY <1>0 DEF Use, TasksInv, TasksTyped, StacksTyped
<1>5. fs \in Seq(AnyCall) /\ \A k \in Values(fs) : k \in {g, h}
  BY <1>3, <1>4, WrittenOf
<1>6. Turns(s, fs)
  BY <1>0, <1>5, ConcatEmptySeq DEF Turns, Below
<1> QED BY <1>0, <1>3, <1>4, <1>5, <1>6, NoTask DEF Use, event, TasksInv, TasksTyped, FieldsTyped

LEMMA DeliverTasks ==
    ASSUME TasksInv, NEW a \in Actors, Deliver(a)
    PROVE  TasksInv'
<1> PICK f : f = stack[a][1]
  OBVIOUS
<1> PICK e : e = f.of
  OBVIOUS
<1>1. stack[a] # <<>> /\ f.at = "deliver"
  BY DEF Deliver, Top
<1>2. f \in AnyCall /\ Sound(a, f) /\ e \in Events /\ \A fs : Go(a, fs) => Turns(a, fs)
  BY <1>1, TopFacts DEF Sound
<1>4. FieldsTyped'
  BY <1>2 DEF Deliver, This, TasksInv, TasksTyped, FieldsTyped
<1>5. CASE f.rest = <<>>
  <2>1. Go(a, <<>>)
    BY <1>5 DEF Deliver, This
  <2> QED
    BY <1>1, <1>2, <1>4, <1>5, <2>1, NoCalls, NoTask DEF HandledBy, Single, Listing, Values,
       Deliver
<1>6. CASE f.rest # <<>>
  <2> PICK t : t = Head(f.rest)
    OBVIOUS
  <2>2. WaitsFor(t, e) /\ t \in Known
    BY <1>1, <1>2, <1>6, ListTail DEF WaitsFor, AnyCall, Sound
  <2>3. t \in Tasks /\ Finishes(t) /\ Fails(t, "none")
    BY <2>2, NextCalls
  <2> PICK g : /\ g \in {Call("finalize", t), Cancelling(t, "none")}
               /\ Go(a, <<g, [f EXCEPT !.rest = Tail(f.rest)]>>)
    BY <1>6 DEF Deliver, This
  <2>4. g \in AnyCall /\ g.of = t /\ g.at \in Single
    BY <2>3, CallFacts DEF Points, Single
  <2>5. Sound(a, g)
    <3>1. /\ Finishes(t) => Sound(a, Call("finalize", t))
          /\ Fails(t, "none") => Sound(a, Cancelling(t, "none"))
      BY <2>3, SoundCalls
    <3> QED BY <2>3, <3>1
  <2>6. BodyOf(t) # "unwrap"
    BY <2>2, ProgramFacts DEF WaitsFor, TasksInv, TasksTyped
  <2> QED BY <1>1, <1>4, <1>6, <2>4, <2>5, <2>6, ListStep DEF Listing, Deliver
<1> QED BY <1>5, <1>6

LEMMA FailTasks ==
    ASSUME TasksInv, NEW a \in Actors, Fail(a)
    PROVE  TasksInv'
<1> PICK f : f = stack[a][1]
  OBVIOUS
<1> PICK e : e = f.of
  OBVIOUS
<1>1. stack[a] # <<>> /\ f.at = "fail"
  BY DEF Fail, Top
<1>2. f \in AnyCall /\ Sound(a, f) /\ e \in Events /\ \A fs : Go(a, fs) => Turns(a, fs)
  BY <1>1, TopFacts DEF Sound
<1>4. FieldsTyped'
  BY <1>2 DEF Fail, event, TasksInv, TasksTyped, FieldsTyped
<1>5. CASE f.rest = <<>>
  BY <1>1, <1>2, <1>4, <1>5, NoCalls, NoTask DEF HandledBy, Single, Listing, Values, Fail, event,
     This
<1>6. CASE f.rest # <<>>
  <2> PICK t : t = Head(f.rest)
    OBVIOUS
  <2> PICK x : x = f.exc
    OBVIOUS
  <2>2. WaitsFor(t, e) /\ t \in Known /\ x \in Exceptions \cup {"none"}
    BY <1>1, <1>2, <1>6, ListTail DEF WaitsFor, AnyCall, Sound
  <2>3. t \in Tasks /\ Fails(t, x)
    BY <2>2, NextCalls
  <2> PICK g : g = Cancelling(t, x) /\ Go(a, <<g, [f EXCEPT !.rest = Tail(f.rest)]>>)
    BY <1>6 DEF Fail, This
  <2>4. g \in AnyCall /\ g.of = t /\ g.at = "cancel" /\ g.at \in Single
    BY <2>2, <2>3, CallFacts DEF Points, Single
  <2>5. Sound(a, g)
    BY <2>2, <2>3, SoundCalls
  <2> QED BY <1>1, <1>4, <1>6, <2>4, <2>5, ListStep DEF Listing, Fail, event
<1> QED BY <1>5, <1>6

\* A continuation that reports to when_all or when_any.
LEMMA WhenTasks ==
    ASSUME TasksInv, NEW a \in Actors, WhenAll(a) \/ WhenAny(a)
    PROVE  TasksInv'
<1> PICK f : f = stack[a][1]
  OBVIOUS
<1> PICK t : t = f.of
  OBVIOUS
<1> PICK e : e = program.joint
  OBVIOUS
<1>1. stack[a] # <<>> /\ f.at = "perform" /\ BodyOf(t) \in {"all", "any"}
  BY DEF WhenAll, WhenAny, Top, This, BodyOf
<1>2. f \in AnyCall /\ Sound(a, f) /\ \A fs : Go(a, fs) => Turns(a, fs)
  BY <1>1, TopFacts
<1>4. t \in Tasks /\ Finishes(t) /\ e \in Events
  BY <1>1, <1>2, NextCalls, ProgramFacts DEF Sound, Performs, TasksInv, TasksTyped
<1> PICK x : x = exc[Antecedent(t)]
  OBVIOUS
<1>5. x \in Exceptions \cup {"none"} /\ Done(Antecedent(t))
  BY <1>1, <1>2, ProgramFacts, AntecedentBuilt DEF Performs, MayRun, TasksInv, TasksTyped, Sound
<1> PICK g : g = Call("finalize", t)
  OBVIOUS
<1>6. /\ g \in AnyCall /\ Sound(a, g) /\ HandledBy(g) = {t} /\ g.of = t
  BY <1>4, CallFacts, SoundCalls DEF Points, Single
<1> DEFINE First == {Call("set", e), Call("cancelEvent", e), With(Call("store", e), x),
                     With(Call("keep", e), x)}
           Second == {Call("delete", t), Call("countAll", t), Call("countAny", t)}
<1>7. /\ \A h \in First : h \in AnyCall /\ Sound(a, h) /\ HandledBy(h) = {}
      /\ \A h \in Second : h \in AnyCall /\ Sound(a, h) /\ HandledBy(h) = {}
  <2>1. \A h \in First : h \in AnyCall /\ Sound(a, h) /\ HandledBy(h) = {}
    <3>2. \A p \in OfEvents :
            /\ Call(p, e) \in AnyCall /\ Sound(a, Call(p, e)) /\ HandledBy(Call(p, e)) = {}
            /\ With(Call(p, e), x) \in AnyCall /\ Sound(a, With(Call(p, e), x))
            /\ HandledBy(With(Call(p, e), x)) = {}
      BY <1>4, <1>5, PlainCalls
    <3> QED BY <3>2 DEF OfEvents
  <2> QED BY <1>4, <2>1, PlainCalls
<1>8. \/ Go(a, <<g>>)
      \/ \E h \in Second : Go(a, <<h, g>>)
      \/ \E k \in First, h \in Second : Go(a, <<k, h, g>>)
  <2>1. CASE WhenAll(a)
    <3>1. CASE state[Antecedent(t)] = "Completed"
      BY <2>1, <3>1 DEF WhenAll, This
    <3>2. CASE state[Antecedent(t)] # "Completed"
      BY <2>1, <3>2 DEF WhenAll, This
    <3> QED BY <3>1, <3>2
  <2>2. CASE WhenAny(a)
    <3>2. CASE state[Antecedent(t)] = "Completed"
      BY <2>2, <3>2 DEF WhenAny, This
    <3>3. CASE state[Antecedent(t)] = "Canceled" /\ x # "none"
      BY <2>2, <3>3 DEF WhenAny, This
    <3>4. CASE state[Antecedent(t)] = "Canceled" /\ x = "none"
      BY <2>2, <3>4 DEF WhenAny, This
    <3> QED BY <1>5, <3>2, <3>3, <3>4 DEF Done, Outcome
  <2> QED BY <2>1, <2>2
<1> HIDE DEF First, Second
<1>9. PICK fs \in Seq(AnyCall) :
        /\ Go(a, fs) /\ Apart(fs) /\ g \in Values(fs)
        /\ \A h \in Values(fs) : h = g \/ (Sound(a, h) /\ HandledBy(h) = {})
  <2>1. CASE Go(a, <<g>>)
    BY <1>6, <2>1, Written
  <2>2. ASSUME NEW h \in Second, Go(a, <<h, g>>)
        PROVE  \E fs \in Seq(AnyCall) :
                /\ Go(a, fs) /\ Apart(fs) /\ g \in Values(fs)
                /\ \A k \in Values(fs) : k = g \/ (Sound(a, k) /\ HandledBy(k) = {})
    <3>1. h \in AnyCall /\ Sound(a, h) /\ HandledBy(h) = {}
      BY <1>7
    <3>2. /\ <<h, g>> \in Seq(AnyCall) /\ Values(<<h, g>>) = {h, g}
          /\ HandledBy(h) \cap HandledBy(g) = {} => Apart(<<h, g>>)
      BY <1>6, <3>1, Written
    <3> QED BY <2>2, <3>1, <3>2
  <2>3. ASSUME NEW k \in First, NEW h \in Second, Go(a, <<k, h, g>>)
        PROVE  \E fs \in Seq(AnyCall) :
                /\ Go(a, fs) /\ Apart(fs) /\ g \in Values(fs)
                /\ \A l \in Values(fs) : l = g \/ (Sound(a, l) /\ HandledBy(l) = {})
    <3>2. /\ <<k, h, g>> \in Seq(AnyCall) /\ Values(<<k, h, g>>) = {k, h, g}
          /\ Apart(<<k, h, g>>)
      BY <1>6, <1>7, ThreeCalls
    <3> QED BY <1>7, <2>3, <3>2
  <2> QED BY <1>8, <2>1, <2>2, <2>3
<1>13. \A u : AtTop(a, u) <=> \E h \in Values(fs) : u \in HandledBy(h)
  BY <1>1, <1>6, <1>9, TopFacts DEF HandledBy, Single
<1>14. \A u \in Tasks : ~TopIn(a, Runners(u)) /\ ~TopIn(a, Finals(u))
  BY <1>1, TopFacts
<1>15. \A h \in Values(fs) : Sound(a, h) /\ (h.at = "finalize" => BodyOf(h.of) # "unwrap")
  BY <1>1, <1>6, <1>9 DEF HandledBy, Single
<1> QED
  BY <1>2, <1>9, <1>13, <1>14, <1>15, CallsOnly DEF WhenAll, WhenAny, event, TasksInv, TasksTyped,
     FieldsTyped

-----------------------------------------------------------------------------
(* The actions that move tasks between the calls, the lists and the pool.     *)

LEMMA ListMove ==
    ASSUME TasksInv, NEW a \in Actors, NEW fs \in Seq(AnyCall), Turns(a, fs), TasksTyped',
           UNCHANGED <<program, todo, state, exc, armed>>,
           NEW M \in SUBSET Tasks, \A t \in M : ~Has(Handlers(t)),
           \A t \in M : Queued(t) \/ \E u \in Known : Unwraps(u, t) /\ ~Linked(u)',
           done' \subseteq Tasks, Apart(fs), \A g \in Values(fs) : Sound(a, g),
           \A t \in Tasks : Handles(fs, t) => Moved(a, M, t),
           \A t \in Known : Moved(a, M, t) => Handles(fs, t) \/ Queued(t)',
           \A t \in Known \ M : Queued(t) => Queued(t)',
           ListsChange(a, fs, M), RunnersChange(a, fs),
           \A t \in Tasks : ~TopIn(a, Finals(t)),
           \A u \in Known : BodyOf(u) = "unwrap" /\ SomeOf(fs, Finals(u)) => Info(u).other \in M
    PROVE  TasksInv'
  BY TasksStill, TasksAfter DEF TasksStep, CallsChange, PlacesChange, Linked

\* The list of tasks that wait for an event becomes the rest of a call.
LEMMA TakeWaiting ==
    ASSUME TasksInv, NEW a \in Actors, NEW h \in AnyCall, Turns(a, <<h>>), NEW e \in Events,
           stack[a] # <<>> =>
               HandledBy(stack[a][1]) = {} /\ stack[a][1].at \notin {"complete", "cancelled", "run"},
           h.at \in {"deliver", "fail"}, h.of = e, h.rest = waiting[e],
           waiting' = [waiting EXCEPT ![e] = <<>>], FieldsTyped',
           UNCHANGED <<program, todo, task, token, pool>>
    PROVE  TasksInv'
<1> DEFINE M == Values(waiting[e])
           fs == <<h>>
<1>1. waiting[e] \in Seq(Tasks) /\ WaitingSound(e) /\ \A x \in Events : WaitingSound(x)
  BY DEF TasksInv, TasksTyped, PlacesSound
<1>2. M \in SUBSET Tasks /\ Values(<<>>) = {} /\ NoRepeats(<<>>)
  BY <1>1, ListFacts
<1>3. fs \in Seq(AnyCall) /\ Values(fs) = {h} /\ Apart(fs)
  BY Written
<1>5. \A t \in M : ~Has(Handlers(t)) /\ WaitsFor(t, e)
  BY <1>1 DEF WaitingSound
<1>6. \A t \in M : Queued(t)
  BY <1>5 DEF WaitsFor, Queued
<1>7. Sound(a, h)
  BY <1>1, <1>5 DEF Sound, WaitingSound, OfEvents
<1>8. /\ \A t : Handles(fs, t) <=> t \in M
      /\ \A S : SomeOf(fs, S) => h \in S
  <2>1. /\ \A S : SomeOf(fs, S) <=> Values(fs) \cap S # {}
        /\ \A t : Handles(fs, t) <=> \E g \in Values(fs) : t \in HandledBy(g)
    BY <1>3, SomeAmong
  <2> QED BY <1>3, <2>1 DEF HandledBy, Single, Listing
<1>10. \A t : ~TopIn(a, Finals(t)) /\ ~TopIn(a, Runners(t))
  BY DEF TopIn, Finals, Runners, HandledBy, Single
<1> HIDE DEF fs, M
<1>11. \A x \in Events : waiting'[x] = IF x = e THEN <<>> ELSE waiting[x]
  BY DEF TasksInv, TasksTyped
<1>14. ListsChange(a, fs, M)
  <2>3. \A c \in pool' : c \in pool /\ (c.at = "start" => c.of \notin M)
    BY <1>5 DEF TasksInv, PlacesSound, PoolSound, Startable, WaitsFor
  <2> QED
    BY <1>1, <1>2, <1>5, <1>11, <2>3 DEF ListsChange, WaitingSound, TasksInv, PlacesSound,
       ContsSound, Follows, task, WaitsFor
<1>15. UNCHANGED <<program, todo, state, exc, armed, conts, done, pool, cancelled>>
  BY DEF task, token
<1>17. \A t \in Known \ M : Queued(t) => Queued(t)'
  <2>1. ASSUME NEW t \in Known \ M, Info(t).from = "event", t \in Values(waiting[Info(t).of])
        PROVE  t \in Values(waiting'[Info(t).of])
    BY <1>11, <2>1, ProgramFacts DEF M, TasksInv, TasksTyped
  <2> QED BY <1>15, <2>1 DEF Queued, Info, Antecedent
<1>18. TasksTyped'
  BY <1>3, <1>15, Turned, EmptySeq DEF TasksInv, TasksTyped, fs
<1>19. \A u \in Known : SomeOf(fs, Finals(u)) => FALSE
  BY <1>8 DEF Finals
<1>21. Turns(a, fs)
  BY DEF fs
<1> QED
  BY <1>2, <1>3, <1>5, <1>6, <1>7, <1>8, <1>10, <1>14, <1>15, <1>17, <1>18, <1>19, <1>21, ListMove
     DEF Moved, AtTop, TopIn, Handlers, TasksInv, StatesSound, RunnersChange, DoneSound, Done

LEMMA SetTasks ==
    ASSUME TasksInv, NEW a \in Actors, Set(a) \/ CancelEvent(a)
    PROVE  TasksInv'
<1> PICK f : f = stack[a][1]
  OBVIOUS
<1> PICK e : e = f.of
  OBVIOUS
<1>1. stack[a] # <<>> /\ f.at \in {"set", "cancelEvent"} /\ f.at \in OfEvents
  BY DEF Set, CancelEvent, Top, OfEvents
<1>2. f \in AnyCall /\ e \in Events /\ \A fs : Go(a, fs) => Turns(a, fs)
  BY <1>1, TopFacts DEF Sound
<1>4. FieldsTyped' /\ UNCHANGED <<program, todo, task, token, pool>>
  BY <1>2 DEF Set, CancelEvent, This, TasksInv, TasksTyped, FieldsTyped
<1>5. CASE Go(a, <<>>) /\ UNCHANGED waiting
  BY <1>1, <1>2, <1>4, <1>5, NoCalls, NoTask DEF HandledBy, Single, Listing
<1>6. CASE ~(Go(a, <<>>) /\ UNCHANGED waiting)
  <2> PICK h : /\ h \in {[Call("deliver", e) EXCEPT !.rest = waiting[e]],
                         [With(Call("fail", e), stored[e]) EXCEPT !.rest = waiting[e]]}
               /\ Go(a, <<h>>) /\ waiting' = [waiting EXCEPT ![e] = <<>>]
    BY <1>6 DEF Set, CancelEvent, This
  <2>1. waiting[e] \in Seq(Tasks) /\ stored[e] \in Exceptions \cup {"none"}
    BY <1>2 DEF TasksInv, TasksTyped, FieldsTyped
  <2>2. h \in AnyCall /\ h.at \in {"deliver", "fail"} /\ h.of = e /\ h.rest = waiting[e]
    BY <1>2, <2>1 DEF AnyCall, Call, With, Points
  <2> QED BY <1>1, <1>2, <1>4, <2>2, TakeWaiting DEF HandledBy, Single, Listing
<1> QED BY <1>5, <1>6

LEMMA AbandonTasks ==
    ASSUME TasksInv, NEW s \in Setters, Abandon(s)
    PROVE  TasksInv'
<1> PICK e : e = program.target[s]
  OBVIOUS
<1>1. s \in Actors /\ stack[s] = <<>> /\ e \in Events
  BY DEF Abandon, Actors
<1> PICK h : h = [Call("fail", e) EXCEPT !.rest = waiting[e]]
  OBVIOUS
<1>3. h \in AnyCall /\ h.at \in {"deliver", "fail"} /\ h.of = e /\ h.rest = waiting[e]
  BY <1>1 DEF AnyCall, Call, Points, TasksInv, TasksTyped
<1>4. Turns(s, <<h>>)
  BY <1>1, <1>3, Written, ConcatEmptySeq DEF Turns, Below, Abandon
<1> QED BY <1>1, <1>3, <1>4, TakeWaiting DEF Abandon, TasksInv, TasksTyped, FieldsTyped

\* A worker takes from the pool.
LEMMA WorkTasks ==
    ASSUME TasksInv, NEW a \in Actors, Work(a)
    PROVE  TasksInv'
<1>1. stack[a] = <<>>
  BY DEF Work, Idle
<1> PICK c \in pool : pool' = pool \ {c} /\ stack' = [stack EXCEPT ![a] = <<c>>]
  BY DEF Work
<1>2. /\ c \in AnyCall /\ c = Call(c.at, c.of) /\ c.of \in Known /\ c.at \in {"start", "run"}
      /\ PoolSound(c) /\ Known \subseteq Tasks
  BY ProgramFacts DEF TasksInv, TasksTyped, PlacesSound, PoolSound
<1> DEFINE M == IF c.at = "start" THEN {c.of} ELSE {}
           fs == <<c>>
<1>3. UNCHANGED <<program, todo, state, exc, armed, conts, done, waiting, cancelled, hasValue, isCanceled,
                  stored, unused>>
  BY DEF Work, task, token, event
<1>4. fs \in Seq(AnyCall) /\ Values(fs) = {c} /\ Apart(fs) /\ Turns(a, fs)
  BY <1>1, <1>2, Written, ConcatEmptySeq DEF Turns, Below
<1>6. /\ \A t : Handles(fs, t) <=> t \in M
      /\ \A S : SomeOf(fs, S) <=> c \in S
  <2>1. /\ \A S : SomeOf(fs, S) <=> Values(fs) \cap S # {}
        /\ \A t : Handles(fs, t) <=> \E g \in Values(fs) : t \in HandledBy(g)
    BY <1>4, SomeAmong
  <2> QED BY <1>2, <1>4, <2>1, CallFacts DEF HandledBy, Single, Listing
<1>7. \A S : ~TopIn(a, S)
  BY <1>1 DEF TopIn
<1>9. \A t \in M : t \in Known /\ ~Has(Handlers(t)) /\ Queued(t) /\ c = Call("start", t)
  BY <1>2 DEF PoolSound, Queued
<1>10. ListsChange(a, fs, M)
  BY <1>2, <1>3 DEF ListsChange, TasksInv, PlacesSound, WaitingSound, WaitsFor, PoolSound,
     Startable, ContsSound, Follows
<1>11. RunnersChange(a, fs)
  <2>2. \A x \in Tasks : Call("run", x) \in pool => Call("run", x) \in pool' \/ c \in Runners(x)
    BY <1>2 DEF Runners, Call
  <2> QED BY <1>3, <1>6, <1>7, <2>2 DEF RunnersChange, TasksInv, StatesSound, DoneSound, Done
<1>12. \A t \in Known \ M : Queued(t) => Queued(t)'
  BY <1>3 DEF Queued, Info, Antecedent, Call
<1>13. TasksTyped'
  BY <1>3, <1>4, Turned DEF TasksInv, TasksTyped, FieldsTyped
<1> HIDE DEF M, fs
<1>20. \A g \in Values(fs) : Sound(a, g)
  BY <1>2, <1>4 DEF Sound, PoolSound, OfEvents, Call, NoRepeats
<1>21. UNCHANGED <<program, todo, state, exc, armed>>
  BY <1>3
<1> QED
  BY <1>2, <1>3, <1>4, <1>6, <1>7, <1>9, <1>10, <1>11, <1>12, <1>13, <1>20, <1>21, ListMove DEF
     Moved, AtTop, Finals, TasksInv, StatesSound

LEMMA CompleteTasks ==
    ASSUME TasksInv, NEW a \in Actors, Complete(a)
    PROVE  TasksInv'
<1> PICK f : f = stack[a][1]
  OBVIOUS
<1> PICK t : t = f.of
  OBVIOUS
<1>1. stack[a] # <<>> /\ f.at \in {"complete", "run"}
  BY DEF Complete, Top
<1>2. /\ f \in AnyCall /\ Sound(a, f) /\ \A fs : Go(a, fs) => Turns(a, fs)
      /\ \A u : TopIn(a, Finals(u)) <=> f.at = "finalize" /\ f.of = u
      /\ \A u : AtTop(a, u) <=> u \in HandledBy(f)
      /\ \A u : TopIn(a, Runners(u)) <=> f.at \in {"complete", "cancelled", "run"} /\ f.of = u
  BY <1>1, TopFacts
<1>3. t \in Known /\ Done(t) /\ Known \subseteq Tasks
  BY <1>1, <1>2, ProgramFacts DEF Sound, Done, Outcome, TasksInv, TasksTyped
<1> PICK h : h = [Call("continue", t) EXCEPT !.rest = conts[t]]
  OBVIOUS
<1> DEFINE M == Values(conts[t])
           fs == <<h>>
<1>4. /\ Turns(a, fs) /\ done' = done \cup {t} /\ conts' = [conts EXCEPT ![t] = <<>>]
      /\ UNCHANGED <<program, todo, state, exc, armed, cancelled, waiting, hasValue, isCanceled,
                     stored, unused, pool>>
  BY <1>2 DEF Complete, This, token, event
<1>5. conts[t] \in Seq(Tasks) /\ ContsSound(t) /\ \A x \in Tasks : ContsSound(x)
  BY <1>3 DEF TasksInv, TasksTyped, PlacesSound
<1>6. h \in AnyCall /\ h.at = "continue" /\ h.of = t /\ h.rest = conts[t]
  BY <1>3, <1>5 DEF AnyCall, Call, Points
<1>7. M \in SUBSET Tasks /\ Values(<<>>) = {} /\ NoRepeats(<<>>)
  BY <1>5, ListFacts
<1>8. fs \in Seq(AnyCall) /\ Values(fs) = {h} /\ Apart(fs)
  BY <1>6, Written
<1>9. HandledBy(h) = M /\ HandledBy(f) = {}
  BY <1>1, <1>6 DEF HandledBy, Single, Listing
<1>10. \A u \in M : Follows(u, t) /\ ~Has(Handlers(u))
  BY <1>5 DEF ContsSound
<1>11. \A u \in M : Queued(u)
  BY <1>10 DEF Follows, Queued
<1>13. /\ \A u : Handles(fs, u) <=> u \in M
       /\ \A S : SomeOf(fs, S) => h \in S
  <2>1. /\ \A S : SomeOf(fs, S) <=> Values(fs) \cap S # {}
        /\ \A u : Handles(fs, u) <=> \E g \in Values(fs) : u \in HandledBy(g)
    BY <1>8, SomeAmong
  <2> QED BY <1>8, <1>9, <2>1
<1>14. \A u : ~AtTop(a, u) /\ ~TopIn(a, Finals(u)) /\ (TopIn(a, Runners(u)) => u = t)
  BY <1>1, <1>2, <1>9
<1>15. \A x \in Tasks : conts'[x] = IF x = t THEN <<>> ELSE conts[x]
  BY <1>4 DEF TasksInv, TasksTyped
<1> HIDE DEF M, fs
<1>16. ListsChange(a, fs, M)
  BY <1>4, <1>5, <1>7, <1>10, <1>15 DEF ListsChange, ContsSound, Follows, TasksInv, PlacesSound,
     WaitingSound, WaitsFor, PoolSound, M
<1>18. \A u \in Known \ M : Queued(u) => Queued(u)'
  <2>1. ASSUME NEW u \in Known \ M, Info(u).from = "then", u \in Values(conts[Antecedent(u)])
        PROVE  u \in Values(conts'[Antecedent(u)])
    BY <1>3, <1>15, <2>1, AntecedentBuilt DEF M, TasksInv, TasksTyped
  <2> QED BY <1>4, <2>1 DEF Queued, Info, Antecedent
<1>19. TasksTyped'
  BY <1>4, <1>8, Turned, EmptySeq DEF TasksInv, TasksTyped, FieldsTyped
<1>20. \A u \in Known : SomeOf(fs, Finals(u)) => FALSE
  BY <1>6, <1>13 DEF Finals
<1>25. \A g \in Values(fs) : Sound(a, g)
  BY <1>3, <1>5, <1>6, <1>8, <1>10 DEF Sound, ContsSound, OfEvents
<1> QED
  BY <1>3, <1>4, <1>7, <1>8, <1>10, <1>11, <1>13, <1>14, <1>15, <1>16, <1>18, <1>19, <1>20, <1>25,
     ListMove DEF Moved, TasksInv, StatesSound, RunnersChange, DoneSound, Done

LEMMA CancelledTasks ==
    ASSUME TasksInv, NEW a \in Actors, Cancelled(a)
    PROVE  TasksInv'
<1> PICK f : f = stack[a][1]
  OBVIOUS
<1> PICK t : t = f.of
  OBVIOUS
<1>1. stack[a] # <<>> /\ f.at = "cancelled"
  BY DEF Cancelled, Top
<1>2. /\ f \in AnyCall /\ Sound(a, f) /\ \A fs : Go(a, fs) => Turns(a, fs)
      /\ \A u : TopIn(a, Finals(u)) <=> f.at = "finalize" /\ f.of = u
      /\ \A u : AtTop(a, u) <=> u \in HandledBy(f)
      /\ \A u : TopIn(a, Runners(u)) <=> f.at \in {"complete", "cancelled", "run"} /\ f.of = u
  BY <1>1, TopFacts
<1>3. t \in Known /\ state[t] = "Canceled" /\ Done(t) /\ Known \subseteq Tasks
  BY <1>1, <1>2, ProgramFacts DEF Sound, Done, Outcome, TasksInv, TasksTyped
<1> DEFINE M == {}
           fs == <<>>
<1>4. /\ Turns(a, fs) /\ done' = done \cup {t}
      /\ pool' = IF conts[t] = <<>> THEN pool ELSE pool \cup {Call("run", t)}
      /\ UNCHANGED <<program, todo, state, exc, armed, cancelled, waiting, hasValue, isCanceled,
                     stored, unused, conts>>
  BY <1>2 DEF Cancelled, This, token, event
<1>5. fs \in Seq(AnyCall) /\ Values(fs) = {} /\ Apart(fs)
  BY NoCalls
<1>8. \A u : ~AtTop(a, u) /\ ~TopIn(a, Finals(u)) /\ (TopIn(a, Runners(u)) => u = t)
  BY <1>1, <1>2 DEF HandledBy, Single, Listing
<1>9. Call("run", t) \in AnyCall /\ Call("run", t).at = "run" /\ Call("run", t).of = t
  BY <1>3, CallFacts DEF Points
<1> HIDE DEF fs
<1>10. ListsChange(a, fs, M)
  BY <1>3, <1>4, <1>9 DEF ListsChange, TasksInv, PlacesSound, ContsSound, WaitingSound
<1>11. RunnersChange(a, fs)
  BY <1>3, <1>4, <1>8 DEF RunnersChange, TasksInv, StatesSound, DoneSound, Done
<1>13. TasksTyped'
  BY <1>4, <1>5, <1>9, Turned DEF TasksInv, TasksTyped, FieldsTyped
<1> QED
  BY <1>3, <1>4, <1>5, <1>8, <1>10, <1>11, <1>13, SomeAmong, ListMove DEF Moved, Handles, Queued,
     Info, Antecedent, TasksInv, StatesSound

\* The unwrapping goes on with the task that returned its antecedent.
LEMMA UnwrapTasks ==
    ASSUME TasksInv, NEW a \in Actors, Unwrap(a)
    PROVE  TasksInv'
<1> PICK f : f = stack[a][1]
  OBVIOUS
<1> PICK t : t = f.of
  OBVIOUS
<1> PICK o : o = Info(t).other
  OBVIOUS
<1> PICK x : x = exc[Antecedent(t)]
  OBVIOUS
<1>1. stack[a] # <<>> /\ f.at = "perform" /\ BodyOf(t) = "unwrap"
  BY DEF Unwrap, Top, This, BodyOf
<1>2. /\ f \in AnyCall /\ Sound(a, f) /\ \A fs : Go(a, fs) => Turns(a, fs)
      /\ \A u : TopIn(a, Finals(u)) <=> f.at = "finalize" /\ f.of = u
      /\ \A u : AtTop(a, u) <=> u \in HandledBy(f)
      /\ \A u : TopIn(a, Runners(u)) <=> f.at \in {"complete", "cancelled", "run"} /\ f.of = u
  BY <1>1, TopFacts
<1>3. Performs(t) /\ t \in Known /\ program \in Programs /\ Known \subseteq Tasks
  BY <1>1, <1>2, ProgramFacts DEF Sound, Performs, TasksInv, TasksTyped
<1>4. /\ o \in Known /\ BodyOf(o) = "task" /\ Info(o).other = t /\ o # t /\ Unwraps(t, o)
      /\ Info(t).from = "then" /\ Info(o).from # "event"
  BY <1>1, <1>3, ProgramFacts DEF Unwraps
<1>5. x \in Exceptions \cup {"none"}
  BY <1>3, <1>4, AntecedentBuilt DEF TasksInv, TasksTyped
<1>7. Linked(t)
  <2>1. ~Has(Finals(t))
    <3>1. SUFFICES ASSUME Has(Finals(t))
                   PROVE  FALSE
      OBVIOUS
    <3>2. PICK b \in Actors : \E i \in 1..Len(stack[b]) : stack[b][i] \in Finals(t)
      BY <3>1 DEF Has
    <3>3. PICK i \in 1..Len(stack[b]) : stack[b][i] \in Finals(t)
      BY <3>2
    <3>4. Finals(t) \subseteq Handlers(t) /\ f \in Handlers(t) /\ f \notin Finals(t)
      BY <1>1, <1>2 DEF Finals, Handlers, HandledBy, Single
    <3>5. 1 \in 1..Len(stack[a])
      BY <1>1, EmptySeq, LenProperties DEF TasksInv, TasksTyped, StacksTyped
    <3> QED BY <1>3, <3>3, <3>4, <3>5 DEF Sole, TasksInv, PlacesSound, HandledOnce
  <2> QED BY <1>3, <2>1 DEF Linked, Performs, Alive
<1>9. Finishes(o) /\ Fails(o, x) /\ Finishes(t) /\ t \in Tasks /\ o \in Tasks
  BY <1>3, <1>4, <1>7 DEF Finishes, Fails, Performs, Alive, MayRun, TasksInv, LinksSound
<1> PICK g : g = Call("finalize", t)
  OBVIOUS
<1> PICK h : h \in {Call("finalize", o), Cancelling(o, x)} /\ Go(a, <<h, g>>)
  BY DEF Unwrap, This
<1>10. /\ g \in AnyCall /\ HandledBy(g) = {t} /\ g.at = "finalize" /\ g.of = t
       /\ h \in AnyCall /\ HandledBy(h) = {o} /\ h.of = o
  BY <1>5, <1>9, CallFacts DEF Points, Single
<1>11. Sound(a, g) /\ Sound(a, h)
  <2>1. /\ \A u \in Tasks : Finishes(u) => Sound(a, Call("finalize", u))
        /\ \A u \in Tasks : Fails(u, x) => Sound(a, Cancelling(u, x))
    BY <1>5, SoundCalls
  <2> QED BY <1>9, <2>1
<1> DEFINE M == {o}
           fs == <<h, g>>
<1>12. /\ fs \in Seq(AnyCall) /\ Values(fs) = {h, g} /\ Apart(fs)
  BY <1>4, <1>10, TwoCalls
<1> HIDE DEF fs
<1>13. /\ Turns(a, fs)
       /\ UNCHANGED <<program, todo, state, exc, armed, cancelled, waiting, hasValue, isCanceled,
                      stored, unused, conts, pool, done>>
  BY <1>2 DEF Unwrap, This, token, event, task, fs
<1>14. /\ \A u : Handles(fs, u) <=> u \in {o, t}
       /\ \A S : SomeOf(fs, S) <=> g \in S \/ h \in S
  BY <1>10, <1>12, SomeAmong
<1>15. /\ \A u : AtTop(a, u) <=> u = t
       /\ \A u : ~TopIn(a, Finals(u)) /\ ~TopIn(a, Runners(u))
  BY <1>1, <1>2 DEF HandledBy, Single
<1>16. ~Has(Handlers(o)) /\ ~Queued(o)
  BY <1>3, <1>4, <1>7 DEF Located, TasksInv, LinksSound
<1>17. ListsChange(a, fs, M)
  <2>1. \A v \in Tasks : NoRepeats(conts'[v]) /\ \A u \in Values(conts'[v]) : u \in Values(conts[v]) \ M
    BY <1>13, <1>16 DEF TasksInv, PlacesSound, ContsSound, Follows, Queued
  <2>2. \A v \in Events : NoRepeats(waiting'[v]) /\ \A u \in Values(waiting'[v]) : u \in Values(waiting[v]) \ M
    BY <1>13, <1>16 DEF TasksInv, PlacesSound, WaitingSound, WaitsFor, Queued
  <2>3. \A c \in pool' : c \in pool /\ (c.at = "start" => c.of \notin M)
    BY <1>13, <1>16 DEF TasksInv, PlacesSound, PoolSound, Queued
  <2> QED BY <2>1, <2>2, <2>3 DEF ListsChange
<1>20. TasksTyped'
  BY <1>12, <1>13, Turned DEF TasksInv, TasksTyped, FieldsTyped
<1>21. done' \subseteq Tasks /\ M \in SUBSET Tasks /\ UNCHANGED <<program, todo, state, exc, armed>>
  BY <1>9, <1>13 DEF TasksInv, StatesSound
<1>24. \A u \in M : Queued(u) \/ \E v \in Known : Unwraps(v, u) /\ ~Linked(v)'
  <2>2. Has(Finals(t))'
    BY <1>10, <1>12, <1>13, <1>14, TurnedHas DEF TasksInv, TasksTyped, Finals
  <2> QED BY <1>3, <1>4, <2>2 DEF Linked
<1>25. \A u \in Known : BodyOf(u) = "unwrap" /\ SomeOf(fs, Finals(u)) => Info(u).other \in M
  BY <1>4, <1>10, <1>14 DEF Finals
<1>26. \A k \in Values(fs) : Sound(a, k)
  BY <1>11, <1>12
<1>27. \A u \in M : ~Has(Handlers(u))
  BY <1>16
<1> QED
  BY <1>12, <1>13, <1>14, <1>15, <1>17, <1>20, <1>21, <1>24, <1>25, <1>26, <1>27, ListMove DEF
     Moved, Queued, Info, Antecedent, RunnersChange, TasksInv, StatesSound, DoneSound, Done

\* The innermost call gives its task t, or the first of its list, to the pool.
LEMMA ToPool ==
    ASSUME TasksInv, NEW a \in Actors, NEW fs \in Seq(AnyCall), Turns(a, fs),
           NEW t \in Known, Startable(t), ~Info(t).inline, Info(t).from = "then",
           pool' = pool \cup {Call("start", t)}, FieldsTyped',
           UNCHANGED <<program, todo, task, token, waiting>>,
           Apart(fs), \A g \in Values(fs) : Sound(a, g) /\ g.at # "finalize",
           \A u : AtTop(a, u) <=> u = t \/ \E g \in Values(fs) : u \in HandledBy(g),
           \A g \in Values(fs) : t \notin HandledBy(g),
           \A u \in Tasks : ~TopIn(a, Runners(u)) /\ ~TopIn(a, Finals(u))
    PROVE  TasksInv'
<1> DEFINE M == {}
<1>1. program \in Programs /\ Known \subseteq Tasks /\ t \in Tasks
  BY ProgramFacts DEF TasksInv, TasksTyped
<1>2. Call("start", t) \in AnyCall /\ Call("start", t).at = "start" /\ Call("start", t).of = t
  BY <1>1, CallFacts DEF Points
<1>3. UNCHANGED <<program, todo, state, exc, armed, conts, done, cancelled, waiting>>
  BY DEF task, token
<1>4. /\ \A u : Handles(fs, u) <=> \E g \in Values(fs) : u \in HandledBy(g)
      /\ \A S : SomeOf(fs, S) <=> Values(fs) \cap S # {}
  BY SomeAmong
<1>6. Has(Handlers(t))
  BY <1>4, EmptySeq, LenProperties DEF AtTop, TopIn, Has, TasksInv, TasksTyped, StacksTyped,
     Arrives, Moved
<1>8. /\ Startable(t)'
      /\ \A u : Done(u)' = Done(u)
  BY <1>3 DEF Done, Startable, MayRun, Unbegun, Fresh, Known, Info, Antecedent, Based, BodyOf
<1>9. ListsChange(a, fs, M)
  BY <1>1, <1>2, <1>3, <1>4, <1>6, <1>8, AntecedentBuilt DEF ListsChange, TasksInv, PlacesSound,
     ContsSound, WaitingSound, Arrives, Moved
<1>10. RunnersChange(a, fs)
  BY <1>3, <1>8 DEF RunnersChange, TasksInv, StatesSound, DoneSound
<1>13. TasksTyped'
  BY <1>2, <1>3, Turned DEF TasksInv, TasksTyped
<1>14. done' \subseteq Tasks /\ M \in SUBSET Tasks /\ UNCHANGED <<program, todo, state, exc, armed>>
  BY <1>3 DEF TasksInv, StatesSound
<1>16. \A u \in Known : Moved(a, M, u) => Handles(fs, u) \/ Queued(u)'
  BY <1>4 DEF Moved, Queued
<1>18. \A u \in M : ~Has(Handlers(u)) /\ (Queued(u) \/ \E v \in Known : Unwraps(v, u) /\ ~Linked(v)')
  OBVIOUS
<1> HIDE DEF M
<1> QED
  BY <1>3, <1>4, <1>9, <1>10, <1>13, <1>14, <1>16, <1>18, ListMove DEF Moved, Finals, Queued,
     Info, Antecedent

LEMMA ScheduleTasks ==
    ASSUME TasksInv, NEW a \in Actors, Schedule(a)
    PROVE  TasksInv'
<1> PICK f : f = stack[a][1]
  OBVIOUS
<1> PICK t : t = f.of
  OBVIOUS
<1> PICK x : x = Antecedent(t)
  OBVIOUS
<1>1. stack[a] # <<>> /\ f.at = "schedule"
  BY DEF Schedule, Top
<1>2. /\ f \in AnyCall /\ Sound(a, f) /\ \A fs : Go(a, fs) => Turns(a, fs)
      /\ \A u : TopIn(a, Finals(u)) <=> f.at = "finalize" /\ f.of = u
      /\ \A u : AtTop(a, u) <=> u \in HandledBy(f)
      /\ \A u : TopIn(a, Runners(u)) <=> f.at \in {"complete", "cancelled", "run"} /\ f.of = u
  BY <1>1, TopFacts
<1>3. Schedules(t) /\ t \in Known /\ program \in Programs
  BY <1>1, <1>2 DEF Sound, Schedules, TasksInv, TasksTyped
<1>4. Follows(t, x) /\ t \in Tasks /\ Info(t).from = "then" /\ x \in Tasks
  BY <1>3, NextCalls, AntecedentBuilt, ProgramFacts DEF Schedules
<1>5. HandledBy(f) = {t}
  BY <1>1 DEF HandledBy, Single
<1>6. UNCHANGED <<program, todo, state, exc, done, token, waiting>> /\ FieldsTyped'
  BY DEF Schedule, event, TasksInv, TasksTyped, FieldsTyped
<1>7. \A u : ~TopIn(a, Runners(u)) /\ ~TopIn(a, Finals(u))
  BY <1>1, <1>2
<1>8. CASE state[x] = "Completed" \/ (state[x] = "Canceled" /\ Based(t))
  <2>1. Dispatch(a, t, <<>>) /\ UNCHANGED conts
    BY <1>8 DEF Schedule, This, Done, Outcome
  <2>2. Startable(t)
    BY <1>3, <1>4, <1>8, NextCalls DEF Done, Outcome
  <2>3. CASE Info(t).inline
    <3> PICK g : g = Call("start", t)
      OBVIOUS
    <3>1. g \in AnyCall /\ g.of = t /\ g.at = "start" /\ g.at \in Single /\ Sound(a, g)
      <4>1. Startable(t) => Sound(a, Call("start", t))
        BY <1>4, SoundCalls
      <4> QED BY <1>4, <2>2, <4>1, CallFacts DEF Points, Single
    <3> QED
      BY <1>1, <1>6, <2>1, <2>3, <3>1, Written, ConcatEmptySeq, HandOn DEF task, Single, Dispatch
  <2>4. CASE ~Info(t).inline
    <3>3. <<>> \in Seq(AnyCall) /\ Values(<<>>) = {} /\ Apart(<<>>) /\ Turns(a, <<>>)
      BY <1>2, <2>1, <2>4, NoCalls DEF Dispatch
    <3>4. \A u : AtTop(a, u) <=> u = t \/ \E g \in Values(<<>>) : u \in HandledBy(g)
      BY <1>2, <1>5, <3>3
    <3> QED BY <1>3, <1>4, <1>6, <1>7, <2>1, <2>2, <2>4, <3>3, <3>4, ToPool DEF task, Dispatch
  <2> QED BY <2>3, <2>4
<1>9. CASE state[x] = "Canceled" /\ ~Based(t)
  <2> PICK y : y = exc[x]
    OBVIOUS
  <2>2. Fails(t, y) /\ y \in Exceptions \cup {"none"}
    BY <1>3, <1>4, <1>9, NextCalls DEF TasksInv, TasksTyped
  <2> PICK g : g = Cancelling(t, y)
    OBVIOUS
  <2>3. g \in AnyCall /\ g.of = t /\ g.at = "cancel" /\ g.at \in Single /\ Sound(a, g)
    <3>1. Fails(t, y) => Sound(a, Cancelling(t, y))
      BY <1>4, <2>2, SoundCalls
    <3> QED BY <1>4, <2>2, <3>1, CallFacts DEF Points, Single
  <2> QED BY <1>1, <1>6, <1>9, <2>3, HandOn DEF task, Schedule, This, Done, Outcome, Single
<1>10. CASE ~Done(x)
  <2>1. conts' = [conts EXCEPT ![x] = <<t>> \o @] /\ Go(a, <<>>) /\ UNCHANGED pool
    BY <1>10 DEF Schedule, This, Done, Outcome
  <2> DEFINE M == {}
             fs == <<>>
  <2>2. fs \in Seq(AnyCall) /\ Values(fs) = {} /\ Apart(fs) /\ Turns(a, fs)
    BY <1>2, <2>1, NoCalls
  <2> HIDE DEF fs
  <2>4. \A u : AtTop(a, u) <=> u = t
    BY <1>2, <1>5
  <2>5. Has(Handlers(t))
    <3>1. 1 \in 1..Len(stack[a])
      BY <1>1, EmptySeq, LenProperties DEF TasksInv, TasksTyped, StacksTyped
    <3> QED BY <2>4, <3>1 DEF AtTop, TopIn, Has
  <2>7. /\ <<t>> \o conts[x] \in Seq(Tasks) /\ <<t>> \o conts[x] # <<>>
        /\ Values(<<t>> \o conts[x]) = {t} \cup Values(conts[x]) /\ NoRepeats(<<t>> \o conts[x])
    BY <1>4, <2>5, ListFront DEF ContsSound, TasksInv, TasksTyped, PlacesSound
  <2>8. \A z \in Tasks : conts'[z] = IF z = x THEN <<t>> \o conts[x] ELSE conts[z]
    BY <2>1 DEF TasksInv, TasksTyped
  <2>9. Follows(t, x)' /\ \A u : Done(u)' = Done(u)
    BY <1>4, <1>6 DEF Follows, Fresh, Unbegun, Known, Info, Antecedent, BodyOf, Done
  <2>11. ListsChange(a, fs, M)
    <3>1. ASSUME NEW z \in Tasks
          PROVE  NoRepeats(conts'[z]) /\ \A u \in Values(conts'[z]) :
                    u \in Values(conts[z]) \/ (u = t /\ z = x)
      BY <2>7, <2>8 DEF TasksInv, PlacesSound, ContsSound
    <3>2. ASSUME NEW z \in Tasks
          PROVE  NoRepeats(conts'[z]) /\ \A u \in Values(conts'[z]) :
                    (u \in Values(conts[z]) \ M) \/ (Arrives(a, fs, M, u) /\ Follows(u, z)')
      BY <2>2, <2>4, <2>9, <3>1, SomeAmong DEF Arrives, Moved, Handles
    <3> QED BY <1>6, <2>1, <3>2 DEF ListsChange, TasksInv, PlacesSound, WaitingSound
  <2>12. RunnersChange(a, fs)
    BY <1>6, <1>7, <1>10, <2>1, <2>8, <2>9 DEF RunnersChange, TasksInv, StatesSound, DoneSound
  <2>13. ASSUME NEW u \in Known, Queued(u)
         PROVE  Queued(u)'
    <3>1. CASE Info(u).from = "then" /\ u \in Values(conts[Antecedent(u)])
      BY <1>3, <1>6, <2>7, <2>8, <3>1, AntecedentBuilt, ProgramFacts DEF Queued, Info, Antecedent
    <3>2. CASE ~(Info(u).from = "then" /\ u \in Values(conts[Antecedent(u)]))
      BY <1>6, <2>1, <2>13, <3>2 DEF Queued, Info, Antecedent
    <3> QED BY <3>1, <3>2
  <2>14. Queued(t)'
    BY <1>4, <1>6, <2>7, <2>8 DEF Queued, Info, Antecedent
  <2>15. TasksTyped'
    BY <1>6, <2>1, <2>2, <2>7, Turned DEF TasksInv, TasksTyped, token
  <2> QED
    BY <1>6, <1>7, <2>2, <2>4, <2>11, <2>12, <2>13, <2>14, <2>15, SomeAmong, ListMove DEF
       TasksInv, StatesSound, token, Handles, Moved
<1> QED BY <1>8, <1>9, <1>10 DEF Done, Outcome

LEMMA ContinueTasks ==
    ASSUME TasksInv, NEW a \in Actors, Continue(a)
    PROVE  TasksInv'
<1> PICK f : f = stack[a][1]
  OBVIOUS
<1> PICK x : x = f.of
  OBVIOUS
<1>1. stack[a] # <<>> /\ f.at = "continue"
  BY DEF Continue, Top
<1>2. /\ f \in AnyCall /\ Sound(a, f) /\ \A fs : Go(a, fs) => Turns(a, fs)
      /\ \A u : TopIn(a, Finals(u)) <=> f.at = "finalize" /\ f.of = u
      /\ \A u : AtTop(a, u) <=> u \in HandledBy(f)
      /\ \A u : TopIn(a, Runners(u)) <=> f.at \in {"complete", "cancelled", "run"} /\ f.of = u
  BY <1>1, TopFacts
<1>3. UNCHANGED <<program, todo, task, token, waiting>> /\ FieldsTyped'
  BY DEF Continue, event, TasksInv, TasksTyped, FieldsTyped
<1>4. /\ f.rest \in Seq(Tasks) /\ NoRepeats(f.rest) /\ Done(x) /\ x \in Tasks
      /\ \A u \in Values(f.rest) : Follows(u, x)
  BY <1>1, <1>2, ProgramFacts DEF AnyCall, Sound, TasksInv, TasksTyped
<1>5. CASE f.rest = <<>>
  <2>1. Go(a, <<>>) /\ UNCHANGED pool
    BY <1>5 DEF Continue, This
  <2>2. HandledBy(f) = {} /\ f.at \notin {"complete", "cancelled", "run"}
    BY <1>1, <1>5 DEF HandledBy, Single, Listing, Values
  <2>3. <<>> \in Seq(AnyCall) /\ Values(<<>>) = {}
    BY NoCalls
  <2> QED BY <1>1, <1>2, <1>3, <2>1, <2>2, <2>3, NoTask
<1>6. CASE f.rest # <<>>
  <2> PICK t : t = Head(f.rest)
    OBVIOUS
  <2> PICK h : h = [f EXCEPT !.rest = Tail(f.rest)]
    OBVIOUS
  <2>1. /\ Tail(f.rest) \in Seq(Tasks) /\ t \in Tasks
        /\ Values(f.rest) = {t} \cup Values(Tail(f.rest))
        /\ t \notin Values(Tail(f.rest)) /\ NoRepeats(Tail(f.rest))
    BY <1>4, <1>6, ListTail
  <2>2. Follows(t, x) /\ t \in Known /\ Info(t).from = "then"
    BY <1>4, <2>1 DEF Follows
  <2>3. f.at \in Listing
    BY <1>1 DEF Listing
  <2>6. h \in AnyCall
    BY <1>2, <2>1 DEF AnyCall
  <2>4. CASE state[x] = "Canceled" /\ ~Based(t)
    <3> PICK y : y = exc[x]
      OBVIOUS
    <3> PICK g : g = Cancelling(t, y)
      OBVIOUS
    <3>1. Go(a, <<g>> \o <<h>>) /\ UNCHANGED pool
      BY <1>6, <2>4 DEF Continue, This
    <3>2. Fails(t, y) /\ y \in Exceptions \cup {"none"}
      BY <1>4, <2>2, <2>4, NextCalls DEF TasksInv, TasksTyped
    <3>3. g \in AnyCall /\ g.of = t /\ g.at = "cancel" /\ g.at \in Single /\ Sound(a, g)
      <4>1. Fails(t, y) => Sound(a, Cancelling(t, y))
        BY <2>1, <3>2, SoundCalls
      <4>2. "cancel" \in Points /\ "cancel" \in Single /\ t \in Tasks \cup Events
        BY <2>1 DEF Points, Single
      <4>3. g \in AnyCall /\ g.of = t /\ g.at = "cancel"
        BY <3>2, <4>2, CallFacts
      <4>4. Sound(a, g)
        BY <3>2, <4>1
      <4> QED BY <4>2, <4>3, <4>4
    <3>4. <<g>> \o <<h>> = <<g, h>>
      BY <2>6, <3>3, JoinedCalls
    <3>5. Go(a, <<g, [f EXCEPT !.rest = Tail(f.rest)]>>)
      BY <3>1, <3>4
    <3>6. UNCHANGED <<program, todo, task, token, waiting, pool>>
      BY <1>3, <3>1
    <3> QED BY <1>1, <1>3, <1>6, <2>3, <3>3, <3>5, <3>6, ListStep
  <2>5. CASE ~(state[x] = "Canceled" /\ ~Based(t))
    <3>1. Dispatch(a, t, <<h>>)
      BY <1>6, <2>5 DEF Continue, This
    <3>2. Startable(t)
      BY <1>4, <2>2, <2>5, NextCalls DEF Done, Outcome
    <3>3. CASE Info(t).inline
      <4> PICK g : g = Call("start", t)
        OBVIOUS
      <4>1. g \in AnyCall /\ g.of = t /\ g.at = "start" /\ g.at \in Single /\ Sound(a, g)
        <5>1. Startable(t) => Sound(a, Call("start", t))
          BY <2>1, SoundCalls
        <5>2. g \in AnyCall /\ g.of = t /\ g.at = "start" /\ g.at \in Single
          <6>1. "start" \in Points /\ "start" \in Single /\ t \in Tasks \cup Events
            BY <2>1 DEF Points, Single
          <6>2. "none" \in Exceptions \cup {"none"}
            OBVIOUS
          <6> QED BY <6>1, <6>2, CallFacts
        <5> QED BY <3>2, <5>1, <5>2
      <4>2. <<g>> \o <<h>> = <<g, h>>
        BY <2>6, <4>1, JoinedCalls
      <4>3. Go(a, <<g, [f EXCEPT !.rest = Tail(f.rest)]>>) /\ UNCHANGED pool
        BY <3>1, <3>3, <4>2 DEF Dispatch
      <4>4. UNCHANGED <<program, todo, task, token, waiting, pool>>
        BY <1>3, <4>3
      <4> QED BY <1>1, <1>3, <1>6, <2>3, <4>1, <4>3, <4>4, ListStep
    <3>4. CASE ~Info(t).inline
      <4>1. Go(a, <<h>>) /\ pool' = pool \cup {Call("start", t)}
        BY <3>1, <3>4 DEF Dispatch
      <4>2. h \in AnyCall /\ h.at = "continue" /\ h.of = x /\ h.rest = Tail(f.rest)
        BY <1>1, <1>2, <2>1 DEF AnyCall
      <4>3. /\ <<h>> \in Seq(AnyCall) /\ Values(<<h>>) = {h} /\ Apart(<<h>>) /\ Turns(a, <<h>>)
        BY <1>2, <4>1, <4>2, Written
      <4>4. HandledBy(f) = {t} \cup HandledBy(h) /\ t \notin HandledBy(h)
        BY <1>1, <2>1, <4>2 DEF HandledBy, Single, Listing
      <4>5. Sound(a, h)
        BY <1>1, <1>2, <2>1, <4>2 DEF Sound, OfEvents
      <4>6. \A u : AtTop(a, u) <=> u = t \/ \E g \in Values(<<h>>) : u \in HandledBy(g)
        BY <1>2, <4>3, <4>4
      <4>7. \A g \in Values(<<h>>) : Sound(a, g) /\ g.at # "finalize" /\ t \notin HandledBy(g)
        BY <4>2, <4>3, <4>4, <4>5
      <4>8. \A u \in Tasks : ~TopIn(a, Runners(u)) /\ ~TopIn(a, Finals(u))
        BY <1>1, <1>2
      <4> QED BY <1>3, <2>2, <3>2, <3>4, <4>1, <4>3, <4>6, <4>7, <4>8, ToPool
    <3> QED BY <3>3, <3>4
  <2> QED BY <2>4, <2>5
<1> QED BY <1>5, <1>6

-----------------------------------------------------------------------------
(* The actions that change the state of a task.                               *)

\* The call f of actor a starts or ends its own task t, with the exception x.
OwnChange(a, f, t, fs, s, x) ==
    /\ f.at \in Single /\ f.of = t
    /\ Turns(a, fs) /\ Apart(fs)
    /\ \A g \in Values(fs) : Sound(a, g)'
    /\ \A g \in Values(fs) : HandledBy(g) \subseteq {t} /\ g.at # "finalize"
    /\ \A u \in Tasks : state'[u] = IF u = t THEN s ELSE state[u]
    /\ \A u \in Tasks : exc'[u] = IF u = t THEN x ELSE exc[u]
    /\ state' \in [Tasks -> States] /\ exc' \in [Tasks -> Exceptions \cup {"none"}]
    /\ UNCHANGED <<program, todo, conts, pool, waiting, token>> /\ FieldsTyped'
    /\ done' = done \/ (done' = done \cup {t} /\ s \in Outcome)
    /\ s # "Canceled" => MayRun(t) /\ x = "none"
    /\ s = "Canceled" => Fails(t, x)
    /\ s = "Started" => Info(t).from # "event" /\ Handles(fs, t) /\ f.at # "finalize"
    /\ s \in Outcome => SomeOf(fs, Runners(t)) \/ (t \in done' /\ conts[t] = <<>>)
    /\ s \in Outcome /\ BodyOf(t) = "unwrap" => f.at = "finalize"

LEMMA OwnState ==
    ASSUME TasksInv, NEW a \in Actors, stack[a] # <<>>, NEW f, f = stack[a][1],
           NEW t \in Known, NEW fs \in Seq(AnyCall),
           NEW s \in {"Started"} \cup Outcome, NEW x \in Exceptions \cup {"none"},
           OwnChange(a, f, t, fs, s, x)
    PROVE  TasksInv'
<1>0. /\ f.at \in Single /\ f.of = t
      /\ Turns(a, fs) /\ Apart(fs)
      /\ \A g \in Values(fs) : Sound(a, g)'
      /\ \A g \in Values(fs) : HandledBy(g) \subseteq {t} /\ g.at # "finalize"
      /\ \A u \in Tasks : state'[u] = IF u = t THEN s ELSE state[u]
      /\ \A u \in Tasks : exc'[u] = IF u = t THEN x ELSE exc[u]
      /\ state' \in [Tasks -> States] /\ exc' \in [Tasks -> Exceptions \cup {"none"}]
      /\ UNCHANGED <<program, todo, conts, pool, waiting, token>> /\ FieldsTyped'
      /\ done' = done \/ (done' = done \cup {t} /\ s \in Outcome)
      /\ s # "Canceled" => MayRun(t) /\ x = "none"
      /\ s = "Canceled" => Fails(t, x)
      /\ s = "Started" => Info(t).from # "event" /\ Handles(fs, t) /\ f.at # "finalize"
      /\ s \in Outcome => SomeOf(fs, Runners(t)) \/ (t \in done' /\ conts[t] = <<>>)
      /\ s \in Outcome /\ BodyOf(t) = "unwrap" => f.at = "finalize"
  BY DEF OwnChange
<1> USE <1>0
<1> DEFINE M == {}
<1>1. /\ f \in AnyCall /\ Sound(a, f) /\ HandledBy(f) = {t} /\ Alive(t)
      /\ \A u : AtTop(a, u) <=> u = t
      /\ \A u : TopIn(a, Finals(u)) <=> f.at = "finalize" /\ t = u
      /\ \A u : TopIn(a, Runners(u)) <=> f.at \in {"complete", "cancelled", "run"} /\ t = u
      /\ HandledBy(f) \subseteq Known /\ \A u \in HandledBy(f) : Alive(u)
  BY TopFacts DEF HandledBy
<1>2. program \in Programs /\ Known \subseteq Tasks /\ t \in Tasks
  BY ProgramFacts DEF TasksInv, TasksTyped
<1>3. ~Done(t) /\ state[t] # "none"
  BY <1>1 DEF Alive, Fresh, Underway, Done, Outcome
<1>6. UNCHANGED <<program, todo, conts, pool, waiting, armed, cancelled>>
  BY DEF token
<1>8. \A u \in Known : u = t \/ Keeps(u)
  <2>1. ASSUME NEW u \in Known, u # t
        PROVE  Keeps(u)
    BY <1>2, <1>3, <1>6, <2>1, ProgramFacts DEF Keeps, Fresh, Underway, Unbegun, BodyOf, Info
  <2> QED BY <2>1
<1>9. \A u \in Tasks : (state[u] = "none") <=> (state'[u] = "none")
  BY <1>3 DEF Outcome
<1>10. TasksChange(a, M)
  BY <1>1, <1>3, <1>6, <1>8, <1>9 DEF TasksChange, Moved, Newest, FinishedStay
<1>11. CallsChange(a, fs, M)
  BY <1>1, SomeAmong DEF CallsChange, Moved
<1>13. \A u \in Tasks : Done(u)' <=> (IF u = t THEN s \in Outcome ELSE Done(u))
  BY DEF Done
<1>14. RunnersChange(a, fs)
  <2>1. ASSUME NEW u \in Tasks, Done(u)'
        PROVE  /\ conts'[u] # <<>> =>
                    \/ SomeOf(fs, Runners(u)) \/ Call("run", u) \in pool'
                    \/ Done(u) /\ conts[u] # <<>> /\ Call("run", u) \notin pool
               /\ u \in done' \/ SomeOf(fs, Runners(u)) \/ (Done(u) /\ u \notin done)
    <3>1. CASE u = t
      BY <1>6, <1>13, <2>1, <3>1
    <3>2. CASE u # t
      BY <1>6, <1>13, <2>1, <3>2
    <3> QED BY <3>1, <3>2
  <2>2. ASSUME NEW u \in done'
        PROVE  Done(u)'
    <3>2. CASE u \in done
      BY <1>3, <1>13, <3>2 DEF TasksInv, StatesSound, DoneSound
    <3>3. CASE u \notin done
      BY <1>2, <1>13, <3>3
    <3> QED BY <3>2, <3>3
  <2> QED BY <1>1, <2>1, <2>2 DEF RunnersChange, Single
<1>15. \A u : Queued(u)' = Queued(u)
  BY <1>6 DEF Queued, Info, Antecedent
<1>17. PlacesChange(a, fs, M)
  <2>4. \A u : ~SomeOf(fs, Finals(u))
    BY SomeAmong DEF Finals
  <2> QED
    BY <1>1, <1>2, <1>15, <2>4 DEF PlacesChange, Moved, Linked, Alive, Fresh, Underway, Outcome
<1>18. StatesChange
  <2>1. \E k \in 0..Len(program.build) : BuiltTo(k)'
    <3>1. PICK k \in 0..Len(program.build) : BuiltTo(k)
      BY DEF TasksInv, StatesSound
    <3>2. \A i \in 1..Len(program.build) : program.build[i] \in Tasks
      BY <1>2, ProgramFacts
    <3>3. BuiltTo(k)'
      BY <1>6, <1>9, <3>1, <3>2 DEF BuiltTo
    <3> QED BY <3>3
  <2>3. StateSound(t)'
    <3>1. StateSound(t)
      BY <1>2 DEF TasksInv, StatesSound
    <3>9. x # "none" => s = "Canceled"
      OBVIOUS
    <3> QED
      BY <1>2, <1>3, <1>6, <1>9, <3>1, <3>9, ProgramFacts DEF StateSound, Known, Info, BodyOf,
         Fails, Outcome
  <2>4. PropagatedTo(t)'
    <3>1. CASE Info(t).from = "then"
      <4> PICK y \in Tasks : y = Antecedent(t)
        BY <1>2, <3>1, AntecedentBuilt
      <4> QED
        BY <1>2, <1>3, <1>6, <1>13, <3>1 DEF PropagatedTo, Done, Outcome, MayRun, Fails, Info,
           Antecedent, Based
    <3>2. CASE Info(t).from # "then"
      BY <1>6, <3>2 DEF PropagatedTo, Info
    <3> QED BY <3>1, <3>2
  <2> QED BY <1>2, <1>6, <2>1, <2>3, <2>4 DEF StatesChange, TasksInv, StatesSound
<1>19. TasksTyped'
  BY <1>6, Turned DEF TasksInv, TasksTyped
<1> QED
  BY <1>6, <1>10, <1>11, <1>14, <1>17, <1>18, <1>19, TasksAfter DEF TasksStep, ListsChange,
     TasksInv, PlacesSound, ContsSound, WaitingSound

\* A call that ends no task.
LEMMA FirstCall ==
    ASSUME TasksInv, NEW a \in Actors, stack[a] # <<>>, NEW f, f = stack[a][1], NEW t, t = f.of
    PROVE  /\ f \in AnyCall /\ Sound(a, f) /\ \A fs : Go(a, fs) => Turns(a, fs)
           /\ program \in Programs /\ Known \subseteq Tasks
           /\ t \in Known => /\ state[t] \in States /\ exc[t] \in Exceptions \cup {"none"}
                             /\ StateSound(t) /\ (exc[t] # "none" => state[t] = "Canceled")
  BY TopFacts, ProgramFacts DEF TasksInv, TasksTyped, StatesSound, StateSound

LEMMA StartTasks ==
    ASSUME TasksInv, NEW a \in Actors, Start(a)
    PROVE  TasksInv'
<1> PICK f : f = stack[a][1]
  OBVIOUS
<1> PICK t : t = f.of
  OBVIOUS
<1>1. stack[a] # <<>> /\ f.at = "start"
  BY DEF Start, Top
<1>2. /\ f \in AnyCall /\ Sound(a, f) /\ \A fs : Go(a, fs) => Turns(a, fs)
      /\ program \in Programs /\ Known \subseteq Tasks
      /\ t \in Known => /\ state[t] \in States /\ exc[t] \in Exceptions \cup {"none"}
                        /\ StateSound(t) /\ (exc[t] # "none" => state[t] = "Canceled")
  BY <1>1, FirstCall
<1>3. Startable(t) /\ t \in Known /\ t \in Tasks
  BY <1>1, <1>2 DEF Sound, Startable
<1>4. UNCHANGED <<program, todo, conts, done, token, waiting, pool, exc>> /\ FieldsTyped'
  BY DEF Start, event, TasksInv, TasksTyped, FieldsTyped
<1>6. CASE state[t] = "PendingCancel"
  <2> PICK y : y = IF Info(t).from = "then" THEN exc[Antecedent(t)] ELSE "none"
    OBVIOUS
  <2> PICK g : g = Cancelling(t, y)
    OBVIOUS
  <2>2. y \in Exceptions \cup {"none"}
    BY <1>2, <1>3, AntecedentBuilt DEF TasksInv, TasksTyped
  <2>4. g \in AnyCall /\ g.of = t /\ g.at = "cancel" /\ g.at \in Single
    <3>1. "cancel" \in Points /\ "cancel" \in Single /\ t \in Tasks \cup Events
      BY <1>3 DEF Points, Single
    <3> QED BY <2>2, <3>1, CallFacts
  <2>5. Sound(a, g)
    BY <1>3, <1>6, <2>2, NextCalls, SoundCalls
  <2> QED BY <1>1, <1>4, <1>6, <2>4, <2>5, HandOn DEF task, Start, This, Single
<1>7. CASE state[t] # "PendingCancel"
  <2> PICK g : g = Call("perform", t)
    OBVIOUS
  <2>1. Go(a, <<g>>) /\ state' = [state EXCEPT ![t] = "Started"]
    BY <1>7 DEF Start, This
  <2>2. state[t] = "Created" /\ exc[t] = "none"
    BY <1>2, <1>3, <1>7 DEF Startable, Fresh
  <2>3. /\ g \in AnyCall /\ g.at = "perform" /\ g.of = t /\ g.rest = <<>> /\ HandledBy(g) = {t}
    BY <1>3, CallFacts DEF Points, Single
  <2>4. /\ \A u \in Tasks : state'[u] = IF u = t THEN "Started" ELSE state[u]
        /\ \A u \in Tasks : exc'[u] = IF u = t THEN "none" ELSE exc[u]
        /\ state' \in [Tasks -> States] /\ exc' \in [Tasks -> Exceptions \cup {"none"}]
    BY <1>4, <2>1, <2>2 DEF TasksInv, TasksTyped, States
  <2>5. <<g>> \in Seq(AnyCall) /\ Values(<<g>>) = {g} /\ Apart(<<g>>) /\ Turns(a, <<g>>)
    BY <1>2, <2>1, <2>3, Written
  <2>6. MayRun(t)'
    <3>1. CASE Info(t).from = "then"
      <4> PICK y \in Tasks : y = Antecedent(t)
        BY <1>2, <1>3, <3>1, AntecedentBuilt
      <4> QED
        BY <1>3, <1>4, <2>2, <2>4, <3>1 DEF MayRun, Done, Info, Antecedent, Based, Outcome,
           Startable
    <3>2. CASE Info(t).from # "then"
      BY <1>4, <3>2 DEF MayRun, Info
    <3> QED BY <3>1, <3>2
  <2>7. Unbegun(t)'
    <3>2. BodyOf(t) = "task" => state'[Info(t).other] = "none"
      BY <1>2, <1>3, <2>2, <2>4, ProgramFacts DEF Startable, Unbegun
    <3> QED BY <1>4, <3>2 DEF Unbegun, BodyOf, Info
  <2>8. Sound(a, g)'
    <3>2. Performs(t)'
      BY <1>3, <1>4, <2>4, <2>6, <2>7 DEF Performs, Known, Info, Underway, Startable
    <3> QED BY <2>3, <3>2 DEF Sound, OfEvents, NoRepeats
  <2>9. Handles(<<g>>, t)
    BY <2>3, <2>5, SomeAmong
  <2>10. /\ \A h \in Values(<<g>>) : Sound(a, h)'
         /\ \A h \in Values(<<g>>) : HandledBy(h) \subseteq {t} /\ h.at # "finalize"
    BY <2>3, <2>5, <2>8
  <2> DEFINE s == "Started"
             x == "none"
             fs == <<g>>
  <2>13. s \in {"Started"} \cup Outcome /\ x \in Exceptions \cup {"none"} /\ s # "Canceled" /\ s \notin Outcome
    BY DEF Outcome
  <2>15. fs \in Seq(AnyCall) /\ stack[a] # <<>>
    BY <1>1, <2>5
  <2>16. OwnChange(a, f, t, fs, s, x)
    BY <1>1, <1>3, <1>4, <2>4, <2>5, <2>9, <2>10, <2>13 DEF OwnChange, Single, Startable
  <2> HIDE DEF s, x, fs
  <2> QED BY <1>3, <2>13, <2>15, <2>16, OwnState
<1> QED BY <1>6, <1>7

LEMMA FinalizeTasks ==
    ASSUME TasksInv, NEW a \in Actors, Finalize(a)
    PROVE  TasksInv'
<1> PICK f : f = stack[a][1]
  OBVIOUS
<1> PICK t : t = f.of
  OBVIOUS
<1>1. stack[a] # <<>> /\ f.at = "finalize" /\ f.at \in Single
  BY DEF Finalize, Top, Single
<1>2. /\ f \in AnyCall /\ Sound(a, f) /\ \A fs : Go(a, fs) => Turns(a, fs)
      /\ program \in Programs /\ Known \subseteq Tasks
      /\ t \in Known => /\ state[t] \in States /\ exc[t] \in Exceptions \cup {"none"}
                        /\ StateSound(t) /\ (exc[t] # "none" => state[t] = "Canceled")
  BY <1>1, FirstCall
<1>3. Finishes(t) /\ t \in Known /\ t \in Tasks /\ MayRun(t)
  BY <1>1, <1>2 DEF Sound, Finishes
<1>4. state[t] # "Canceled" /\ exc[t] = "none"
  BY <1>2, <1>3 DEF Finishes, Fresh, Underway
<1> PICK g : g = Call("complete", t)
  OBVIOUS
<1>6. UNCHANGED <<program, todo, conts, done, token, waiting, pool, exc>> /\ FieldsTyped'
  BY DEF Finalize, event, TasksInv, TasksTyped, FieldsTyped
<1>7. g \in AnyCall /\ g.at = "complete" /\ g.of = t /\ g.rest = <<>> /\ HandledBy(g) = {}
  BY <1>3, CallFacts DEF Points, Single
<1> DEFINE s == "Completed"
           x == "none"
           fs == <<g>>
<1>8. fs \in Seq(AnyCall) /\ Values(fs) = {g} /\ Apart(fs) /\ Turns(a, fs)
  BY <1>2, <1>4, <1>7, Written DEF Finalize, This
<1>10. Sound(a, g)'
  <2>1. NoRepeats(<<>>)
    BY DEF NoRepeats
  <2> QED
    BY <1>3, <1>4, <1>6, <1>7, <2>1 DEF Sound, OfEvents, Known, TasksInv, TasksTyped, States,
       Outcome, Finalize, This
<1>11. SomeOf(fs, Runners(t))
  BY <1>7, <1>8, SomeAmong DEF Runners
<1>12. s \in {"Started"} \cup Outcome /\ x \in Exceptions \cup {"none"} /\ s # "Canceled" /\ s # "Started"
  BY DEF Outcome
<1>13. \A h \in Values(fs) : Sound(a, h)' /\ HandledBy(h) \subseteq {t} /\ h.at # "finalize"
  BY <1>7, <1>8, <1>10
<1>14. OwnChange(a, f, t, fs, s, x)
  BY <1>1, <1>3, <1>4, <1>6, <1>8, <1>11, <1>12, <1>13 DEF OwnChange, TasksInv, TasksTyped,
     States, Outcome, Finalize, This
<1> HIDE DEF s, x, fs
<1> QED BY <1>1, <1>3, <1>8, <1>12, <1>14, OwnState

LEMMA CancelTasks ==
    ASSUME TasksInv, NEW a \in Actors, CancelTask(a)
    PROVE  TasksInv'
<1> PICK f : f = stack[a][1]
  OBVIOUS
<1> PICK t : t = f.of
  OBVIOUS
<1> PICK x : x = f.exc
  OBVIOUS
<1>1. stack[a] # <<>> /\ f.at = "cancel" /\ f.at \in Single
  BY DEF CancelTask, Top, Single
<1>3. Fails(t, x) /\ t \in Known /\ t \in Tasks /\ x \in Exceptions \cup {"none"}
  BY <1>1, FirstCall DEF Sound, Fails, AnyCall
<1>4. ~Done(t) /\ BodyOf(t) # "unwrap"
  BY <1>3 DEF Fails, Alive, Fresh, Underway, Done, Outcome
<1> PICK g : g = Call("cancelled", t)
  OBVIOUS
<1>5. Go(a, <<g>>) /\ state' = [state EXCEPT ![t] = "Canceled"] /\ exc' = [exc EXCEPT ![t] = x]
  BY <1>4 DEF CancelTask, This, Done, Outcome
<1>7. g \in AnyCall /\ g.at = "cancelled" /\ g.of = t /\ g.rest = <<>> /\ HandledBy(g) = {}
  BY <1>3, CallFacts DEF Points, Single
<1> DEFINE s == "Canceled"
           fs == <<g>>
<1>8. fs \in Seq(AnyCall) /\ Values(fs) = {g} /\ Apart(fs) /\ Turns(a, fs)
  BY <1>1, <1>5, <1>7, FirstCall, Written
<1>10. Sound(a, g)'
  <2>2. t \in Known' /\ state'[t] = "Canceled"
    BY <1>3, <1>5 DEF Known, TasksInv, TasksTyped, States, Outcome, CancelTask, event, FieldsTyped
  <2> QED BY <1>7, <2>2 DEF Sound, OfEvents, NoRepeats
<1>11. SomeOf(fs, Runners(t))
  BY <1>7, <1>8, SomeAmong DEF Runners
<1>12. s \in {"Started"} \cup Outcome /\ s = "Canceled" /\ s # "Started"
  BY DEF Outcome
<1>13. \A h \in Values(fs) : Sound(a, h)' /\ HandledBy(h) \subseteq {t} /\ h.at # "finalize"
  BY <1>7, <1>8, <1>10
<1>14. OwnChange(a, f, t, fs, s, x)
  BY <1>1, <1>3, <1>4, <1>5, <1>8, <1>11, <1>12, <1>13 DEF OwnChange, TasksInv, TasksTyped,
     States, Outcome, CancelTask, event, FieldsTyped
<1> HIDE DEF s, fs
<1> QED BY <1>1, <1>3, <1>8, <1>12, <1>14, OwnState

\* Nothing waits for the newest task.
LEMMA NewestAlone ==
    ASSUME TasksInv, NEW t \in Tasks, Newest(t)
    PROVE  conts[t] = <<>>
<1>1. conts[t] \in Seq(Tasks) /\ ContsSound(t) /\ program \in Programs /\ Known \subseteq Tasks
  BY ProgramFacts DEF TasksInv, TasksTyped, PlacesSound
<1>2. ASSUME NEW v \in Values(conts[t])
      PROVE  FALSE
  BY <1>1, AntecedentBuilt, ProgramFacts DEF Newest, StateSound, TasksInv, StatesSound,
     ContsSound, Follows, Fresh
<1> QED BY <1>1, <1>2, ListFacts

LEMMA RegisterTasks ==
    ASSUME TasksInv, NEW a \in Actors, RegisterTask(a)
    PROVE  TasksInv'
<1> PICK f : f = stack[a][1]
  OBVIOUS
<1> PICK t : t = f.of
  OBVIOUS
<1> PICK e : e = Info(t).of
  OBVIOUS
<1> DEFINE fs == <<>>
<1>1. stack[a] # <<>> /\ f.at = "register" /\ f.at \in Single
  BY DEF RegisterTask, Top, Single
<1>2. /\ f \in AnyCall /\ Sound(a, f) /\ \A gs : Go(a, gs) => Turns(a, gs)
      /\ program \in Programs /\ Known \subseteq Tasks
      /\ t \in Known => /\ state[t] \in States /\ exc[t] \in Exceptions \cup {"none"}
                        /\ StateSound(t) /\ (exc[t] # "none" => state[t] = "Canceled")
  BY <1>1, FirstCall
<1>3. Registers(t) /\ t \in Known /\ t \in Tasks /\ Fresh(t) /\ e \in Events
  BY <1>1, <1>2, ProgramFacts DEF Sound, Registers
<1>4. MayRun(t) /\ (\A x : Fails(t, x)) /\ conts[t] = <<>> /\ BodyOf(t) = "none" /\ Info(t).from = "event"
  BY <1>2, <1>3, NewestAlone, ProgramFacts DEF MayRun, Fails, Alive, Registers
<1>5. Go(a, fs) /\ Turns(a, fs)
  BY <1>2 DEF RegisterTask
<1>6. /\ UNCHANGED <<program, todo, conts, token, pool>> /\ FieldsTyped'
      /\ UNCHANGED <<hasValue, isCanceled, stored, unused>>
  BY DEF RegisterTask, TasksInv, TasksTyped, FieldsTyped
<1>7. fs \in Seq(AnyCall) /\ Values(fs) = {} /\ Apart(fs)
  BY NoCalls
<1> HIDE DEF fs
<1>8. CASE stored[e] # "none"
  <2> PICK x : x = stored[e]
    OBVIOUS
  <2> DEFINE s == "Canceled"
  <2>4. s \in {"Started"} \cup Outcome /\ s \in Outcome /\ s = "Canceled" /\ s # "Started"
    BY DEF Outcome
  <2>5. OwnChange(a, f, t, fs, s, x)
    BY <1>1, <1>3, <1>4, <1>5, <1>6, <1>7, <1>8, <2>4 DEF OwnChange, TasksInv, TasksTyped, States,
       Outcome, RegisterTask, This, FieldsTyped
  <2> HIDE DEF s
  <2> QED BY <1>1, <1>3, <1>7, <2>4, <2>5, OwnState DEF TasksInv, TasksTyped, FieldsTyped
<1>9. CASE stored[e] = "none" /\ e \in hasValue
  <2>1. /\ state' = [state EXCEPT ![t] = "Completed"] /\ exc' = exc
        /\ done' = done \cup {t} /\ UNCHANGED waiting
    BY <1>9 DEF RegisterTask, This
  <2> DEFINE s == "Completed"
             x == "none"
  <2>4. /\ s \in {"Started"} \cup Outcome /\ s \in Outcome /\ s # "Canceled" /\ s # "Started"
        /\ x \in Exceptions \cup {"none"}
    BY DEF Outcome
  <2>5. OwnChange(a, f, t, fs, s, x)
    BY <1>1, <1>2, <1>3, <1>4, <1>5, <1>6, <1>7, <2>1, <2>4 DEF OwnChange, TasksInv, TasksTyped,
       States, Outcome, Fresh
  <2> HIDE DEF s, x
  <2> QED BY <1>1, <1>3, <1>7, <2>4, <2>5, OwnState
<1>10. CASE stored[e] = "none" /\ e \notin hasValue
  <2>1. waiting' = [waiting EXCEPT ![e] = Append(@, t)] /\ UNCHANGED <<state, exc, done>>
    BY <1>10 DEF RegisterTask, This
  <2> DEFINE M == {}
  <2>2. /\ \A u : AtTop(a, u) <=> u \in HandledBy(f)
        /\ \A u : ~TopIn(a, Finals(u)) /\ ~TopIn(a, Runners(u))
    BY <1>1, TopFacts
  <2>4. \A u : AtTop(a, u) <=> u = t
    BY <1>1, <2>2 DEF HandledBy
  <2>5. Has(Handlers(t))
    <3>1. 1 \in 1..Len(stack[a])
      BY <1>1, EmptySeq, LenProperties DEF TasksInv, TasksTyped, StacksTyped
    <3> QED BY <2>4, <3>1 DEF AtTop, TopIn, Has
  <2>7. /\ Append(waiting[e], t) \in Seq(Tasks)
        /\ Values(Append(waiting[e], t)) = {t} \cup Values(waiting[e]) /\ NoRepeats(Append(waiting[e], t))
    BY <1>3, <2>5, ListAppend DEF WaitingSound, TasksInv, TasksTyped, PlacesSound
  <2>8. \A z \in Events : waiting'[z] = IF z = e THEN Append(waiting[e], t) ELSE waiting[z]
    BY <2>1 DEF TasksInv, TasksTyped
  <2>11. ListsChange(a, fs, M)
    <3>1. ASSUME NEW z \in Events
          PROVE  NoRepeats(waiting'[z]) /\ \A u \in Values(waiting'[z]) :
                    u \in Values(waiting[z]) \/ (u = t /\ z = e)
      BY <2>7, <2>8 DEF TasksInv, PlacesSound, WaitingSound
    <3>2. ASSUME NEW z \in Events
          PROVE  NoRepeats(waiting'[z]) /\ \A u \in Values(waiting'[z]) :
                    (u \in Values(waiting[z]) \ M) \/ (Arrives(a, fs, M, u) /\ WaitsFor(u, z)')
      BY <1>3, <1>4, <1>6, <1>7, <2>1, <2>4, <3>1, SomeAmong DEF Arrives, Moved, Handles,
         WaitsFor, Fresh, Known, Info
    <3> QED BY <1>6, <2>1, <3>2 DEF ListsChange, TasksInv, PlacesSound, ContsSound
  <2>12. RunnersChange(a, fs)
    BY <1>6, <2>1, <2>2 DEF RunnersChange, TasksInv, StatesSound, DoneSound, Done
  <2>13. ASSUME NEW u \in Known, Queued(u)
         PROVE  Queued(u)'
    <3>1. CASE Info(u).from = "event" /\ u \in Values(waiting[Info(u).of])
      <4>1. Info(u).of \in Events
        BY <1>2, <3>1, ProgramFacts
      <4> QED BY <1>6, <2>7, <2>8, <3>1, <4>1 DEF Queued, Info, Antecedent
    <3>2. CASE ~(Info(u).from = "event" /\ u \in Values(waiting[Info(u).of]))
      BY <1>6, <2>13, <3>2 DEF Queued, Info, Antecedent
    <3> QED BY <3>1, <3>2
  <2>14. Queued(t)'
    BY <1>3, <1>4, <1>6, <2>7, <2>8 DEF Queued, Info
  <2>15. TasksTyped'
    BY <1>5, <1>6, <1>7, <2>1, <2>7, Turned DEF TasksInv, TasksTyped, token
  <2>16. done' \subseteq Tasks /\ M \in SUBSET Tasks /\ UNCHANGED <<program, todo, state, exc, armed>>
    BY <1>6, <2>1 DEF TasksInv, StatesSound, token
  <2> HIDE DEF M
  <2> QED
    BY <1>5, <1>7, <2>2, <2>4, <2>11, <2>12, <2>13, <2>14, <2>15, <2>16, SomeAmong, ListMove DEF
       Handles, Moved, M
<1> QED BY <1>8, <1>9, <1>10

\* Nothing of the tasks changes but whether the token is cancelled.
LEMMA TokenTasks ==
    ASSUME TasksInv, CancelToken
    PROVE  TasksInv'
<1>1. UNCHANGED <<program, todo, task, armed, waiting, hasValue, isCanceled, stored, unused, pool, stack>> /\ cancelled' = TRUE
  BY DEF CancelToken, event
<1>2. UNCHANGED <<state, exc, conts, done>>
  BY <1>1 DEF task
<1>4. /\ Known' = Known
      /\ \A t : Info(t)' = Info(t) /\ Based(t)' = Based(t) /\ Antecedent(t)' = Antecedent(t) /\ BodyOf(t)' = BodyOf(t)
      /\ \A t : Alive(t)' = Alive(t) /\ Fresh(t)' = Fresh(t) /\ Underway(t)' = Underway(t) /\ Done(t)' = Done(t)
      /\ \A S : Has(S)' = Has(S) /\ Sole(S)' = Sole(S)
  BY <1>1, <1>2 DEF Known, Info, Based, Antecedent, BodyOf, Alive, Fresh, Underway, Done, Has,
     Sole
<1>6. \A b, f : Sound(b, f)' = Sound(b, f)
  BY <1>1, <1>2, <1>4 DEF Sound, Registers, Schedules, Startable, Performs, Finishes, Fails,
     Follows, WaitsFor, MayRun, Unbegun, Newest
<1>7. PlacesSound'
  BY <1>1, <1>2, <1>4, <1>6 DEF TasksInv, PlacesSound, CallsSound, HandledOnce, ContsSound,
     WaitingSound, PoolSound, Startable, Follows, WaitsFor, MayRun, Unbegun
<1>8. LinksSound'
  BY <1>1, <1>2, <1>4 DEF TasksInv, LinksSound, Unwraps, Linked, Located, Queued, MayRun
<1> QED
  BY <1>1, <1>2, <1>4, <1>7, <1>8 DEF TasksInv, TasksTyped, FieldsTyped, StacksTyped, StatesSound,
     BuiltTo, StateSound, DoneSound, PropagatedTo

\* The token calls a task back: one that is not finished is to be cancelled.
LEMMA CallbackTasks ==
    ASSUME TasksInv, NEW t \in Tasks, Callback(t)
    PROVE  TasksInv'
<1>1. /\ UNCHANGED <<program, todo, exc, conts, done, cancelled, waiting, hasValue, isCanceled, stored, unused,
                     pool, stack>>
      /\ t \in armed /\ armed' = armed \ {t}
      /\ state' = [state EXCEPT ![t] = IF Done(t) THEN @ ELSE "PendingCancel"]
  BY DEF Callback, event
<1>2. /\ program \in Programs /\ Known \subseteq Tasks /\ StateSound(t) /\ state \in [Tasks -> States]
      /\ state[t] # "none" /\ Info(t).token /\ t \in Known
  BY <1>1, ProgramFacts DEF TasksInv, TasksTyped, StatesSound, StateSound
<1>3. /\ \A x \in Tasks : x # t \/ Done(x) => state'[x] = state[x]
      /\ Done(t) \/ (state'[t] = "PendingCancel" /\ Alive(t) /\ exc[t] = "none")
  BY <1>1, <1>2 DEF Done, Alive, Fresh, Underway, States, Outcome, StateSound
<1>4. /\ \A x \in Tasks : /\ Done(x)' <=> Done(x)
                          /\ Alive(x)' <=> Alive(x)
                          /\ (Fresh(x) => Fresh(x)') /\ (Underway(x) => Underway(x)')
                          /\ state'[x] = "none" <=> state[x] = "none"
                          /\ \A s \in Outcome : state'[x] = s <=> state[x] = s
      /\ FinishedStay
  <2>1. ASSUME NEW x \in Tasks
        PROVE  /\ Done(x)' <=> Done(x)
               /\ Alive(x)' <=> Alive(x)
               /\ (Fresh(x) => Fresh(x)') /\ (Underway(x) => Underway(x)')
               /\ state'[x] = "none" <=> state[x] = "none"
               /\ \A s \in Outcome : state'[x] = s <=> state[x] = s
    <3>1. CASE state'[x] = state[x]
      BY <3>1 DEF Done, Alive, Fresh, Underway
    <3>2. CASE x = t /\ state'[t] = "PendingCancel" /\ Alive(t) /\ ~Done(t)
      BY <3>2 DEF Done, Alive, Fresh, Underway, Outcome
    <3> QED BY <1>3, <3>1, <3>2
  <2> QED BY <1>1, <1>3, <2>1 DEF FinishedStay
<1>5. /\ Known' = Known
      /\ \A x : Info(x)' = Info(x) /\ Based(x)' = Based(x) /\ Antecedent(x)' = Antecedent(x) /\ BodyOf(x)' = BodyOf(x)
      /\ \A S : Has(S)' = Has(S) /\ Sole(S)' = Sole(S)
  BY <1>1 DEF Known, Info, Based, Antecedent, BodyOf, Has, Sole
<1>7. \A x \in Known : Keeps(x)
  BY <1>2, <1>4, <1>5, ProgramFacts DEF Keeps, Unbegun
<1>8. /\ \A x \in Known : MayRun(x) => MayRun(x)'
      /\ \A x \in Tasks : Newest(x) => Newest(x)'
  BY <1>1, <1>2, <1>4, MayStillRun DEF Newest
<1>9. ASSUME NEW b, NEW f \in AnyCall, Sound(b, f)
      PROVE  Sound(b, f)'
  <2>1. HandledBy(f) \subseteq Known
    BY <1>9, HandledIsAlive
  <2> QED BY <1>1, <1>2, <1>4, <1>7, <1>8, <1>9, <2>1, SoundStays DEF Sound, Registers, Schedules
<1>11. StatesSound'
  <2>1. PICK k \in 0..Len(program.build) : BuiltTo(k)
    BY DEF TasksInv, StatesSound
  <2>2. BuiltTo(k)'
    BY <1>1, <1>2, <1>4, <2>1, ProgramFacts DEF BuiltTo
  <2>3. \A x \in Tasks : StateSound(x) /\ DoneSound(x) /\ PropagatedTo(x)
    BY DEF TasksInv, StatesSound
  <2>4. ASSUME NEW x \in Tasks
        PROVE  DoneSound(x)'
    BY <1>1, <1>4, <1>5, <2>3 DEF DoneSound
  <2>5. ASSUME NEW x \in Tasks
        PROVE  StateSound(x)'
    <3>2. CASE state'[x] = state[x]
      BY <1>1, <1>2, <1>4, <1>5, <2>3, <3>2, ProgramFacts DEF StateSound
    <3>3. CASE x = t /\ state'[t] = "PendingCancel" /\ exc[t] = "none"
      BY <1>1, <1>2, <1>4, <1>5, <2>3, <3>3, ProgramFacts DEF StateSound
    <3> QED BY <1>3, <3>2, <3>3
  <2>6. ASSUME NEW x \in Tasks
        PROVE  PropagatedTo(x)'
    <3>1. CASE state[x] # "none" /\ Info(x).from = "then" /\ x \in Known
      <4> PICK y \in Tasks : y = Antecedent(x)
        BY <1>2, <3>1, AntecedentBuilt
      <4> QED BY <1>1, <1>3, <1>4, <1>5, <2>3, <3>1 DEF PropagatedTo, Done, Outcome
    <3>3. CASE ~(state[x] # "none" /\ Info(x).from = "then")
      BY <1>4, <1>5, <3>3 DEF PropagatedTo
    <3> QED BY <2>3, <3>1, <3>3 DEF StateSound
  <2> QED BY <1>1, <2>2, <2>4, <2>5, <2>6 DEF StatesSound, TasksInv
<1>12. PlacesSound'
  <2>1. CallsSound'
    <3>1. ASSUME NEW b \in Actors, NEW i \in 1..Len(stack[b])
          PROVE  Sound(b, stack[b][i])'
      <4> PICK f : f = stack[b][i]
        OBVIOUS
      <4> QED
        BY <1>1, <1>9, ElementOfSeq DEF TasksInv, PlacesSound, CallsSound, TasksTyped, StacksTyped
    <3> QED BY <1>1, <3>1 DEF CallsSound
  <2>7. \A c \in pool' : PoolSound(c)'
    <3>1. ASSUME NEW c \in pool
          PROVE  PoolSound(c)'
      BY <1>1, <1>2, <1>4, <1>5, <1>7, <1>8 DEF PoolSound, Outcome, Startable, Keeps, TasksInv,
         PlacesSound
    <3> QED BY <1>1, <3>1
  <2> QED
    BY <1>1, <1>4, <1>5, <1>7, <2>1, <2>7 DEF PlacesSound, TasksInv, HandledOnce, WaitingSound,
       WaitsFor, Keeps, ContsSound, Follows
<1>13. LinksSound'
  BY <1>1, <1>2, <1>4, <1>5, <1>8 DEF LinksSound, TasksInv, Unwraps, Linked, Located, Queued
<1> QED
  BY <1>1, <1>2, <1>11, <1>12, <1>13 DEF TasksInv, TasksTyped, FieldsTyped, StacksTyped, States

-----------------------------------------------------------------------------
(* The actions that create a task.                                            *)

\* A task that is somewhere is alive, and is in one place.
LEMMA SomewhereAlive ==
    ASSUME TasksInv, NEW t \in Tasks
    PROVE  /\ Has(Handlers(t)) => t \in Known /\ Alive(t) /\ ~Queued(t)
           /\ t \in Known /\ Queued(t) => Alive(t)
           /\ \A x \in Tasks : t \in Values(conts[x]) => Alive(t)
           /\ \A e \in Events : t \in Values(waiting[e]) => Alive(t)
           /\ \A c \in pool : c.at = "start" /\ c.of = t => Alive(t)
           /\ \A a \in Actors : AtTop(a, t) => Has(Handlers(t))
<1>1. program \in Programs /\ Known \subseteq Tasks
  BY ProgramFacts DEF TasksInv, TasksTyped
<1>2. /\ \A x \in Tasks : t \in Values(conts[x]) => Alive(t) /\ ~Has(Handlers(t))
      /\ \A e \in Events : t \in Values(waiting[e]) => Alive(t) /\ ~Has(Handlers(t))
      /\ \A c \in pool : c.at = "start" /\ c.of = t => Alive(t) /\ ~Has(Handlers(t))
  BY DEF TasksInv, PlacesSound, ContsSound, WaitingSound, PoolSound, Follows, WaitsFor, Startable,
     Alive
<1>3. t \in Known /\ Queued(t) => Alive(t) /\ ~Has(Handlers(t))
  BY <1>1, <1>2, ProgramFacts, AntecedentBuilt DEF Queued, Call
<1>4. Has(Handlers(t)) => t \in Known /\ Alive(t)
  <2>1. SUFFICES ASSUME Has(Handlers(t))
                 PROVE  t \in Known /\ Alive(t)
    OBVIOUS
  <2>2. PICK b \in Actors : \E i \in 1..Len(stack[b]) : stack[b][i] \in Handlers(t)
    BY <2>1 DEF Has
  <2>3. PICK i \in 1..Len(stack[b]) : stack[b][i] \in Handlers(t)
    BY <2>2
  <2> PICK f : f = stack[b][i]
    OBVIOUS
  <2> QED BY <2>3, HandledIsAlive DEF Handlers, TasksInv, PlacesSound, CallsSound
<1> QED
  BY <1>2, <1>3, <1>4, EmptySeq, LenProperties DEF AtTop, TopIn, Has, TasksInv, TasksTyped,
     StacksTyped

\* Who creates the task u: it is known, was not made, and nobody who could
\* await it has begun.
Creates(a, u, s) ==
    /\ u \in Known /\ state[u] = "none" /\ s \in {"Created", "PendingCancel"}
    /\ state' = [state EXCEPT ![u] = s]
    /\ s = "PendingCancel" => Info(u).token
    /\ BodyOf(u) = "unwrap" => state[Info(u).other] # "none" /\ AtTop(a, Info(u).other)
    /\ UNCHANGED <<program, exc, conts, done, cancelled, waiting, hasValue, isCanceled, stored, unused>>
    /\ armed' \subseteq armed \cup {u}
    /\ u \in armed' => Info(u).token
    /\ \A t \in Tasks : Has(Entrants(t)) => BodyOf(t) = "unwrap" \/ ~Before(program, t, u)

LEMMA CreationFacts ==
    ASSUME TasksInv, NEW a \in Actors, NEW u, NEW s, Creates(a, u, s)
    PROVE  /\ u \in Tasks /\ TasksChange(a, {u})
           /\ \A t \in Tasks : state'[t] = IF t = u THEN s ELSE state[t]
           /\ \A t \in Tasks : /\ Done(t)' <=> Done(t)
                               /\ Alive(t)' <=> Alive(t) \/ t = u
           /\ \A t \in Tasks \ {u} : StateSound(t)' /\ PropagatedTo(t)'
           /\ StateSound(u)' /\ PropagatedTo(u)'
           /\ ~Has(Handlers(u)) /\ ~Alive(u)
<1>0. /\ u \in Known /\ state[u] = "none" /\ s \in {"Created", "PendingCancel"}
      /\ state' = [state EXCEPT ![u] = s]
      /\ s = "PendingCancel" => Info(u).token
      /\ BodyOf(u) = "unwrap" => state[Info(u).other] # "none" /\ AtTop(a, Info(u).other)
      /\ UNCHANGED <<program, exc, conts, done, cancelled, waiting, hasValue, isCanceled, stored, unused>>
      /\ armed' \subseteq armed \cup {u}
      /\ u \in armed' => Info(u).token
      /\ \A t \in Tasks : Has(Entrants(t)) => BodyOf(t) = "unwrap" \/ ~Before(program, t, u)
  BY DEF Creates
<1>1. program \in Programs /\ Known \subseteq Tasks /\ u \in Tasks /\ state \in [Tasks -> States]
  BY <1>0, ProgramFacts DEF TasksInv, TasksTyped
<1>2. \A t \in Tasks : state'[t] = IF t = u THEN s ELSE state[t]
  BY <1>0, <1>1
<1>3. ~Done(u) /\ ~Alive(u) /\ ~Done(u)' /\ Alive(u)' /\ s # "none" /\ s \notin {"Started"} \cup Outcome
  BY <1>0, <1>1, <1>2 DEF Done, Alive, Fresh, Underway, Outcome
<1>4. \A t \in Tasks : /\ Done(t)' <=> Done(t)
                       /\ Alive(t)' <=> Alive(t) \/ t = u
                       /\ t # u /\ Fresh(t) => Fresh(t)'
                       /\ t # u /\ Underway(t) => Underway(t)'
  <2>1. ASSUME NEW t \in Tasks, t # u
        PROVE  /\ Done(t)' <=> Done(t)
               /\ Alive(t)' <=> Alive(t)
               /\ Fresh(t) => Fresh(t)'
               /\ Underway(t) => Underway(t)'
    BY <1>2, <2>1 DEF Done, Alive, Fresh, Underway
  <2> QED BY <1>3, <2>1
<1>6. /\ Known' = Known
      /\ \A t : Info(t)' = Info(t) /\ Based(t)' = Based(t) /\ Antecedent(t)' = Antecedent(t) /\ BodyOf(t)' = BodyOf(t)
  BY <1>0 DEF Known, Info, Based, Antecedent, BodyOf
<1>7. TasksChange(a, {u})
  <2>2. ASSUME NEW t \in Known, ~Moved(a, {u}, t)
        PROVE  Keeps(t)
    BY <1>0, <1>1, <1>2, <1>4, <1>6, <2>2, ProgramFacts DEF Keeps, Unbegun, Moved
  <2>4. ASSUME NEW t \in Tasks, Has(Entrants(t)), Newest(t)
        PROVE  Newest(t)'
    <3>1. ASSUME NEW v \in Tasks, Before(program, t, v)
          PROVE  state[v] = "none" /\ v # u
      BY <1>0, <1>1, <2>4, <3>1, ProgramFacts DEF Newest, Before
    <3> QED BY <1>0, <1>2, <3>1 DEF Newest
  <2> QED BY <1>0, <1>1, <1>2, <1>3, <2>2, <2>4, SomewhereAlive DEF TasksChange, FinishedStay
<1>8. \A t \in Tasks : StateSound(t) /\ PropagatedTo(t)
  BY DEF TasksInv, StatesSound
<1>9. ASSUME NEW t \in Tasks
      PROVE  t \in Known /\ BodyOf(t) = "unwrap" /\ (state[t] # "none" \/ t = u) => state'[Info(t).other] # "none"
  BY <1>0, <1>1, <1>2, <1>3, <1>8, ProgramFacts DEF StateSound
<1>10. StateSound(u)' /\ PropagatedTo(u)'
  BY <1>0, <1>1, <1>2, <1>3, <1>6, <1>8, <1>9 DEF PropagatedTo, Outcome, StateSound
<1>11. ASSUME NEW t \in Tasks \ {u}
       PROVE  StateSound(t)' /\ PropagatedTo(t)'
  <2>1. state'[t] = state[t]
    BY <1>2
  <2>2. StateSound(t)'
    BY <1>0, <1>6, <1>8, <1>9, <2>1 DEF StateSound
  <2>3. CASE state[t] # "none" /\ Info(t).from = "then"
    <3> PICK y \in Tasks : y = Antecedent(t)
      BY <1>1, <1>8, <2>3, AntecedentBuilt DEF StateSound
    <3>3. /\ Done(y)' <=> Done(y)
          /\ state'[y] = "Canceled" <=> state[y] = "Canceled"
          /\ state'[y] = "Completed" <=> state[y] = "Completed"
      BY <1>0, <1>2, <1>3 DEF Done, Outcome
    <3> QED BY <1>0, <1>4, <1>6, <1>8, <2>1, <2>2, <2>3, <3>3 DEF PropagatedTo, Done
  <2>4. CASE ~(state[t] # "none" /\ Info(t).from = "then")
    BY <1>6, <2>1, <2>2, <2>4 DEF PropagatedTo
  <2> QED BY <2>2, <2>3, <2>4
<1> QED BY <1>1, <1>2, <1>3, <1>4, <1>7, <1>10, <1>11, SomewhereAlive

\* What the lists and the pool keep when the task u is created.
LEMMA CreatedLists ==
    ASSUME TasksInv, NEW a \in Actors, NEW u, NEW s, Creates(a, u, s)
    PROVE  /\ \A x \in Tasks : NoRepeats(conts'[x]) /\ \A t \in Values(conts'[x]) : t \in Values(conts[x]) \ {u}
           /\ \A e \in Events : NoRepeats(waiting'[e]) /\ \A t \in Values(waiting'[e]) : t \in Values(waiting[e]) \ {u}
           /\ \A c \in pool : c.at = "start" => c.of # u
<1>1. u \in Tasks /\ ~Alive(u) /\ UNCHANGED <<conts, waiting>>
  BY CreationFacts DEF Creates
<1> QED BY <1>1, SomewhereAlive DEF TasksInv, PlacesSound, ContsSound, WaitingSound

\* The body of t returned a task: u, which unwraps it, is created.
LEMMA TaskBodyTasks ==
    ASSUME TasksInv, NEW a \in Actors, TaskBody(a)
    PROVE  TasksInv'
<1> PICK f : f = stack[a][1]
  OBVIOUS
<1> PICK t : t = f.of
  OBVIOUS
<1> PICK u : u = Info(t).other
  OBVIOUS
<1>1. stack[a] # <<>> /\ f.at = "perform" /\ BodyOf(t) = "task" /\ f.at \in Single
  BY DEF TaskBody, Top, This, BodyOf, Single
<1>2. /\ f \in AnyCall /\ Sound(a, f) /\ \A fs : Go(a, fs) => Turns(a, fs)
      /\ program \in Programs /\ Known \subseteq Tasks
  BY <1>1, FirstCall
<1>3. Performs(t) /\ t \in Known /\ t \in Tasks
  BY <1>1, <1>2 DEF Sound, Performs
<1>4. /\ u \in Known /\ BodyOf(u) = "unwrap" /\ Info(u).other = t /\ Info(u).from = "then" /\ u # t
      /\ u \in Tasks /\ ~\E i \in 1..Len(program.build) : program.build[i] = u
  BY <1>1, <1>2, <1>3, ProgramFacts
<1>5. /\ UNCHANGED <<program, todo, conts, done, token, waiting, pool, exc>> /\ FieldsTyped'
      /\ UNCHANGED <<hasValue, isCanceled, stored, unused, armed, cancelled>>
  BY DEF TaskBody, event, token, TasksInv, TasksTyped, FieldsTyped
<1>6. /\ \A v : AtTop(a, v) <=> v = t
      /\ \A v : ~TopIn(a, Finals(v)) /\ ~TopIn(a, Runners(v))
  BY <1>1, TopFacts DEF HandledBy
<1>7. CASE UNCHANGED state
  <2> PICK x : x \in {"none", t} /\ Go(a, <<Cancelling(t, x)>>)
    BY <1>1, <1>3, <1>4, <1>7 DEF TaskBody, This, TasksInv, TasksTyped, Performs, Unbegun
  <2> PICK g : g = Cancelling(t, x)
    OBVIOUS
  <2>2. g \in AnyCall /\ g.of = t /\ g.at = "cancel" /\ g.at \in Single
    BY <1>3, CallFacts DEF Points, Single, Exceptions
  <2>3. Sound(a, g)
    BY <1>1, <1>3, NextCalls, SoundCalls DEF Exceptions
  <2> QED BY <1>1, <1>5, <1>7, <2>2, <2>3, HandOn DEF task
<1>8. CASE ~UNCHANGED state
  <2> PICK g : g = Call("schedule", u)
    OBVIOUS
  <2> DEFINE fs == <<g>>
             M == {u}
             s == "Created"
  <2>1. Go(a, fs) /\ state' = [state EXCEPT ![u] = s]
    BY <1>8 DEF TaskBody, This
  <2>2. g \in AnyCall /\ g.at = "schedule" /\ g.of = u /\ g.rest = <<>> /\ HandledBy(g) = {u}
    <3>1. "schedule" \in Points /\ "schedule" \in Single /\ u \in Tasks \cup Events /\ "none" \in Exceptions \cup {"none"}
      BY <1>4 DEF Points, Single
    <3> QED BY <3>1, CallFacts
  <2>3. fs \in Seq(AnyCall) /\ Values(fs) = {g} /\ Apart(fs) /\ Turns(a, fs)
    BY <1>2, <2>1, <2>2, Written
  <2>4. /\ \A v : Handles(fs, v) <=> v = u
        /\ \A S : SomeOf(fs, S) <=> g \in S
    <3>1. /\ \A S : SomeOf(fs, S) <=> Values(fs) \cap S # {}
          /\ \A v : Handles(fs, v) <=> \E k \in Values(fs) : v \in HandledBy(k)
      BY <2>3, SomeAmong
    <3> QED BY <2>2, <2>3, <3>1
  <2> HIDE DEF fs, M, s
  <2>5. /\ Underway(t) /\ state[t] # "none" /\ state[u] = "none" /\ MayRun(t)
    BY <1>1, <1>3 DEF Performs, Unbegun, Underway
  <2>6. Creates(a, u, s)
    <3>1. \A v \in Tasks : ~Before(program, v, u)
      BY <1>2, <1>4, ProgramFacts DEF Before
    <3> QED
      BY <1>4, <1>5, <1>6, <2>1, <2>5, <3>1 DEF Creates, s, TasksInv, StatesSound, StateSound
  <2>7. /\ TasksChange(a, M)
        /\ \A v \in Tasks : state'[v] = IF v = u THEN s ELSE state[v]
        /\ \A v \in Tasks : (Done(v)' <=> Done(v)) /\ (Alive(v)' <=> Alive(v) \/ v = u)
        /\ \A v \in Tasks \ {u} : StateSound(v)' /\ PropagatedTo(v)'
        /\ StateSound(u)' /\ PropagatedTo(u)'
        /\ ~Has(Handlers(u)) /\ ~Alive(u)
    BY <2>6, CreationFacts DEF M
  <2>8. Sound(a, g)'
    <3>1. Newest(u)'
      BY <1>2, <1>4, <1>5, ProgramFacts DEF Newest, Before
    <3>4. NoRepeats(<<>>)
      BY DEF NoRepeats
    <3> QED
      BY <1>4, <1>5, <2>2, <2>7, <3>1, <3>4 DEF Sound, OfEvents, Known, Info, BodyOf, Fresh, s,
         Schedules, Unbegun
  <2>9. CallsChange(a, fs, M)
    BY <2>3, <2>4, <2>8 DEF CallsChange, Moved, M
  <2>12. \A v : Queued(v)' <=> Queued(v)
    BY <1>5 DEF Queued, Info, Antecedent
  <2>13. Linked(u)'
    <3>1. ~Has(Finals(u))
      BY <2>7 DEF Has, Finals, Handlers, HandledBy, Single
    <3> QED
      BY <1>4, <2>2, <2>3, <2>4, <2>7, <3>1, TurnedHas DEF Linked, TasksInv, TasksTyped, Finals
  <2>14. PlacesChange(a, fs, M)
    <3>1. \A v \in Known : Alive(v)' /\ (Moved(a, M, v) \/ ~Alive(v)) =>
            Handles(fs, v) \/ \E w \in Known : Unwraps(w, v) /\ Linked(w)'
      BY <1>2, <1>4, <1>6, <2>4, <2>7, <2>13 DEF Moved, M, Unwraps
    <3>2. \A w, v \in Known : Unwraps(w, v) /\ Linked(w)' /\ ~Alive(w) =>
            Underway(v)' /\ MayRun(v)' /\ Arrives(a, fs, M, v) /\ ~Queued(v)'
      <4>2. Underway(t)'
        BY <1>3, <1>4, <2>5, <2>7 DEF Underway
      <4>3. MayRun(t)'
        BY <1>2, <1>3, <1>5, <2>5, <2>7, MayStillRun DEF TasksChange
      <4>5. ~Queued(t)'
        BY <1>3, <1>6, <2>12, SomewhereAlive
      <4> QED
        BY <1>2, <1>4, <1>6, <2>4, <2>7, <4>2, <4>3, <4>5 DEF Linked, Unwraps, Arrives, Moved
    <3>3. \A v \in Known : Alive(v) => Alive(v)'
      BY <1>2, <2>7
    <3>5. \A v \in M : ~Alive(v)
      BY <2>7 DEF M
    <3> QED BY <1>6, <2>2, <2>4, <2>12, <3>1, <3>2, <3>3, <3>5 DEF PlacesChange, Finals
  <2>15. StatesChange
    <3>1. PICK k \in 0..Len(program.build) : BuiltTo(k)
      BY DEF TasksInv, StatesSound
    <3>2. \A i \in 1..Len(program.build) : program.build[i] \in Tasks /\ program.build[i] # u
      BY <1>2, <1>4, ProgramFacts
    <3>3. BuiltTo(k)'
      BY <1>5, <2>7, <3>1, <3>2 DEF BuiltTo
    <3> QED BY <1>5, <2>7, <3>3 DEF StatesChange, TasksInv, StatesSound
  <2>17. TasksStep(a, fs, M)
    BY <1>5, <1>6, <2>6, <2>7, <2>9, <2>14, <2>15, CreatedLists DEF TasksStep, ListsChange, M,
       RunnersChange, TasksInv, StatesSound, DoneSound
  <2> QED BY <1>5, <2>1, <2>3, <2>17, Turned, TasksAfter DEF TasksInv, TasksTyped, s, States
<1> QED BY <1>7, <1>8

\* What the builder creates next: the tasks are made in the order of the list.
LEMMA NextBuilt ==
    ASSUME TasksInv, todo # <<>>
    PROVE  \E k \in 0..Len(program.build) :
            /\ k + 1 \in 1..Len(program.build) /\ Head(todo) = program.build[k + 1]
            /\ Tail(todo) = SubSeq(program.build, k + 2, Len(program.build))
            /\ \A i \in 1..Len(program.build) : state[program.build[i]] = "none" <=> i > k
<1>1. program.build \in Seq(Tasks) /\ Len(program.build) \in Nat
  BY ProgramFacts DEF TasksInv, TasksTyped
<1>2. PICK k \in 0..Len(program.build) : BuiltTo(k)
  BY DEF TasksInv, StatesSound
<1>5. k + 1 \in 1..Len(program.build) /\ Len(program.build) \in (k + 1)..Len(program.build) /\ (k + 1) + 1 = k + 2
  BY <1>1, <1>2, SubSeqEmpty DEF BuiltTo
<1>6. Head(todo) = program.build[k + 1] /\ Tail(todo) = SubSeq(program.build, (k + 1) + 1, Len(program.build))
  BY <1>1, <1>2, <1>5, HeadTailOfSubSeq DEF BuiltTo
<1> QED BY <1>2, <1>5, <1>6 DEF BuiltTo

LEMMA BuildTasks ==
    ASSUME TasksInv, Build
    PROVE  TasksInv'
<1> PICK a : a = "builder"
  OBVIOUS
<1> PICK t : t = Head(todo)
  OBVIOUS
<1>1. todo # <<>> /\ stack[a] = <<>> /\ a \in Actors
  BY DEF Build, Actors
<1>2. PICK k \in 0..Len(program.build) :
            /\ k + 1 \in 1..Len(program.build) /\ t = program.build[k + 1]
            /\ Tail(todo) = SubSeq(program.build, k + 2, Len(program.build))
            /\ \A i \in 1..Len(program.build) : state[program.build[i]] = "none" <=> i > k
  BY <1>1, NextBuilt
<1>3. /\ program \in Programs /\ Known \subseteq Tasks /\ t \in Known /\ t \in Tasks /\ state[t] = "none"
      /\ BodyOf(t) # "unwrap" /\ DOMAIN program.build = 1..Len(program.build)
      /\ \A i, j \in 1..Len(program.build) : program.build[i] = program.build[j] => i = j
      /\ program.build \in Seq(Tasks) /\ Len(program.build) \in Nat
  <2>1. program \in Programs
    BY DEF TasksInv, TasksTyped
  <2> QED BY <1>2, <2>1, ProgramFacts
<1> PICK s : s = IF Info(t).token /\ cancelled THEN "PendingCancel" ELSE "Created"
  OBVIOUS
<1>4. /\ UNCHANGED <<program, conts, done, waiting, exc, cancelled>> /\ FieldsTyped'
      /\ UNCHANGED <<hasValue, isCanceled, stored, unused>>
      /\ state' = [state EXCEPT ![t] = s] /\ todo' = Tail(todo)
      /\ armed' = IF Info(t).token /\ ~cancelled THEN armed \cup {t} ELSE armed
  BY DEF Build, Create, event, TasksInv, TasksTyped, FieldsTyped
<1> DEFINE M == {t}
<1>5. \A S : ~TopIn(a, S)
  BY <1>1 DEF TopIn
<1>6. \A u \in Tasks : Before(program, t, u) => state[u] = "none" /\ u # t
  <2>1. ASSUME NEW u \in Tasks, Before(program, t, u)
        PROVE  state[u] = "none" /\ u # t
    <3>1. PICK i, j \in 1..Len(program.build) : i < j /\ program.build[i] = t /\ program.build[j] = u
      BY <1>3, <2>1 DEF Before
    <3> QED BY <1>2, <1>3, <3>1
  <2> QED BY <2>1
<1>7. \A u \in Tasks : Has(Entrants(u)) => BodyOf(u) = "unwrap"
  <2>1. SUFFICES ASSUME NEW u \in Tasks, Has(Entrants(u))
                 PROVE  BodyOf(u) = "unwrap"
    OBVIOUS
  <2>2. PICK b \in Actors : \E i \in 1..Len(stack[b]) : stack[b][i] \in Entrants(u)
    BY <2>1 DEF Has
  <2>3. PICK i \in 1..Len(stack[b]) : stack[b][i] \in Entrants(u)
    BY <2>2
  <2> PICK f : f = stack[b][i]
    OBVIOUS
  <2> QED BY <1>1, <2>3 DEF Entrants, Sound, TasksInv, PlacesSound, CallsSound
<1>8. Creates(a, t, s)
  BY <1>3, <1>4, <1>7 DEF Creates, TasksInv, StatesSound, StateSound
<1>9. /\ TasksChange(a, M)
      /\ \A v \in Tasks : state'[v] = IF v = t THEN s ELSE state[v]
      /\ \A v \in Tasks : (Done(v)' <=> Done(v)) /\ (Alive(v)' <=> Alive(v) \/ v = t)
      /\ \A v \in Tasks \ {t} : StateSound(v)' /\ PropagatedTo(v)'
      /\ StateSound(t)' /\ PropagatedTo(t)'
      /\ ~Has(Handlers(t)) /\ ~Alive(t)
  BY <1>1, <1>8, CreationFacts
<1>10. Known' = Known /\ Info(t)' = Info(t) /\ BodyOf(t)' = BodyOf(t) /\ Fresh(t)'
  BY <1>3, <1>4, <1>9 DEF Known, Info, BodyOf, Fresh
<1>11. Newest(t)' /\ Unbegun(t)'
  BY <1>3, <1>4, <1>6, <1>9, <1>10, ProgramFacts DEF Unbegun, Newest, StateSound, TasksInv,
     StatesSound
\* Whether it is scheduled or the builder goes on with it.
<1>13. \E fs : /\ fs \in Seq(AnyCall) /\ Turns(a, fs) /\ Apart(fs) /\ \A g \in Values(fs) : Sound(a, g)'
               /\ \A v : Handles(fs, v) => v = t
               /\ \A v : ~SomeOf(fs, Finals(v))
               /\ \/ Handles(fs, t) /\ UNCHANGED pool
                  \/ /\ ~Handles(fs, t) /\ pool' = pool \cup {Call("start", t)} /\ Info(t).from = "chore"
  <2>1. CASE Info(t).from = "chore"
    <3> DEFINE fs == <<>>
    <3>1. fs \in Seq(AnyCall) /\ Apart(fs) /\ Values(fs) = {}
      BY NoCalls
    <3>2. Turns(a, fs)
      <4>3. fs \o Below(a) = stack[a]
        BY <1>1, <3>1, ConcatEmptySeq DEF Below
      <4> HIDE DEF fs
      <4> QED BY <1>1, <2>1, <4>3 DEF Turns, TasksInv, TasksTyped, StacksTyped, Build
    <3> HIDE DEF fs
    <3> QED BY <2>1, <3>1, <3>2, SomeAmong DEF Build
  <2>2. CASE Info(t).from # "chore"
    <3> PICK p : p = IF Info(t).from = "event" THEN "register" ELSE "schedule"
      OBVIOUS
    <3> PICK g : g = Call(p, t)
      OBVIOUS
    <3> DEFINE fs == <<g>>
    <3>1. g \in AnyCall /\ g.at = p /\ g.of = t /\ g.rest = <<>> /\ HandledBy(g) = {t} /\ p # "finalize"
      BY <1>3, CallOf DEF Points, Single
    <3>2. fs \in Seq(AnyCall) /\ Apart(fs) /\ Values(fs) = {g}
      BY <3>1, Written
    <3>3. Turns(a, fs)
      BY <1>1, <2>2, <3>2, ConcatEmptySeq DEF Turns, Below, Build
    <3>5. Sound(a, g)'
      BY <1>3, <1>10, <1>11, <2>2, <3>1, ProgramFacts DEF Sound, OfEvents, Registers, TaskInfo,
         Schedules, NoRepeats
    <3> HIDE DEF fs
    <3>6. (\A v : Handles(fs, v) <=> v = t) /\ \A v : ~SomeOf(fs, Finals(v))
      BY <3>1, <3>2, SomeAmong DEF Finals
    <3> QED BY <2>2, <3>2, <3>3, <3>5, <3>6 DEF Build
  <2> QED BY <2>1, <2>2
<1>14. PICK fs : /\ fs \in Seq(AnyCall) /\ Turns(a, fs) /\ Apart(fs) /\ \A g \in Values(fs) : Sound(a, g)'
                 /\ \A v : Handles(fs, v) => v = t
                 /\ \A v : ~SomeOf(fs, Finals(v))
                 /\ \/ Handles(fs, t) /\ UNCHANGED pool
                    \/ /\ ~Handles(fs, t) /\ pool' = pool \cup {Call("start", t)} /\ Info(t).from = "chore"
  BY <1>13
<1>15. Call("start", t) \in AnyCall /\ Call("start", t).at = "start" /\ Call("start", t).of = t
  BY <1>3, CallFacts DEF Points
<1> HIDE DEF M
<1>17. ListsChange(a, fs, M)
  <2>1. /\ \A x \in Tasks : NoRepeats(conts'[x]) /\ \A v \in Values(conts'[x]) : v \in Values(conts[x]) \ M
        /\ \A e \in Events : NoRepeats(waiting'[e]) /\ \A v \in Values(waiting'[e]) : v \in Values(waiting[e]) \ M
        /\ \A c \in pool : c.at = "start" => c.of \notin M
    BY <1>1, <1>8, CreatedLists DEF M
  <2>2. ASSUME NEW c \in pool', c \notin pool
        PROVE  /\ c = Call(c.at, c.of) /\ c.of = t /\ c.at = "start" /\ Info(t).from = "chore"
               /\ Startable(t)' /\ Arrives(a, fs, M, t)
    BY <1>3, <1>10, <1>11, <1>14, <1>15, <2>2 DEF Arrives, Moved, M, Startable, MayRun
  <2> QED BY <1>3, <2>1, <2>2 DEF ListsChange
<1>20. PlacesChange(a, fs, M)
  BY <1>3, <1>4, <1>5, <1>9, <1>14 DEF PlacesChange, Moved, AtTop, M, Unwraps, Linked, Queued,
     Info, Antecedent
<1>21. StatesChange
  <2>1. BuiltTo(k + 1)' /\ k + 1 \in 0..Len(program.build)
    <3>3. ASSUME NEW i \in 1..Len(program.build)
          PROVE  state'[program.build[i]] = "none" <=> i > k + 1
      <4>1. CASE i = k + 1
        BY <1>2, <1>3, <1>9, <4>1
      <4>2. CASE i # k + 1
        <5>1. program.build[i] # t
          BY <1>2, <1>3, <4>2
        <5> QED BY <1>2, <1>3, <1>9, <4>2, <5>1, ProgramFacts
      <4> QED BY <4>1, <4>2
    <3> QED BY <1>2, <1>3, <1>4, <3>3 DEF BuiltTo
  <2>3. \E j \in 0..Len(program.build) : BuiltTo(j)'
    <3> PICK j : j = k + 1
      OBVIOUS
    <3> QED BY <2>1
  <2> QED BY <1>4, <1>9, <2>3 DEF StatesChange, TasksInv, StatesSound
<1>22. TasksTyped'
  BY <1>1, <1>3, <1>4, <1>14, <1>15, Turned, HeadTailProperties DEF TasksInv, TasksTyped, States
<1>23. TasksStep(a, fs, M)
  BY <1>4, <1>5, <1>9, <1>14, <1>17, <1>20, <1>21 DEF TasksStep, CallsChange, Moved, M,
     RunnersChange, TasksInv, StatesSound, DoneSound, Call
<1> QED BY <1>1, <1>22, <1>23, TasksAfter


-----------------------------------------------------------------------------
(* TasksInv holds always, and gives the first part of TasksSound.             *)

LEMMA TasksInit == PplxInit => TasksInv
<1> SUFFICES ASSUME PplxInit
             PROVE  TasksInv
  OBVIOUS
<1>1. /\ program \in Programs /\ program.build \in Seq(Tasks) /\ Len(program.build) \in Nat
      /\ program.target \in [Setters -> Events \cup {"none"}]
      /\ \A i \in 1..Len(program.build) : program.build[i] \in Tasks
  BY ProgramFacts DEF PplxInit
<1>2. /\ todo = program.build /\ pool = {} /\ done = {} /\ armed = {}
      /\ \A t \in Tasks : state[t] = "none" /\ exc[t] = "none" /\ conts[t] = <<>>
      /\ \A e \in Events : waiting[e] = <<>>
      /\ \A a \in Actors : stack[a] = <<>>
  BY DEF PplxInit
<1>4. TasksTyped
  <2>3. conts \in [Tasks -> Seq(Tasks)] /\ waiting \in [Events -> Seq(Tasks)]
    BY DEF PplxInit
  <2>4. StacksTyped
    BY DEF PplxInit, StacksTyped
  <2> QED BY <1>1, <1>2, <2>3, <2>4 DEF TasksTyped, PplxInit, States, FieldsTyped
<1>5. StatesSound
  BY <1>1, <1>2 DEF StatesSound, StateSound, DoneSound, PropagatedTo, Done, Outcome, BuiltTo
<1>7. PlacesSound
  BY <1>2 DEF PlacesSound, HandledOnce, WaitingSound, ContsSound, NoRepeats, Values, Has, Sole,
     CallsSound
<1> QED
  BY <1>1, <1>2, <1>4, <1>5, <1>7, ProgramFacts DEF TasksInv, LinksSound, Linked, Alive, Fresh,
     Underway

LEMMA TasksUnmoved == TasksInv /\ UNCHANGED pplxVars => TasksInv'
<1> SUFFICES ASSUME TasksInv, UNCHANGED pplxVars
             PROVE  TasksInv'
  OBVIOUS
<1>1. UNCHANGED <<program, todo, state, exc, conts, done, armed, cancelled, waiting, hasValue>>
  BY DEF pplxVars, task, token, event
<1>2. UNCHANGED <<isCanceled, stored, unused, pool, stack>>
  BY DEF pplxVars, event
<1>4. \A S : (Has(S)' <=> Has(S)) /\ (Sole(S) => Sole(S)')
  BY <1>2 DEF Has, Sole
<1>5. /\ \A b, f : Sound(b, f) => Sound(b, f)'
      /\ \A t : Alive(t)' = Alive(t) /\ Done(t)' = Done(t)
      /\ \A t, x : Follows(t, x)' = Follows(t, x) /\ WaitsFor(t, x)' = WaitsFor(t, x)
      /\ \A t : Startable(t)' = Startable(t) /\ MayRun(t)' = MayRun(t)
  BY <1>1, TasksStill DEF Actors, TasksInv, StatesSound
<1>6. Known' = Known /\ \A t : Info(t)' = Info(t) /\ BodyOf(t)' = BodyOf(t)
  BY <1>1 DEF Known, BodyOf, Info
<1>7. StatesSound'
  <2>2. \A t \in Tasks : StateSound(t)' /\ PropagatedTo(t)'
    BY <1>1 DEF TasksInv, StatesSound, StateSound, PropagatedTo, Known, BodyOf, Info, Based,
       Antecedent, Done
  <2> QED BY <1>1, <1>4, <1>5, <2>2 DEF StatesSound, TasksInv, BuiltTo, DoneSound
<1>8. PlacesSound'
  BY <1>1, <1>2, <1>4, <1>5, <1>6 DEF PlacesSound, TasksInv, ContsSound, WaitingSound, PoolSound,
     Antecedent, CallsSound, HandledOnce
<1>9. LinksSound'
  BY <1>1, <1>2, <1>4, <1>5, <1>6 DEF TasksInv, LinksSound, Unwraps, Linked, Queued, Located,
     Antecedent, Underway
<1> QED BY <1>1, <1>2, <1>7, <1>8, <1>9 DEF TasksInv, TasksTyped, FieldsTyped, StacksTyped

\* The invariant is inductive: one lemma per action shows it.
LEMMA TasksStays == TasksInv /\ [PplxNext]_pplxVars => TasksInv'
<1> SUFFICES ASSUME TasksInv, [PplxNext]_pplxVars
             PROVE  TasksInv'
  OBVIOUS
<1>1. CASE Build
  BY <1>1, BuildTasks
<1>2. ASSUME NEW a \in Actors, Run(a)
      PROVE  TasksInv'
  <2>1. CASE Schedule(a) \/ Start(a) \/ UserBody(a) \/ TaskBody(a) \/ Unwrap(a) \/ Finalize(a)
    BY <2>1, ScheduleTasks, StartTasks, UserBodyTasks, TaskBodyTasks, UnwrapTasks, FinalizeTasks
  <2>2. CASE Complete(a) \/ Continue(a) \/ CancelTask(a) \/ Cancelled(a)
    BY <2>2, CompleteTasks, ContinueTasks, CancelTasks, CancelledTasks
  <2>3. CASE RegisterTask(a) \/ Set(a) \/ Deliver(a) \/ Store(a) \/ CancelEvent(a) \/ Fail(a)
    BY <2>3, RegisterTasks, SetTasks, DeliverTasks, StoreTasks, FailTasks
  <2>4. CASE WhenAll(a) \/ WhenAny(a) \/ CountAll(a) \/ CountAny(a) \/ Delete(a) \/ Vector(a)
    BY <2>4, WhenTasks, CountTasks, VectorTasks
  <2> QED BY <1>2, <2>1, <2>2, <2>3, <2>4 DEF Run
<1>3. ASSUME NEW a \in Actors, Work(a)
      PROVE  TasksInv'
  BY <1>3, WorkTasks
<1>4. ASSUME NEW s \in Setters, Use(s) \/ Abandon(s)
      PROVE  TasksInv'
  BY <1>4, UseTasks, AbandonTasks
<1>5. CASE CancelToken
  BY <1>5, TokenTasks
<1>6. ASSUME NEW t \in Tasks, Callback(t)
      PROVE  TasksInv'
  BY <1>6, CallbackTasks
<1>7. CASE UNCHANGED pplxVars
  BY <1>7, TasksUnmoved
<1> QED BY <1>1, <1>2, <1>3, <1>4, <1>5, <1>6, <1>7 DEF PplxNext

LEMMA TasksPropagate == TasksInv => Propagated
<1> SUFFICES ASSUME TasksInv, NEW t \in Continuations
             PROVE  LET from == Antecedent(t) IN
                    /\ state[t] \in {"Started"} \cup Outcome => Done(from)
                    /\ ~Based(t) /\ state[from] = "Canceled" /\ Done(t) =>
                        state[t] = "Canceled" /\ exc[t] = exc[from]
                    /\ ~Based(t) /\ state[t] \in {"Started", "Completed"} => state[from] = "Completed"
  BY DEF Propagated
<1> QED
  BY ProgramFacts DEF PropagatedTo, TasksInv, StatesSound, Continuations, Made, TasksTyped, Known

-----------------------------------------------------------------------------
(* Events.  The calls that set, fail or cancel an event know who holds it;    *)
(* the tasks of an event end as the event did, and a task fails with it only  *)
(* if the event was refused or its own token cancelled it.  Given TasksInv,   *)
(* EventInv is inductive.                                                     *)

Joint == program.joint
One(p) == IF p THEN 1 ELSE 0
Uses(e) == {f \in AnyCall : f.at \in OfEvents /\ f.of = e}
Cancels(e) == {f \in AnyCall : f.at = "cancelEvent" /\ f.of = e}
CompletedBy(t, e) == t \in Known /\ Info(t).from = "event" /\ Info(t).of = e

\* The event was cancelled, is just being cancelled, or nobody holds it any
\* more who could set it.
Canceling(e) == e \in isCanceled \/ \E b \in Actors : TopIn(b, Cancels(e))
Dropped(e) ==
    /\ e # Joint /\ todo = <<>> /\ stack["builder"] = <<>> /\ ~Triggered(e)
    /\ \A s \in unused : program.target[s] # e
    /\ ~Has(Uses(e))
Refused(e) == Canceling(e) \/ Dropped(e)

\* What the calls know of events.
EventSound(b, f) ==
    /\ f.at \in OfEvents \cup {"deliver", "fail"} /\ f.of # Joint =>
        b \in Setters /\ program.target[b] = f.of /\ f.at # "keep"
    /\ f.at \in {"store", "keep"} => f.exc # "none"
    /\ f.at = "cancelEvent" /\ f.of # Joint => stored[f.of] # "none" \/ f.of \in hasValue
    /\ f.at = "deliver" => f.of \in hasValue
    /\ f.at = "fail" => Refused(f.of)
    /\ f.at \in {"countAll", "countAny"} => f.of \in Reporters(program) /\ state[f.of] # "none"
    /\ \A e \in Events : CompletedBy(f.of, e) =>
        /\ f.at = "finalize" => e \in hasValue
        /\ f.at = "cancel" => (f.exc = "none" /\ Info(f.of).token) \/ Refused(e)
Settled(e) ==
    /\ Triggered(e) => waiting[e] = <<>>
    /\ wins[e] = One(e \in hasValue) + One(e \in isCanceled)
    /\ e # Joint /\ e \in isCanceled => stored[e] # "none" \/ e \in hasValue
    /\ e # Joint /\ stored[e] # "none" => Canceling(e)
EndsWith(t, e) ==
    /\ state[t] = "Completed" => e \in hasValue
    /\ state[t] = "Canceled" => (exc[t] = "none" /\ Info(t).token) \/ Refused(e)
\* Nobody touches the event of when_all before its first continuation is made.
JointIdle ==
    (\A r \in Reporters(program) : state[r] = "none") =>
        stored[Joint] = "none" /\ ~Triggered(Joint) /\ ~Has(Uses(Joint))
CallsKnow == \A b \in Actors : \A i \in 1..Len(stack[b]) : EventSound(b, stack[b][i])
\* Only who stored the exception of another event is about to cancel it.
OneCanceller(e) ==
    e # Joint => Sole(Cancels(e)) /\ (e \in isCanceled => ~Has(Cancels(e)))
EventInv ==
    /\ \A e \in Events : OneCanceller(e)
    /\ CallsKnow /\ wins \in [Events -> Nat]
    /\ \A e \in Events : Settled(e)
    /\ \A t \in Known, e \in Events : CompletedBy(t, e) => EndsWith(t, e)
    /\ JointIdle

\* What a step does to events: an event changes only by a call on it, and a
\* call on it comes from who holds it or from the tasks of when_all.
EventMove(a, fs) ==
    /\ UNCHANGED program /\ fs \in Seq(AnyCall) /\ Turns(a, fs)
    /\ \A t \in Tasks : state[t] # "none" => state'[t] # "none"
    /\ unused' \subseteq unused
    /\ todo = <<>> => todo' = <<>> /\ (stack[a] = <<>> => a # "builder")
    /\ hasValue \subseteq hasValue' /\ isCanceled \subseteq isCanceled'
    /\ \A e \in Events :
        /\ Triggered(e)' /\ ~Triggered(e) => TopIn(a, Uses(e))
        /\ TopIn(a, Cancels(e)) => e \in isCanceled'
        /\ e \in isCanceled' => e \in isCanceled \/ TopIn(a, Cancels(e))
        /\ stored'[e] # "none" /\ stored[e] = "none" => TopIn(a, Uses(e))
        /\ e # Joint /\ stored[e] # "none" /\ stored'[e] = "none" => e \in hasValue'
    /\ \A g \in Values(fs) : g.at \in OfEvents =>
        \/ TopIn(a, Uses(g.of))
        \/ g.of # Joint /\ a \in unused /\ program.target[a] = g.of
        \/ g.of = Joint /\ \E r \in Reporters(program) : state[r] # "none"
    /\ \A g \in Values(fs) : g.at = "cancelEvent" /\ g.of # Joint =>
        OneOf(fs, Cancels(g.of)) /\ stored[g.of] = "none" /\ ~Triggered(g.of)
EventChange(a, fs) ==
    /\ \A g \in Values(fs) : EventSound(a, g)'
    /\ wins' \in [Events -> Nat]
    /\ \A e \in Events :
        /\ Triggered(e)' => waiting'[e] = <<>>
        /\ wins'[e] = One(e \in hasValue') + One(e \in isCanceled')
        /\ e # Joint /\ e \in isCanceled' /\ e \notin isCanceled => stored'[e] # "none" \/ e \in hasValue'
        /\ e # Joint /\ stored'[e] # "none" /\ stored[e] = "none" => TopIn(a, Cancels(e))'
    /\ \A t \in Known, e \in Events : CompletedBy(t, e) =>
        /\ state'[t] = "Completed" => state[t] = "Completed" \/ e \in hasValue'
        /\ state'[t] = "Canceled" =>
            \/ state[t] = "Canceled" /\ exc'[t] = exc[t]
            \/ exc'[t] = "none" /\ Info(t).token
            \/ Refused(e)

LEMMA RefusedStays ==
    ASSUME TasksInv, NEW a \in Actors, NEW fs, EventMove(a, fs), NEW e \in Events
    PROVE  /\ Canceling(e) => Canceling(e)'
           /\ Refused(e) => Refused(e)'
<1>1. StacksTyped /\ fs \in Seq(AnyCall) /\ Turns(a, fs)
  BY DEF TasksInv, TasksTyped, EventMove
<1>2. \A b \in Actors \ {a} : stack'[b] = stack[b]
  BY <1>1, Turned
<1>3. Canceling(e) => Canceling(e)'
  <2>1. ASSUME NEW b \in Actors, TopIn(b, Cancels(e))
        PROVE  Canceling(e)'
    <3>1. CASE b = a
      BY <2>1, <3>1 DEF EventMove, Canceling
    <3>2. CASE b # a
      BY <1>2, <2>1, <3>2 DEF TopIn, Canceling, Cancels, AnyCall
    <3> QED BY <3>1, <3>2
  <2> QED BY <2>1 DEF Canceling, EventMove
<1>4. Dropped(e) => Dropped(e)'
  <2>1. SUFFICES ASSUME Dropped(e)
                 PROVE  Dropped(e)'
    OBVIOUS
  <2>4. ~TopIn(a, Uses(e))
    BY <1>1, <2>1, LenProperties, EmptySeq DEF Dropped, TopIn, Has, StacksTyped
  <2>7. ~Has(Uses(e))'
    <3>2. ASSUME SomeOf(fs, Uses(e))
          PROVE  FALSE
      <4>1. PICK g \in Values(fs) : g.at \in OfEvents /\ g.of = e
        BY <3>2 DEF SomeOf, Values, Uses
      <4> QED BY <2>1, <2>4, <4>1 DEF EventMove, Dropped
    <3> QED BY <1>1, <2>1, <3>2, TurnedHas DEF Dropped, Uses, AnyCall
  <2> QED BY <1>2, <2>1, <2>4, <2>7 DEF Dropped, EventMove, Joint, Actors
<1> QED BY <1>3, <1>4 DEF Refused

LEMMA EventSoundStays ==
    ASSUME TasksInv, NEW a \in Actors, NEW fs, EventMove(a, fs),
           NEW b, NEW f \in AnyCall, EventSound(b, f),
           f.at \in OfEvents \cup {"deliver", "fail"} => f.of \in Events
    PROVE  EventSound(b, f)'
<1>4. f.at = "cancelEvent" /\ f.of # Joint => stored'[f.of] # "none" \/ f.of \in hasValue'
  BY DEF EventSound, EventMove, OfEvents
<1>6. f.at = "fail" => Refused(f.of)'
  <2> PICK e : e = f.of
    OBVIOUS
  <2> QED BY RefusedStays DEF EventSound
<1>8. ASSUME NEW e \in Events, CompletedBy(f.of, e)
      PROVE  /\ f.at = "finalize" => e \in hasValue'
             /\ f.at = "cancel" => (f.exc = "none" /\ Info(f.of).token) \/ Refused(e)'
  BY <1>8, RefusedStays DEF EventSound, EventMove
<1> QED
  BY <1>4, <1>6, <1>8, ProgramFacts DEF EventSound, EventMove, Joint, CompletedBy, Known, Info,
     TasksInv, TasksTyped, Reporters

LEMMA EventsAfter ==
    ASSUME TasksInv, EventInv, NEW a \in Actors, NEW fs, EventMove(a, fs), EventChange(a, fs)
    PROVE  EventInv'
<1>1. /\ StacksTyped /\ fs \in Seq(AnyCall) /\ Turns(a, fs)
      /\ program' = program /\ Joint' = Joint /\ Known' = Known
      /\ \A t, e : CompletedBy(t, e)' <=> CompletedBy(t, e)
      /\ \A t : Info(t)' = Info(t)
  BY DEF TasksInv, TasksTyped, EventMove, Joint, CompletedBy, Known, Info
<1>3. ASSUME NEW b \in Actors, NEW i \in 1..Len(stack'[b]), NEW f, f = stack'[b][i]
      PROVE  EventSound(b, f)'
  <2>1. (f \in Values(fs) /\ b = a) \/ \E j \in 1..Len(stack[b]) : f = stack[b][j]
    <3>1. CASE b # a
      BY <1>1, <1>3, <3>1, Turned
    <3>2. CASE b = a
      <4>1. \A j \in 2..Len(stack[a]) : j \in 1..Len(stack[a])
        BY <1>1, LenProperties DEF StacksTyped
      <4> QED BY <1>1, <1>3, <3>2, <4>1, Turned DEF Values
    <3> QED BY <3>1, <3>2
  <2>2. EventSound(b, f)'
    <3>1. CASE f \in Values(fs) /\ b = a
      BY <3>1 DEF EventChange
    <3>2. ASSUME NEW j \in 1..Len(stack[b]), f = stack[b][j]
          PROVE  EventSound(b, f)'
      BY <1>1, <3>2, ElementOfSeq, EventSoundStays DEF Sound, TasksInv, PlacesSound, CallsSound,
         EventInv, CallsKnow, StacksTyped
    <3> QED BY <2>1, <3>1, <3>2
  <2> QED BY <2>2
<1>4. ASSUME NEW e \in Events
      PROVE  Settled(e)'
  BY <1>1, RefusedStays DEF Settled, EventChange, EventMove, Canceling, EventInv
<1>5. ASSUME NEW t \in Known, NEW e \in Events, CompletedBy(t, e)
      PROVE  EndsWith(t, e)'
  BY <1>1, <1>5, RefusedStays DEF EndsWith, EventChange, EventMove, EventInv
<1>6. JointIdle'
  <2>1. SUFFICES ASSUME \A r \in Reporters(program) : state'[r] = "none"
                 PROVE  stored'[Joint] = "none" /\ ~Triggered(Joint)' /\ ~Has(Uses(Joint))'
    BY <1>1 DEF JointIdle
  <2>2. Joint \in Events /\ Reporters(program) \subseteq Tasks
    BY ProgramFacts DEF TasksInv, TasksTyped, Known, Reporters, Joint
  <2>4. stored[Joint] = "none" /\ ~Triggered(Joint) /\ ~Has(Uses(Joint))
    BY <2>1, <2>2 DEF EventInv, JointIdle, EventMove
  <2> PICK e \in Events : e = Joint
    BY <2>2
  <2>5. ~TopIn(a, Uses(e))
    BY <1>1, <2>4, LenProperties, EmptySeq DEF TopIn, Has, StacksTyped
  <2>7. ~Has(Uses(e))'
    <3>2. ASSUME SomeOf(fs, Uses(e))
          PROVE  FALSE
      <4>1. PICK g \in Values(fs) : g.at \in OfEvents /\ g.of = e
        BY <3>2 DEF SomeOf, Values, Uses
      <4> QED BY <2>1, <2>2, <2>5, <4>1 DEF EventMove
    <3> QED BY <1>1, <2>4, <3>2, TurnedHas DEF Uses, AnyCall
  <2> QED BY <1>1, <2>4, <2>5, <2>7 DEF EventMove
<1>7. ASSUME NEW e \in Events
      PROVE  OneCanceller(e)'
  <2>1. SUFFICES ASSUME e # Joint
                 PROVE  Sole(Cancels(e))' /\ (e \in isCanceled' => ~Has(Cancels(e))')
    BY <1>1 DEF OneCanceller
  <2>2. Sole(Cancels(e)) /\ (e \in isCanceled => ~Has(Cancels(e))) /\ Cancels(e)' = Cancels(e)
    BY <2>1 DEF EventInv, OneCanceller, Cancels, AnyCall
  <2>3. Has(Cancels(e)) => stored[e] # "none" \/ Triggered(e)
    BY <2>1 DEF Has, Cancels, EventInv, CallsKnow, EventSound, Triggered
  <2>4. SomeOf(fs, Cancels(e)) => OneOf(fs, Cancels(e)) /\ stored[e] = "none" /\ ~Triggered(e)
    <3>1. SUFFICES ASSUME NEW i \in 1..Len(fs), fs[i] \in Cancels(e)
                   PROVE  OneOf(fs, Cancels(e)) /\ stored[e] = "none" /\ ~Triggered(e)
      BY DEF SomeOf
    <3>2. PICK g \in Values(fs) : g.at = "cancelEvent" /\ g.of = e
      BY <3>1 DEF Values, Cancels
    <3> QED BY <2>1, <3>2 DEF EventMove
  <2>5. TopIn(a, Cancels(e)) => Has(Cancels(e))
    BY <1>1, LenProperties, EmptySeq DEF TopIn, Has, StacksTyped
  <2>6. Sole(Cancels(e))'
    BY <1>1, <2>2, <2>3, <2>4, TurnedSole
  <2>7. e \in isCanceled' => ~Has(Cancels(e))'
    <3>1. CASE e \in isCanceled
      BY <1>1, <2>2, <2>4, <3>1, TurnedHas DEF Triggered
    <3>2. CASE e \notin isCanceled /\ e \in isCanceled'
      <4>1. TopIn(a, Cancels(e)) /\ ~SomeOf(fs, Cancels(e))
        BY <2>3, <2>4, <2>5, <3>2 DEF EventMove
      <4> QED BY <1>1, <2>2, <4>1, TurnedHas
    <3> QED BY <3>1, <3>2
  <2> QED BY <2>6, <2>7
<1> QED BY <1>1, <1>3, <1>4, <1>5, <1>6, <1>7 DEF EventInv, EventChange, CallsKnow

\* The calls that a step brings are calls, and are few.
LEMMA TypedCalls ==
    ASSUME StacksTyped, StacksTyped', NEW a \in Actors, NEW S, NEW fs \in Seq(S), Turns(a, fs)
    PROVE  fs \in Seq(AnyCall) /\ \A i \in 1..Len(fs) : fs[i] \in AnyCall
<1>1. Below(a) \in Seq(AnyCall)
  <2>1. CASE stack[a] = <<>>
    BY <2>1, EmptySeq DEF Below
  <2>2. CASE stack[a] # <<>>
    BY <2>2, HeadTailProperties DEF Below, StacksTyped
  <2> QED BY <2>1, <2>2
<1> QED BY <1>1, ConcatProperties, LenProperties, ElementOfSeq DEF Turns, StacksTyped

LEMMA BroughtCalls ==
    ASSUME TasksInv, TasksInv', NEW a \in Actors
    PROVE  /\ \A g : Turns(a, <<g>>) => g \in AnyCall /\ <<g>> \in Seq(AnyCall) /\ Values(<<g>>) = {g}
           /\ \A g, h : Turns(a, <<g, h>>) =>
                g \in AnyCall /\ h \in AnyCall /\ <<g, h>> \in Seq(AnyCall) /\ Values(<<g, h>>) = {g, h}
           /\ \A g, h, k : Turns(a, <<g, h, k>>) =>
                /\ g \in AnyCall /\ h \in AnyCall /\ k \in AnyCall /\ <<g, h, k>> \in Seq(AnyCall)
                /\ Values(<<g, h, k>>) = {g, h, k}
<1>1. StacksTyped /\ StacksTyped'
  BY DEF TasksInv, TasksTyped
<1>2. ASSUME NEW g, Turns(a, <<g>>)
      PROVE  g \in AnyCall /\ <<g>> \in Seq(AnyCall) /\ Values(<<g>>) = {g}
  <2>1. <<g>> \in Seq({g}) /\ Len(<<g>>) = 1 /\ <<g>>[1] = g
    OBVIOUS
  <2>2. \A i \in 1..1 : <<g>>[i] \in AnyCall
    BY <1>1, <1>2, <2>1, TypedCalls
  <2>3. g \in AnyCall
    BY <2>1, <2>2
  <2> QED BY <2>3, Written
<1>3. ASSUME NEW g, NEW h, Turns(a, <<g, h>>)
      PROVE  g \in AnyCall /\ h \in AnyCall /\ <<g, h>> \in Seq(AnyCall) /\ Values(<<g, h>>) = {g, h}
  <2>1. <<g, h>> \in Seq({g, h}) /\ Len(<<g, h>>) = 2 /\ <<g, h>>[1] = g /\ <<g, h>>[2] = h
    OBVIOUS
  <2>2. \A i \in 1..2 : <<g, h>>[i] \in AnyCall
    BY <1>1, <1>3, <2>1, TypedCalls
  <2>3. g \in AnyCall /\ h \in AnyCall
    BY <2>1, <2>2
  <2> QED BY <2>3, Written
<1>4. ASSUME NEW g, NEW h, NEW k, Turns(a, <<g, h, k>>)
      PROVE  /\ g \in AnyCall /\ h \in AnyCall /\ k \in AnyCall /\ <<g, h, k>> \in Seq(AnyCall)
             /\ Values(<<g, h, k>>) = {g, h, k}
  <2>1. /\ <<g, h, k>> \in Seq({g, h, k}) /\ Len(<<g, h, k>>) = 3
        /\ <<g, h, k>>[1] = g /\ <<g, h, k>>[2] = h /\ <<g, h, k>>[3] = k
    OBVIOUS
  <2>2. \A i \in 1..3 : <<g, h, k>>[i] \in AnyCall
    BY <1>1, <1>4, <2>1, TypedCalls
  <2> QED BY <2>1, <2>2 DEF Values
<1> QED BY <1>2, <1>3, <1>4

\* A step that leaves the events alone.
LEMMA PlainEvents ==
    ASSUME TasksInv, TasksInv', EventInv, NEW a \in Actors, NEW fs \in Seq(AnyCall), Turns(a, fs),
           UNCHANGED <<program, event, unused>>,
           todo = <<>> => todo' = <<>> /\ (stack[a] = <<>> => a # "builder"),
           \A t \in Tasks : state[t] # "none" => state'[t] # "none",
           \A e \in Events : ~TopIn(a, Cancels(e)),
           \A g \in Values(fs) : EventSound(a, g),
           \A g \in Values(fs) : g.at \in OfEvents =>
               g.of = Joint /\ \E r \in Reporters(program) : state[r] # "none",
           \A t \in Known, e \in Events : CompletedBy(t, e) =>
               /\ state'[t] = "Completed" => state[t] = "Completed" \/ e \in hasValue
               /\ state'[t] = "Canceled" =>
                   \/ state[t] = "Canceled" /\ exc'[t] = exc[t]
                   \/ exc'[t] = "none" /\ Info(t).token
                   \/ Refused(e)
    PROVE  EventInv'
<1>1. EventMove(a, fs)
  BY DEF EventMove, Triggered, event, OfEvents
<1>4. \A g \in Values(fs) : EventSound(a, g)'
  <2>1. SUFFICES ASSUME NEW g \in Values(fs)
                 PROVE  EventSound(a, g)'
    OBVIOUS
  <2>2. PICK i \in 1..Len(fs) : g = fs[i]
    BY <2>1 DEF Values
  <2>5. Sound(a, g)'
    BY <2>2, Turned DEF TasksInv, PlacesSound, CallsSound, TasksTyped
  <2> QED BY <1>1, <2>2, <2>5, ElementOfSeq, EventSoundStays DEF Sound
<1> QED BY <1>1, <1>4, EventsAfter DEF EventChange, EventInv, Settled, Triggered, event

\* One that leaves the states of the tasks alone too.
LEMMA StillEvents ==
    ASSUME TasksInv, TasksInv', EventInv, NEW a \in Actors, stack[a] # <<>>, NEW f, f = stack[a][1],
           NEW fs, fs \in Seq(AnyCall), Turns(a, fs),
           UNCHANGED <<program, todo, state, exc, event, unused>>, f.at # "cancelEvent",
           \A g \in Values(fs) : EventSound(a, g),
           \A g \in Values(fs) : g.at \in OfEvents =>
               g.of = Joint /\ \E r \in Reporters(program) : state[r] # "none"
    PROVE  EventInv'
  BY PlainEvents DEF TopIn, Cancels

\* The step of an actor that goes on to three calls at most.
LEMMA Brought ==
    ASSUME TasksInv, TasksInv', NEW a \in Actors, stack[a] # <<>>, NEW g, NEW h, NEW k,
           Go(a, <<>>) \/ Go(a, <<g>>) \/ Go(a, <<g, h>>) \/ Go(a, <<g, h, k>>)
    PROVE  \E fs \in Seq(AnyCall) : Go(a, fs) /\ Turns(a, fs) /\ Values(fs) \subseteq {g, h, k}
<1>1. \A fs : Go(a, fs) => Turns(a, fs)
  <2> PICK f : f = stack[a][1]
    OBVIOUS
  <2> QED BY TopFacts
<1>2. CASE Go(a, <<>>)
  BY <1>1, <1>2, NoCalls
<1>3. CASE Go(a, <<g>>)
  BY <1>1, <1>3, BroughtCalls
<1>4. CASE Go(a, <<g, h>>)
  BY <1>1, <1>4, BroughtCalls
<1>5. CASE Go(a, <<g, h, k>>)
  <2>1. <<g, h, k>> \in Seq(AnyCall) /\ Values(<<g, h, k>>) = {g, h, k}
    BY <1>1, <1>5, BroughtCalls
  <2> QED BY <1>1, <1>5, <2>1
<1> QED BY <1>2, <1>3, <1>4, <1>5

\* A call that a step may bring although it leaves the events alone.
Discreet(a, c) ==
    /\ EventSound(a, c)
    /\ c.at \in OfEvents => c.of = Joint /\ \E r \in Reporters(program) : state[r] # "none"

LEMMA QuietStep ==
    ASSUME TasksInv, TasksInv', EventInv, NEW a \in Actors, stack[a] # <<>>,
           UNCHANGED <<program, todo, state, exc, event, unused>>, stack[a][1].at # "cancelEvent",
           NEW g, NEW h, NEW k, Discreet(a, g), Discreet(a, h), Discreet(a, k),
           Go(a, <<>>) \/ Go(a, <<g>>) \/ Go(a, <<g, h>>) \/ Go(a, <<g, h, k>>)
    PROVE  EventInv'
<1>1. PICK fs \in Seq(AnyCall) : Go(a, fs) /\ Turns(a, fs) /\ Values(fs) \subseteq {g, h, k}
  BY Brought
<1> PICK f : f = stack[a][1]
  OBVIOUS
<1> QED BY <1>1, StillEvents DEF Discreet

LEMMA DiscreetCalls ==
    ASSUME TasksInv, NEW b
    PROVE  /\ \A c : c.at \in {"register", "schedule", "start", "perform", "complete", "continue",
                                "cancelled", "run", "delete"} => Discreet(b, c)
           /\ \A c : c.at \in {"finalize", "cancel"} /\ c.of \in Known /\ Info(c.of).from # "event" =>
                Discreet(b, c)
  BY DEF Discreet, EventSound, OfEvents, CompletedBy

LEMMA ScheduleEvents ==
    ASSUME TasksInv, TasksInv', EventInv, NEW a \in Actors, Schedule(a)
    PROVE  EventInv'
<1> PICK f : f = stack[a][1]
  OBVIOUS
<1> PICK t : t = f.of
  OBVIOUS
<1> PICK g : g = Call("start", t)
  OBVIOUS
<1> PICK h : h = Cancelling(t, exc[Antecedent(t)])
  OBVIOUS
<1>3. Go(a, <<>>) \/ Go(a, <<g>>) \/ Go(a, <<h>>)
  <2>2. Dispatch(a, t, <<>>) => Go(a, <<>>) \/ Go(a, <<g>>)
    BY DEF Dispatch
  <2> QED BY <2>2 DEF Schedule, This, Done, Outcome
<1>4. Discreet(a, g) /\ Discreet(a, h)
  BY FirstCall, DiscreetCalls DEF Call, Cancelling, Sound, Schedules, Schedule, Top
<1> QED BY <1>3, <1>4, QuietStep DEF Schedule, Top

LEMMA BodyEvents ==
    ASSUME TasksInv, TasksInv', EventInv, NEW a \in Actors, UserBody(a) \/ Vector(a)
    PROVE  EventInv'
<1> PICK f : f = stack[a][1]
  OBVIOUS
<1> PICK t : t = f.of
  OBVIOUS
<1>1. stack[a] # <<>> /\ f.at = "perform"
  BY DEF UserBody, Vector, Top
<1>3. PICK g \in {Call("finalize", t), Cancelling(t, "none"), Cancelling(t, t)} : Go(a, <<g>>)
  BY DEF UserBody, Vector, This
<1>4. Discreet(a, g)
  BY <1>1, <1>3, FirstCall, DiscreetCalls DEF Call, Cancelling, Sound, Performs
<1> QED BY <1>1, <1>3, <1>4, QuietStep DEF UserBody, Vector, task

LEMMA UnwrapEvents ==
    ASSUME TasksInv, TasksInv', EventInv, NEW a \in Actors, Unwrap(a)
    PROVE  EventInv'
<1> PICK f : f = stack[a][1]
  OBVIOUS
<1> PICK t : t = f.of
  OBVIOUS
<1> PICK o : o = Info(t).other
  OBVIOUS
<1>1. stack[a] # <<>> /\ f.at = "perform" /\ BodyOf(t) = "unwrap"
  BY DEF Unwrap, Top, This, BodyOf
<1>3. o \in Known /\ Info(o).from # "event"
  BY <1>1, FirstCall, ProgramFacts DEF Sound, Performs
<1> PICK h : h = Call("finalize", t)
  OBVIOUS
<1>4. PICK g \in {Call("finalize", o), Cancelling(o, exc[Antecedent(t)])} : Go(a, <<g, h>>)
  BY DEF Unwrap, This
<1>5. Discreet(a, g) /\ Discreet(a, h)
  BY <1>1, <1>3, <1>4, FirstCall, DiscreetCalls DEF Call, Cancelling, Sound, Performs
<1> QED BY <1>1, <1>4, <1>5, QuietStep DEF Unwrap, task

LEMMA RunEvents ==
    ASSUME TasksInv, TasksInv', EventInv, NEW a \in Actors, Complete(a) \/ Cancelled(a)
    PROVE  EventInv'
<1> PICK f : f = stack[a][1]
  OBVIOUS
<1>0. PICK g : g = [Call("continue", f.of) EXCEPT !.rest = conts[f.of]]
  OBVIOUS
<1>3. Discreet(a, g)
  BY <1>0, DiscreetCalls DEF Call
<1> QED BY <1>0, <1>3, QuietStep DEF Complete, Cancelled, Top, This

LEMMA ContinueEvents ==
    ASSUME TasksInv, TasksInv', EventInv, NEW a \in Actors, Continue(a)
    PROVE  EventInv'
<1> PICK f : f = stack[a][1]
  OBVIOUS
<1> PICK n : n = Head(f.rest)
  OBVIOUS
<1>0. PICK h : h = [f EXCEPT !.rest = Tail(f.rest)]
  OBVIOUS
<1>1. stack[a] # <<>> /\ f.at = "continue"
  BY DEF Continue, Top
<1>2. f \in AnyCall /\ Sound(a, f)
  BY <1>1, FirstCall
<1>9. PICK g : g = IF state[f.of] = "Canceled" /\ ~Based(n) THEN Cancelling(n, exc[f.of]) ELSE Call("start", n)
  OBVIOUS
<1>4. Go(a, <<>>) \/ (f.rest # <<>> /\ (Go(a, <<g, h>>) \/ Go(a, <<h>>)))
  <2>3. CASE f.rest = <<>>
    BY <2>3 DEF Continue, This
  <2>4. CASE f.rest # <<>> /\ state[f.of] = "Canceled" /\ ~Based(n)
    BY <1>0, <1>9, <2>4, JoinedCalls DEF Continue, This
  <2>5. CASE f.rest # <<>> /\ ~(state[f.of] = "Canceled" /\ ~Based(n))
    BY <1>0, <1>9, <2>5, JoinedCalls DEF Dispatch, Continue, This
  <2> QED BY <2>3, <2>4, <2>5
<1>5. Discreet(a, h) /\ (f.rest # <<>> => Discreet(a, g))
  BY <1>0, <1>1, <1>2, <1>9, ListTail, DiscreetCalls DEF Sound, Follows, AnyCall, Call, Cancelling
<1>7. CASE Go(a, <<>>) \/ Go(a, <<h>>)
  BY <1>1, <1>5, <1>7, QuietStep DEF Continue, task
<1>8. CASE f.rest # <<>> /\ Go(a, <<g, h>>)
  BY <1>1, <1>5, <1>8, QuietStep DEF Continue, task
<1> QED BY <1>4, <1>7, <1>8

\* What the continuations of when_all and when_any call.
LEMMA JointCalls ==
    ASSUME NEW b, NEW t \in Reporters(program), state[t] # "none"
    PROVE  /\ \A c : c.of = Joint /\ c.at \in {"set", "cancelEvent"} => Discreet(b, c)
           /\ \A c : c.of = Joint /\ c.at \in {"store", "keep"} /\ c.exc # "none" => Discreet(b, c)
           /\ \A c : c.of = t /\ c.at \in {"countAll", "countAny"} => Discreet(b, c)
  BY DEF Discreet, EventSound, OfEvents

LEMMA CountEvents ==
    ASSUME TasksInv, TasksInv', EventInv, NEW a \in Actors, CountAll(a) \/ CountAny(a) \/ Delete(a)
    PROVE  EventInv'
<1> PICK f : f = stack[a][1]
  OBVIOUS
<1> PICK g : g = Call("cancelEvent", Joint)
  OBVIOUS
<1> PICK h : h = Call("delete", f.of)
  OBVIOUS
<1>1. stack[a] # <<>> /\ f.at \in {"countAll", "countAny", "delete"}
  BY DEF CountAll, CountAny, Delete, Top
<1>3. EventSound(a, f)
  <2>1. 1 \in 1..Len(stack[a])
    BY <1>1, LenProperties, EmptySeq DEF TasksInv, TasksTyped, StacksTyped
  <2> QED BY <2>1 DEF EventInv, CallsKnow
<1>4. Discreet(a, h) /\ (f.at = "countAny" => Discreet(a, g))
  BY <1>3, DiscreetCalls, JointCalls DEF EventSound, Call
<1>6. CASE Go(a, <<>>) \/ Go(a, <<h>>)
  BY <1>1, <1>4, <1>6, QuietStep DEF CountAll, CountAny, Delete, task
<1>7. CASE f.at = "countAny" /\ Go(a, <<g, h>>)
  BY <1>1, <1>4, <1>7, QuietStep DEF CountAll, CountAny, Delete, task
<1> QED BY <1>6, <1>7 DEF CountAll, CountAny, Delete, Top, This, Joint

LEMMA WhenEvents ==
    ASSUME TasksInv, TasksInv', EventInv, NEW a \in Actors, WhenAll(a) \/ WhenAny(a)
    PROVE  EventInv'
<1> PICK f : f = stack[a][1]
  OBVIOUS
<1> PICK t : t = f.of
  OBVIOUS
<1> PICK x : x = exc[Antecedent(t)]
  OBVIOUS
<1> PICK k : k = Call("finalize", t)
  OBVIOUS
<1>1. stack[a] # <<>> /\ f.at = "perform" /\ BodyOf(t) \in {"all", "any"}
  BY DEF WhenAll, WhenAny, Top, This, BodyOf
<1>2. t \in Known /\ Info(t).from # "event" /\ state[t] # "none"
  BY <1>1, FirstCall DEF Sound, Performs, Underway
<1>3. t \in Reporters(program)
  BY <1>1, <1>2 DEF Reporters, Known, BodyOf, Info
<1> DEFINE Bringing == {Call("set", Joint), Call("cancelEvent", Joint), Call("delete", t),
                        Call("countAll", t), Call("countAny", t), k}
                       \cup (IF x = "none" THEN {} ELSE {With(Call("store", Joint), x), With(Call("keep", Joint), x)})
<1>4. \A c \in Bringing : Discreet(a, c)
  <2>1. \A c \in {Call("set", Joint), Call("cancelEvent", Joint)} : c.of = Joint /\ c.at \in {"set", "cancelEvent"}
    BY DEF Call
  <2>3. \A c \in {Call("countAll", t), Call("countAny", t)} : c.of = t /\ c.at \in {"countAll", "countAny"}
    BY DEF Call
  <2>6. x # "none" => \A c \in {With(Call("store", Joint), x), With(Call("keep", Joint), x)} : Discreet(a, c)
    BY <1>2, <1>3, JointCalls DEF Call, With
  <2>7. Discreet(a, Call("delete", t)) /\ Discreet(a, k)
    BY <1>2, DiscreetCalls DEF Call
  <2> QED BY <1>2, <1>3, <2>1, <2>3, <2>6, <2>7, JointCalls
<1>5. \E g, h \in Bringing : Go(a, <<k>>) \/ Go(a, <<g, k>>) \/ Go(a, <<g, h, k>>)
  <2> DEFINE e == Joint
  <2>1. CASE WhenAll(a)
    <3>1. CASE state[Antecedent(t)] = "Completed"
      <4>2. Call("set", e) \in Bringing /\ Call("delete", t) \in Bringing
        OBVIOUS
      <4> HIDE DEF Bringing
      <4> QED BY <2>1, <3>1, <4>2 DEF WhenAll, This, Joint
    <3>2. CASE state[Antecedent(t)] # "Completed" /\ x = "none"
      BY <2>1, <3>2 DEF WhenAll, This, Joint
    <3>3. CASE state[Antecedent(t)] # "Completed" /\ x # "none"
      <4>2. With(Call("store", e), x) \in Bringing /\ Call("countAll", t) \in Bringing
        BY <3>3
      <4> HIDE DEF Bringing
      <4> QED BY <2>1, <3>3, <4>2 DEF WhenAll, This, Joint
    <3> QED BY <3>1, <3>2, <3>3
  <2>2. CASE WhenAny(a)
    <3>0. state[Antecedent(t)] \in Outcome
      BY <1>1, <1>2, FirstCall, ProgramFacts DEF Sound, Performs, MayRun, Done
    <3>1. CASE state[Antecedent(t)] = "Completed"
      BY <2>2, <3>1 DEF WhenAny, This, Joint
    <3>2. CASE state[Antecedent(t)] = "Canceled" /\ x # "none"
      BY <2>2, <3>2 DEF WhenAny, This, Joint
    <3>3. CASE state[Antecedent(t)] = "Canceled" /\ x = "none"
      BY <2>2, <3>3 DEF WhenAny, This, Joint
    <3> QED BY <3>0, <3>1, <3>2, <3>3 DEF Outcome
  <2> QED BY <2>1, <2>2
<1>6. UNCHANGED <<program, todo, state, exc, event, unused>>
  BY DEF WhenAll, WhenAny, task
<1> HIDE DEF Bringing
<1>7. PICK g, h \in Bringing : Go(a, <<k>>) \/ Go(a, <<g, k>>) \/ Go(a, <<g, h, k>>)
  BY <1>5
<1>8. Discreet(a, k)
  BY <1>4 DEF Bringing
<1>10. CASE Go(a, <<k>>)
  BY <1>1, <1>6, <1>8, <1>10, QuietStep
<1>11. CASE Go(a, <<g, k>>)
  BY <1>1, <1>4, <1>6, <1>8, <1>11, QuietStep
<1>12. CASE Go(a, <<g, h, k>>)
  BY <1>1, <1>4, <1>6, <1>8, <1>12, QuietStep
<1> QED BY <1>7, <1>10, <1>11, <1>12

LEMMA FirstKnown ==
    ASSUME TasksInv, EventInv, NEW a \in Actors, stack[a] # <<>>, NEW f, f = stack[a][1]
    PROVE  /\ EventSound(a, f) /\ f \in AnyCall /\ Sound(a, f)
           /\ \A S : TopIn(a, S) <=> f \in S
           /\ \A h : h.at = f.at /\ h.of = f.of /\ h.exc = f.exc => EventSound(a, h)
<1>2. EventSound(a, f)
  BY LenProperties, EmptySeq DEF EventInv, CallsKnow, TasksInv, TasksTyped, StacksTyped
<1> QED BY <1>2, TopFacts DEF EventSound, TopIn

LEMMA FailEvents ==
    ASSUME TasksInv, TasksInv', EventInv, NEW a \in Actors, Fail(a)
    PROVE  EventInv'
<1> PICK f : f = stack[a][1]
  OBVIOUS
<1> PICK n : n = Head(f.rest)
  OBVIOUS
<1>0. PICK h : h = [f EXCEPT !.rest = Tail(f.rest)]
  OBVIOUS
<1>9. PICK g : g = Cancelling(n, f.exc)
  OBVIOUS
<1>1. stack[a] # <<>> /\ f.at = "fail"
  BY DEF Fail, Top
<1>2. f \in AnyCall /\ Sound(a, f) /\ EventSound(a, f)
  BY <1>1, FirstKnown
<1>5. Discreet(a, h)
  BY <1>0, <1>1, <1>2, FirstKnown DEF Discreet, OfEvents, AnyCall
<1>6. f.rest # <<>> => Discreet(a, g)
  BY <1>1, <1>2, <1>9, ListTail DEF Discreet, OfEvents, EventSound, WaitsFor, CompletedBy, Sound,
     AnyCall, Cancelling, Call
<1>8. CASE Go(a, <<>>)
  BY <1>1, <1>5, <1>8, QuietStep DEF Fail, task
<1>10. CASE f.rest # <<>> /\ Go(a, <<g, h>>)
  BY <1>1, <1>5, <1>6, <1>10, QuietStep DEF Fail, task
<1> QED BY <1>0, <1>8, <1>9, <1>10 DEF Fail, This

LEMMA DeliverEvents ==
    ASSUME TasksInv, TasksInv', EventInv, NEW a \in Actors, Deliver(a)
    PROVE  EventInv'
<1> PICK f : f = stack[a][1]
  OBVIOUS
<1> PICK n : n = Head(f.rest)
  OBVIOUS
<1> PICK o : o = f.of
  OBVIOUS
<1>0. PICK h : h = [f EXCEPT !.rest = Tail(f.rest)]
  OBVIOUS
<1>9. PICK g : g = IF state[n] = "PendingCancel" THEN Cancelling(n, "none") ELSE Call("finalize", n)
  OBVIOUS
<1>1. stack[a] # <<>> /\ f.at = "deliver"
  BY DEF Deliver, Top
<1>2. f \in AnyCall /\ Sound(a, f) /\ EventSound(a, f) /\ \A S : TopIn(a, S) <=> f \in S
  BY <1>1, FirstKnown
<1>3. o \in Events /\ o \in hasValue
  BY <1>1, <1>2 DEF Sound, EventSound
<1>4. CASE f.rest # <<>>
  <2>1. WaitsFor(n, o) /\ n \in Known
    BY <1>1, <1>2, <1>4, ListTail DEF WaitsFor, Sound, AnyCall
  <2>3. Discreet(a, h)
    BY <1>0, <1>1, <1>2, FirstKnown DEF Discreet, OfEvents, AnyCall
  <2>4. Discreet(a, g)
    <3>2. \A e : CompletedBy(n, e) => e = o
      BY <2>1 DEF WaitsFor, CompletedBy
    <3> QED
      BY <1>3, <1>9, <2>1, <3>2, ProgramFacts DEF Discreet, OfEvents, Cancelling, Call,
         EventSound, TasksInv, TasksTyped, StatesSound, StateSound
  <2> QED BY <1>0, <1>1, <1>4, <1>9, <2>3, <2>4, QuietStep DEF Deliver, task, This, event
<1>5. CASE f.rest = <<>>
  <2>1. /\ Go(a, <<>>) /\ stored' = [stored EXCEPT ![o] = "none"]
        /\ UNCHANGED <<program, todo, state, exc, waiting, hasValue, isCanceled, wins, unused>>
    BY <1>5 DEF Deliver, This, task
  <2> DEFINE fs == <<>>
  <2>2. fs \in Seq(AnyCall) /\ Values(fs) = {} /\ Turns(a, fs)
    BY <1>1, <2>1, NoCalls, FirstCall
  <2> HIDE DEF fs
  <2>4. \A e \in Events : stored'[e] = IF e = o THEN "none" ELSE stored[e]
    BY <2>1 DEF TasksInv, TasksTyped, FieldsTyped
  <2>5. EventMove(a, fs)
    BY <1>1, <1>2, <1>3, <2>1, <2>2, <2>4 DEF EventMove, Uses, Cancels, OfEvents, Triggered
  <2> QED
    BY <1>1, <1>2, <1>3, <2>1, <2>2, <2>4, <2>5, EventsAfter DEF EventChange, EventInv, Settled,
       Uses, Cancels, OfEvents, Triggered
<1> QED BY <1>4, <1>5

\* A step of nobody.
LEMMA EventsUnmoved ==
    ASSUME TasksInv, EventInv, UNCHANGED <<program, event, unused, stack>>,
           todo = <<>> => todo' = <<>>,
           \A t \in Tasks : state[t] # "none" => state'[t] # "none",
           \A t \in Known, e \in Events : CompletedBy(t, e) =>
               /\ state'[t] = "Completed" => state[t] = "Completed"
               /\ state'[t] = "Canceled" => state[t] = "Canceled" /\ exc'[t] = exc[t]
    PROVE  EventInv'
<1>1. /\ UNCHANGED <<waiting, hasValue, isCanceled, stored, wins, unused, program, stack>>
      /\ Joint' = Joint /\ Known' = Known
      /\ \A t, e : CompletedBy(t, e)' <=> CompletedBy(t, e)
      /\ \A t : Info(t)' = Info(t)
      /\ \A e : Triggered(e)' <=> Triggered(e)
      /\ \A S : Has(S)' <=> Has(S)
  BY DEF event, Joint, Known, CompletedBy, Info, Triggered, Has
<1>2. \A e : (Canceling(e) => Canceling(e)') /\ (Refused(e) => Refused(e)')
  BY <1>1 DEF Refused, Canceling, TopIn, Cancels, AnyCall, Dropped, Uses
<1>3. ASSUME NEW b \in Actors, NEW i \in 1..Len(stack'[b]), NEW f, f = stack'[b][i]
      PROVE  EventSound(b, f)'
  <2>1. EventSound(b, f)
    BY <1>1, <1>3 DEF EventInv, CallsKnow
  <2>4. f.at = "fail" => Refused(f.of)'
    <3> PICK e : e = f.of
      OBVIOUS
    <3> QED BY <1>2, <2>1 DEF EventSound
  <2>5. ASSUME NEW e \in Events, CompletedBy(f.of, e)
        PROVE  /\ f.at = "finalize" => e \in hasValue'
               /\ f.at = "cancel" => (f.exc = "none" /\ Info(f.of).token) \/ Refused(e)'
    BY <1>1, <1>2, <2>1, <2>5 DEF EventSound
  <2> QED
    BY <1>1, <2>1, <2>4, <2>5, ProgramFacts DEF EventSound, TasksInv, TasksTyped, Known, Reporters
<1>7. JointIdle'
  <2>1. Reporters(program) \subseteq Tasks
    BY ProgramFacts DEF TasksInv, TasksTyped, Known, Reporters
  <2> QED BY <1>1, <2>1 DEF EventInv, JointIdle, Joint, Triggered, Has, Uses, AnyCall
<1>8. ASSUME NEW e \in Events
      PROVE  OneCanceller(e)'
  BY <1>1 DEF EventInv, OneCanceller, Sole, Has, Cancels, AnyCall
<1> QED BY <1>1, <1>2, <1>3, <1>7, <1>8 DEF EventInv, EndsWith, Settled, CallsKnow

LEMMA TokenEvents ==
    ASSUME TasksInv, EventInv, CancelToken \/ UNCHANGED pplxVars
    PROVE  EventInv'
  BY EventsUnmoved DEF CancelToken, pplxVars, task

LEMMA CallbackEvents ==
    ASSUME TasksInv, EventInv, NEW u \in Tasks, Callback(u)
    PROVE  EventInv'
  BY ProgramFacts, EventsUnmoved DEF Callback, task, TasksInv, TasksTyped

LEMMA BuildEvents ==
    ASSUME TasksInv, TasksInv', EventInv, Build
    PROVE  EventInv'
<1> PICK a : a = "builder"
  OBVIOUS
<1> PICK u : u = Head(todo)
  OBVIOUS
<1>1. a \in Actors /\ todo # <<>> /\ stack[a] = <<>>
  BY DEF Build, Actors
<1>3. PICK s \in {"PendingCancel", "Created"} : state' = [state EXCEPT ![u] = s]
  BY DEF Build, Create
<1>5. UNCHANGED <<program, exc, event, unused>>
  BY DEF Build
<1>7. \A t \in Known, e \in Events : CompletedBy(t, e) =>
        /\ state'[t] = "Completed" => state[t] = "Completed"
        /\ state'[t] = "Canceled" => state[t] = "Canceled" /\ exc'[t] = exc[t]
  BY <1>1, <1>3, <1>5, ProgramFacts, HeadTailProperties DEF TasksInv, TasksTyped
<1>8. CASE Info(u).from = "chore"
  BY <1>1, <1>3, <1>5, <1>7, <1>8, EventsUnmoved DEF Build, TasksInv, TasksTyped
<1>9. CASE Info(u).from # "chore"
  <2>1. PICK g \in {Call("register", u), Call("schedule", u)} : stack' = [stack EXCEPT ![a] = <<g>>]
    BY <1>9 DEF Build
  <2>2. Turns(a, <<g>>)
    BY <1>1, <2>1 DEF Turns, Below
  <2> DEFINE fs == <<g>>
  <2>3. fs \in Seq(AnyCall) /\ Values(fs) = {g} /\ Turns(a, fs)
    BY <1>1, <2>2, BroughtCalls
  <2> HIDE DEF fs
  <2>4. Discreet(a, g) /\ g.at \notin OfEvents
    BY <2>1, DiscreetCalls DEF OfEvents, Call
  <2> QED
    BY <1>1, <1>3, <1>5, <1>7, <2>3, <2>4, PlainEvents DEF Discreet, TopIn, TasksInv, TasksTyped
<1> QED BY <1>8, <1>9

LEMMA WorkEvents ==
    ASSUME TasksInv, TasksInv', EventInv, NEW a \in Actors, Work(a)
    PROVE  EventInv'
<1>1. /\ stack[a] = <<>> /\ a # "builder" /\ UNCHANGED <<program, todo, state, exc, event, unused>>
      /\ \E c \in pool : stack' = [stack EXCEPT ![a] = <<c>>]
  BY PplxAssumption DEF Work, Idle, task
<1>2. PICK c \in pool : stack' = [stack EXCEPT ![a] = <<c>>]
  BY <1>1
<1>4. Turns(a, <<c>>)
  <2>1. <<c>> \o <<>> = <<c>>
    BY DEF TasksInv, TasksTyped
  <2> QED BY <1>1, <1>2, <2>1 DEF Turns, Below
<1> DEFINE fs == <<c>>
<1>5. fs \in Seq(AnyCall) /\ Values(fs) = {c} /\ Turns(a, fs)
  BY <1>4, BroughtCalls
<1> HIDE DEF fs
<1> QED
  BY <1>1, <1>5, DiscreetCalls, PlainEvents DEF Discreet, OfEvents, TopIn, TasksInv, PlacesSound,
     PoolSound

\* A step that changes the state of a task too.
LEMMA StateStep ==
    ASSUME TasksInv, TasksInv', EventInv, NEW a \in Actors, stack[a] # <<>>,
           UNCHANGED <<program, todo, event, unused>>, stack[a][1].at # "cancelEvent",
           NEW g, Discreet(a, g), Go(a, <<>>) \/ Go(a, <<g>>),
           \A t \in Tasks : state[t] # "none" => state'[t] # "none",
           \A t \in Known, e \in Events : CompletedBy(t, e) =>
               /\ state'[t] = "Completed" => state[t] = "Completed" \/ e \in hasValue
               /\ state'[t] = "Canceled" =>
                   \/ state[t] = "Canceled" /\ exc'[t] = exc[t]
                   \/ exc'[t] = "none" /\ Info(t).token
                   \/ Refused(e)
    PROVE  EventInv'
<1>1. PICK fs \in Seq(AnyCall) : Go(a, fs) /\ Turns(a, fs) /\ Values(fs) \subseteq {g, g, g}
  BY Brought
<1> QED BY <1>1, PlainEvents DEF Discreet, TopIn, Cancels

LEMMA StartEvents ==
    ASSUME TasksInv, TasksInv', EventInv, NEW a \in Actors, Start(a)
    PROVE  EventInv'
<1> PICK f : f = stack[a][1]
  OBVIOUS
<1> PICK t : t = f.of
  OBVIOUS
<1>2. t \in Known /\ Info(t).from # "event" /\ Known \subseteq Tasks
  BY FirstCall DEF Sound, Startable, Start, Top
<1> PICK x : x = IF Info(t).from = "then" THEN exc[Antecedent(t)] ELSE "none"
  OBVIOUS
<1>4. Discreet(a, Cancelling(t, x)) /\ Discreet(a, Call("perform", t))
  BY <1>2, DiscreetCalls DEF Cancelling, Call
<1>5. PICK g : Discreet(a, g) /\ Go(a, <<g>>)
  BY <1>4 DEF Start, This
<1> QED BY <1>2, <1>5, StateStep DEF TasksInv, TasksTyped, Start, This, Top

LEMMA TaskBodyEvents ==
    ASSUME TasksInv, TasksInv', EventInv, NEW a \in Actors, TaskBody(a)
    PROVE  EventInv'
<1> PICK f : f = stack[a][1]
  OBVIOUS
<1> PICK t : t = f.of
  OBVIOUS
<1> PICK o : o = Info(t).other
  OBVIOUS
<1>2. t \in Known /\ Info(t).from # "event" /\ Known \subseteq Tasks
  BY FirstCall DEF Sound, Performs, TaskBody, Top
<1>4. \A x : Discreet(a, Cancelling(t, x)) /\ Discreet(a, Call("schedule", o))
  BY <1>2, DiscreetCalls DEF Cancelling, Call
<1>5. PICK g : Discreet(a, g) /\ Go(a, <<g>>)
  BY <1>4 DEF TaskBody, This
<1> QED BY <1>2, <1>5, StateStep DEF TasksInv, TasksTyped, TaskBody, This, Top

LEMMA FinalizeEvents ==
    ASSUME TasksInv, TasksInv', EventInv, NEW a \in Actors, Finalize(a)
    PROVE  EventInv'
<1> PICK f : f = stack[a][1]
  OBVIOUS
<1> PICK t : t = f.of
  OBVIOUS
<1> PICK g : g = Call("complete", t)
  OBVIOUS
<1>4. Discreet(a, g)
  BY DiscreetCalls DEF Call
<1>6. \A u \in Tasks : state'[u] = state[u] \/ (u = t /\ state'[u] = "Completed")
  BY DEF TasksInv, TasksTyped, Finalize, This
<1> QED
  BY <1>4, <1>6, FirstCall, FirstKnown, StateStep DEF Finalize, This, EventSound, Top, Sound,
     Finishes

LEMMA CancelEvents ==
    ASSUME TasksInv, TasksInv', EventInv, NEW a \in Actors, CancelTask(a)
    PROVE  EventInv'
<1> PICK f : f = stack[a][1]
  OBVIOUS
<1> PICK t : t = f.of
  OBVIOUS
<1> PICK x : x = f.exc
  OBVIOUS
<1> PICK g : g = Call("cancelled", t)
  OBVIOUS
<1>2. t \in Known /\ Known \subseteq Tasks
  BY FirstCall DEF Sound, Fails, CancelTask, Top
<1>4. Discreet(a, g)
  BY DiscreetCalls DEF Call
<1>6. \A u \in Tasks : \/ state'[u] = state[u] /\ exc'[u] = exc[u]
                       \/ u = t /\ state'[u] = "Canceled" /\ exc'[u] = x
  BY DEF TasksInv, TasksTyped, CancelTask, This
<1> QED BY <1>2, <1>4, <1>6, FirstKnown, StateStep DEF CancelTask, This, EventSound, Top

\* What the tasks of when_all and when_any are.
LEMMA JoinedFacts ==
    ASSUME program \in Programs
    PROVE  /\ Reporters(program) \subseteq Known /\ JointTasks(program) \subseteq Known
           /\ Reporters(program) \subseteq Tasks /\ IsFiniteSet(Reporters(program))
           /\ program.parts = Cardinality(Reporters(program))
           /\ Reporters(program) = {} => JointTasks(program) = {}
           /\ \A s \in Setters : program.target[s] # Joint
           /\ \A r, q \in Reporters(program) : BodyOf(r) = BodyOf(q)
           /\ \A r \in Reporters(program) : BodyOf(r) \in {"all", "any"}
           /\ \A t \in JointTasks(program) : Info(t).from = "event" /\ Info(t).of = Joint
           /\ \A t, e : CompletedBy(t, e) /\ e = Joint => t \in JointTasks(program)
           /\ \A t \in JointTasks(program), r \in Reporters(program) :
                Before(program, Antecedent(r), t) /\ Before(program, t, r)
           /\ \A t \in Known : BodyOf(t) = "vector" =>
                /\ Info(t).from = "then" /\ Info(t).inline /\ ~Based(t)
                /\ Antecedent(t) \in JointTasks(program)
                /\ \A r \in Reporters(program) : BodyOf(r) = "all" /\ Before(program, t, r)
<1>1. IsJoined(program) /\ IsFiniteSet(Tasks)
  BY PplxAssumption DEF IsProgram
<1>6. /\ \A r \in Reporters(program) : BodyOf(r) \in {"all", "any"}
      /\ \A t \in JointTasks(program) : Info(t).from = "event" /\ Info(t).of = Joint
      /\ \A t, e : CompletedBy(t, e) /\ e = Joint => t \in JointTasks(program)
  BY DEF Reporters, JointTasks, BodyOf, Info, CompletedBy, Known, Joint
<1> QED
  BY <1>1, <1>6, ProgramFacts, FS_Subset DEF IsJoined, Joint, BodyOf, Info, Antecedent, Known,
     Based, Reporters, JointTasks

\* A task registers while nothing newer exists: if it is one of when_all or
\* when_any, nobody has called on their event.
LEMMA RegisterEvents ==
    ASSUME TasksInv, TasksInv', EventInv, NEW a \in Actors, RegisterTask(a)
    PROVE  EventInv'
<1> PICK f : f = stack[a][1]
  OBVIOUS
<1> PICK t : t = f.of
  OBVIOUS
<1> PICK e : e = Info(t).of
  OBVIOUS
<1>1. stack[a] # <<>> /\ f.at = "register"
  BY DEF RegisterTask, Top
<1>2. /\ f \in AnyCall /\ \A S : TopIn(a, S) <=> f \in S
      /\ t \in Known /\ Info(t).from = "event" /\ Newest(t) /\ Known \subseteq Tasks /\ e \in Events
      /\ program \in Programs
  BY <1>1, FirstKnown, FirstCall, ProgramFacts DEF Sound, Registers
<1>4. /\ Go(a, <<>>)
      /\ UNCHANGED <<program, todo, hasValue, isCanceled, stored, wins, unused>>
      /\ \/ /\ stored[e] # "none" /\ UNCHANGED waiting
            /\ state' = [state EXCEPT ![t] = "Canceled"] /\ exc' = [exc EXCEPT ![t] = stored[e]]
         \/ /\ e \in hasValue /\ UNCHANGED <<exc, waiting>>
            /\ state' = [state EXCEPT ![t] = "Completed"]
         \/ /\ stored[e] = "none" /\ e \notin hasValue /\ UNCHANGED <<state, exc>>
            /\ waiting' = [waiting EXCEPT ![e] = Append(@, t)]
  BY DEF RegisterTask, This
<1>7. stored[e] = "none" /\ e \notin hasValue => ~Triggered(e)
  BY <1>2, JoinedFacts DEF EventInv, Settled, Triggered, JointIdle, Newest, CompletedBy
<1> DEFINE fs == <<>>
<1>8. fs \in Seq(AnyCall) /\ Values(fs) = {} /\ Turns(a, fs)
  BY <1>1, <1>4, NoCalls, FirstCall
<1> HIDE DEF fs
<1>10. \A u \in Tasks : \/ state'[u] = state[u] /\ exc'[u] = exc[u]
                        \/ u = t /\ state'[u] = "Canceled" /\ stored[e] # "none"
                        \/ u = t /\ state'[u] = "Completed" /\ e \in hasValue
  BY <1>4 DEF TasksInv, TasksTyped
<1>11. EventMove(a, fs)
  BY <1>1, <1>2, <1>4, <1>8, <1>10 DEF EventMove, Uses, Cancels, OfEvents, Triggered
<1>12. \A x \in Events : Triggered(x)' => waiting'[x] = <<>>
  <2>2. \A x \in Events : waiting'[x] = waiting[x] \/ (x = e /\ ~Triggered(x))
    BY <1>4, <1>7 DEF TasksInv, TasksTyped
  <2> QED BY <1>1, <1>2, <1>4, <2>2 DEF EventInv, Settled, Uses, Cancels, OfEvents, Triggered
<1>13. \A u \in Known, x \in Events : CompletedBy(u, x) =>
        /\ state'[u] = "Completed" => state[u] = "Completed" \/ x \in hasValue'
        /\ state'[u] = "Canceled" =>
            \/ state[u] = "Canceled" /\ exc'[u] = exc[u]
            \/ exc'[u] = "none" /\ Info(u).token
            \/ Refused(x)
  <2>1. ASSUME NEW u \in Known, NEW x \in Events, CompletedBy(u, x)
        PROVE  /\ state'[u] = "Completed" => state[u] = "Completed" \/ x \in hasValue
               /\ state'[u] = "Canceled" => (state[u] = "Canceled" /\ exc'[u] = exc[u]) \/ Refused(x)
    <3>1. CASE u = t
      BY <1>2, <1>10, <2>1, <3>1, JoinedFacts DEF EventInv, Settled, Refused, CompletedBy,
         JointIdle, Newest
    <3>2. CASE u # t
      BY <1>2, <1>10, <3>2
    <3> QED BY <3>1, <3>2
  <2> QED BY <1>4, <2>1
<1> QED BY <1>4, <1>8, <1>11, <1>12, <1>13, EventsAfter DEF EventChange, EventInv, Settled

LEMMA UseEvents ==
    ASSUME TasksInv, TasksInv', EventInv, NEW s \in Setters, Use(s)
    PROVE  EventInv'
<1> PICK e : e = program.target[s]
  OBVIOUS
<1>1. /\ s \in Actors /\ s # "builder" /\ s # "none" /\ stack[s] = <<>> /\ s \in unused
      /\ program \in Programs
  BY PplxAssumption DEF Use, Actors, TasksInv, TasksTyped
<1>4. /\ UNCHANGED <<program, todo, state, exc, waiting, hasValue, isCanceled, stored, wins>>
      /\ \A x : Triggered(x)' <=> Triggered(x)
  BY DEF event, Triggered, Use, task
<1>5. PICK g \in {Call("set", e), With(Call("store", e), s)} :
        UNCHANGED stack \/ stack' = [stack EXCEPT ![s] = <<g>>]
  BY DEF Use
<1>7. PICK fs : fs \in Seq(AnyCall) /\ Turns(s, fs) /\ Values(fs) \subseteq {g}
  <2>1. CASE UNCHANGED stack
    BY <1>1, <2>1, NoCalls DEF Turns, Below, TasksInv, TasksTyped, StacksTyped
  <2>2. CASE stack' = [stack EXCEPT ![s] = <<g>>]
    <3>1. Turns(s, <<g>>)
      BY <1>1, <2>2 DEF Turns, Below
    <3> QED BY <1>1, <3>1, BroughtCalls
  <2> QED BY <1>5, <2>1, <2>2
<1>8. g.at \in {"set", "store"} /\ g.of = e /\ unused' = unused \ {s}
  BY <1>5 DEF Use, Call, With
<1>9. EventMove(s, fs)
  BY <1>1, <1>4, <1>7, <1>8, JoinedFacts DEF EventMove, TopIn, TasksInv, TasksTyped, FieldsTyped
<1> QED
  BY <1>1, <1>4, <1>5, <1>7, <1>9, EventsAfter DEF EventChange, EventInv, Settled, EventSound,
     Call, With

LEMMA SetEvents ==
    ASSUME TasksInv, TasksInv', EventInv, NEW a \in Actors, Set(a)
    PROVE  EventInv'
<1> PICK f : f = stack[a][1]
  OBVIOUS
<1> PICK e : e = f.of
  OBVIOUS
<1>1. stack[a] # <<>> /\ f.at = "set"
  BY DEF Set, Top
<1>4. UNCHANGED <<program, todo, state, exc, isCanceled, stored, unused>>
  BY DEF Set, task
<1>5. CASE Triggered(e)
  <2>3. Discreet(a, Call("delete", e))
    BY DiscreetCalls DEF Call
  <2> QED BY <1>1, <1>4, <1>5, <2>3, QuietStep DEF event, Set, This
<1>6. CASE ~Triggered(e)
  <2>0. PICK g : g = [Call("deliver", e) EXCEPT !.rest = waiting[e]]
    OBVIOUS
  <2>1. /\ Go(a, <<g>>) /\ hasValue' = hasValue \cup {e}
        /\ waiting' = [waiting EXCEPT ![e] = <<>>] /\ wins' = [wins EXCEPT ![e] = @ + 1]
    BY <1>6, <2>0 DEF Set, This
  <2> DEFINE fs == <<g>>
  <2>3. fs \in Seq(AnyCall) /\ Values(fs) = {g} /\ Turns(a, fs)
    BY <1>1, <2>1, BroughtCalls, FirstCall
  <2> HIDE DEF fs
  <2>7. EventSound(a, g)'
    BY <1>1, <1>4, <2>0, <2>1, FirstKnown DEF EventSound, OfEvents, Joint, Call, Sound
  <2>9. wins' \in [Events -> Nat]
    BY <1>1, <2>1, FirstKnown DEF EventInv, Sound, EventSound, OfEvents
  <2>11. EventChange(a, fs)
    BY <1>4, <1>6, <2>1, <2>3, <2>7, <2>9 DEF EventChange, Settled, TasksInv, TasksTyped,
       EventInv, One, Triggered
  <2> QED
    BY <1>1, <1>4, <2>0, <2>1, <2>3, <2>11, FirstKnown, EventsAfter DEF EventMove, OfEvents, Call,
       Uses, Cancels, Triggered
<1> QED BY <1>5, <1>6

LEMMA StoreEvents ==
    ASSUME TasksInv, TasksInv', EventInv, NEW a \in Actors, Store(a)
    PROVE  EventInv'
<1> PICK f : f = stack[a][1]
  OBVIOUS
<1> PICK e : e = f.of
  OBVIOUS
<1> PICK g : g = With(Call("cancelEvent", e), f.exc)
  OBVIOUS
<1>1. stack[a] # <<>> /\ f.at \in {"store", "keep"}
  BY DEF Store, Top
<1>4. UNCHANGED <<program, todo, state, exc, waiting, hasValue, isCanceled, wins, unused>>
  BY DEF Store, task
<1>6. CASE Go(a, <<>>) /\ UNCHANGED stored
  <2>2. Discreet(a, Call("delete", e))
    BY DiscreetCalls DEF Call
  <2> QED BY <1>1, <1>4, <1>6, <2>2, QuietStep DEF event
<1>7. CASE stored[e] = "none" /\ ~Triggered(e) /\ stored' = [stored EXCEPT ![e] = f.exc]
           /\ (IF f.at = "store" THEN Go(a, <<g>>) ELSE Go(a, <<>>))
  <2>1. g.at = "cancelEvent" /\ g.of = e
    BY DEF Call, With
  <2>2. PICK fs : fs \in Seq(AnyCall) /\ Turns(a, fs) /\ Values(fs) \subseteq {g}
                  /\ (f.at = "store" => Go(a, <<g>>) /\ g \in AnyCall)
                  /\ (g \in Values(fs) => OneOf(fs, Cancels(e)))
    <3>1. CASE f.at = "store"
      <4> DEFINE one == <<g>>
      <4>1. Turns(a, one) /\ g \in AnyCall /\ one \in Seq(AnyCall) /\ Values(one) = {g}
        BY <1>1, <1>7, <3>1, FirstCall, BroughtCalls
      <4>2. Len(one) = 1 /\ one[1] = g
        OBVIOUS
      <4> HIDE DEF one
      <4>3. OneOf(one, Cancels(e))
        BY <2>1, <4>1, <4>2 DEF OneOf, Cancels
      <4> QED BY <1>7, <3>1, <4>1, <4>3
    <3>2. CASE f.at # "store"
      BY <1>1, <1>7, <3>2, FirstCall, NoCalls
    <3> QED BY <3>1, <3>2
  <2>3. \A x \in Events : stored'[x] = IF x = e THEN f.exc ELSE stored[x]
    BY <1>7 DEF TasksInv, TasksTyped, FieldsTyped
  <2>4. f \in Uses(e) /\ f \notin Cancels(e) /\ EventSound(a, f) /\ e \in Events
    BY <1>1, FirstKnown DEF Uses, Cancels, OfEvents, Sound
  <2>8. \A x : TopIn(a, Cancels(x)) => FALSE
    BY <1>1 DEF TopIn, Cancels
  <2>6. \A x : Triggered(x)' <=> Triggered(x)
    BY <1>4 DEF Triggered
  <2>5. EventMove(a, fs)
    BY <1>1, <1>4, <1>7, <2>1, <2>2, <2>3, <2>4, <2>6, <2>8 DEF EventMove, TopIn, EventSound
  <2>7. f.at = "store" => TopIn(a, Cancels(e))'
    <3>1. SUFFICES ASSUME f.at = "store"
                   PROVE  TopIn(a, Cancels(e))'
      OBVIOUS
    <3>2. Go(a, <<g>>) /\ g \in AnyCall
      BY <2>2, <3>1
    <3>4. stack'[a] # <<>> /\ stack'[a][1] = g
      <4> HIDE <3>2
      <4> QED
        BY <1>1, <3>2, HeadTailProperties, LenProperties, ConcatProperties, EmptySeq DEF Go,
           TasksInv, TasksTyped, StacksTyped
    <3> QED BY <2>1, <3>2, <3>4 DEF TopIn, Cancels, AnyCall
  <2>9. EventChange(a, fs)
    BY <1>1, <1>4, <2>1, <2>2, <2>3, <2>7, FirstKnown DEF EventChange, EventInv, Settled,
       Triggered, EventSound, OfEvents, Joint, Sound
  <2> QED BY <2>5, <2>9, EventsAfter
<1> QED BY <1>1, <1>6, <1>7 DEF Store, This, Top

LEMMA CancelEventEvents ==
    ASSUME TasksInv, TasksInv', EventInv, NEW a \in Actors, CancelEvent(a)
    PROVE  EventInv'
<1> PICK f : f = stack[a][1]
  OBVIOUS
<1> PICK e : e = f.of
  OBVIOUS
<1>1. stack[a] # <<>> /\ f.at = "cancelEvent"
  BY DEF CancelEvent, Top
<1>3. /\ e \in Events
      /\ e # Joint => /\ a \in Setters /\ program.target[a] = e
                      /\ stored[e] # "none" \/ e \in hasValue
  BY <1>1, FirstKnown DEF Sound, EventSound, OfEvents
<1>4. UNCHANGED <<program, todo, state, exc, hasValue, stored, unused>>
  BY DEF CancelEvent, task
<1>5. /\ \A x : TopIn(a, Cancels(x)) => x = e
      /\ TopIn(a, Uses(e))
  BY <1>1, FirstKnown DEF Uses, Cancels, OfEvents
<1>6. CASE e \in isCanceled
  <2>1. Go(a, <<>>) /\ UNCHANGED <<waiting, isCanceled, wins>>
    BY <1>6 DEF CancelEvent, This
  <2> DEFINE fs == <<>>
  <2>2. fs \in Seq(AnyCall) /\ Values(fs) = {} /\ Turns(a, fs)
    BY <1>1, <2>1, NoCalls, FirstCall
  <2> HIDE DEF fs
  <2> QED
    BY <1>1, <1>4, <1>5, <1>6, <2>1, <2>2, EventsAfter DEF EventChange, EventInv, Settled,
       Triggered, EventMove
<1>7. CASE e \notin isCanceled
  <2>0. PICK g : g = [With(Call("fail", e), stored[e]) EXCEPT !.rest = waiting[e]]
    OBVIOUS
  <2>1. /\ Go(a, <<g>>) /\ isCanceled' = isCanceled \cup {e}
        /\ waiting' = [waiting EXCEPT ![e] = <<>>] /\ wins' = [wins EXCEPT ![e] = @ + 1]
    BY <1>7, <2>0 DEF CancelEvent, This
  <2> DEFINE fs == <<g>>
  <2>3. fs \in Seq(AnyCall) /\ Values(fs) = {g} /\ Turns(a, fs)
    BY <1>1, <2>1, BroughtCalls, FirstCall
  <2> HIDE DEF fs
  <2>5. \A x \in Events : Triggered(x)' <=> Triggered(x) \/ x = e
    BY <1>4, <2>1 DEF Triggered
  <2>4. g.at = "fail" /\ \A x : x \in isCanceled' => x \in isCanceled \/ x = e
    BY <2>0, <2>1 DEF Call, With
  <2>8. TopIn(a, Cancels(e))
    BY <1>1, FirstKnown DEF TopIn, Cancels
  <2>6. EventMove(a, fs)
    BY <1>1, <1>4, <1>5, <2>1, <2>3, <2>4, <2>5, <2>8 DEF EventMove, OfEvents
  <2>7. EventSound(a, g)'
    BY <1>3, <1>4, <2>0, <2>1 DEF EventSound, OfEvents, Joint, Call, With, Refused, Canceling
  <2>9. wins' \in [Events -> Nat]
    BY <1>3, <2>1 DEF EventInv
  <2>10. ASSUME NEW x \in Events
         PROVE  /\ Triggered(x)' => waiting'[x] = <<>>
                /\ wins'[x] = One(x \in hasValue') + One(x \in isCanceled')
    <3>0. /\ waiting'[e] = <<>> /\ (x # e => waiting'[x] = waiting[x])
          /\ wins \in [Events -> Nat] /\ Settled(x) /\ (x \in hasValue') = (x \in hasValue)
          /\ x \in isCanceled' <=> x \in isCanceled \/ x = e
      BY <1>3, <1>4, <2>1 DEF TasksInv, TasksTyped, EventInv
    <3>1. CASE x = e
      BY <1>7, <2>1, <3>0, <3>1 DEF Settled, One
    <3>2. CASE x # e
      BY <2>1, <2>5, <3>0, <3>2 DEF Settled, One
    <3> QED BY <3>1, <3>2
  <2>11. EventChange(a, fs)
    BY <1>3, <1>4, <2>1, <2>3, <2>7, <2>9, <2>10 DEF EventChange, Settled
  <2> QED BY <2>6, <2>11, EventsAfter
<1> QED BY <1>6, <1>7

\* Whoever held the event is gone, and has not triggered it.
LEMMA AbandonEvents ==
    ASSUME TasksInv, TasksInv', EventInv, NEW s \in Setters, Abandon(s)
    PROVE  EventInv'
<1> PICK e : e = program.target[s]
  OBVIOUS
<1>1. /\ s \in Actors /\ s # "builder" /\ stack[s] = <<>> /\ todo = <<>> /\ stack["builder"] = <<>>
      /\ e \in Events /\ waiting[e] # <<>> /\ program \in Programs
      /\ \A q \in Setters : program.target[q] = e => q \notin unused /\ stack[q] = <<>>
  BY PplxAssumption DEF Abandon, Actors, TasksInv, TasksTyped
<1>3. /\ UNCHANGED <<program, todo, state, exc, hasValue, isCanceled, stored, wins, unused>>
      /\ waiting' = [waiting EXCEPT ![e] = <<>>]
  BY DEF Abandon, task
<1>0. PICK g : g = [Call("fail", e) EXCEPT !.rest = waiting[e]]
  OBVIOUS
<1>6. Turns(s, <<g>>)
  BY <1>0, <1>1 DEF Turns, Below, Abandon
<1> DEFINE fs == <<g>>
<1>7. fs \in Seq(AnyCall) /\ Values(fs) = {g} /\ Turns(s, fs) /\ g \in AnyCall
  BY <1>1, <1>6, BroughtCalls
<1> HIDE DEF fs
<1>9. EventMove(s, fs)
  BY <1>0, <1>1, <1>3, <1>7 DEF EventMove, OfEvents, TopIn, Triggered, Call
<1>10. Dropped(e)
  <2>1. ASSUME NEW b \in Actors, NEW i \in 1..Len(stack[b]), stack[b][i] \in Uses(e)
        PROVE  FALSE
    <3> PICK h : h = stack[b][i]
      OBVIOUS
    <3> QED BY <1>1, <2>1, JoinedFacts DEF EventSound, EventInv, CallsKnow, Uses, Settled
  <2> QED
    BY <1>1, <2>1, JoinedFacts DEF Dropped, TasksInv, TasksTyped, FieldsTyped, Has, EventInv,
       Settled
<1>11. EventSound(s, g)'
  BY <1>0, <1>1, <1>3, <1>9, <1>10, RefusedStays DEF EventSound, OfEvents, Refused, Call
<1> QED
  BY <1>1, <1>3, <1>7, <1>9, <1>11, EventsAfter DEF EventChange, EventInv, Settled, TasksInv,
     TasksTyped, Triggered

LEMMA EventsInit == PplxInit => EventInv
<1> SUFFICES ASSUME PplxInit
             PROVE  EventInv
  OBVIOUS
<1>3. CallsKnow
  BY DEF CallsKnow, PplxInit
<1>4. \A e \in Events : OneCanceller(e)
  BY DEF OneCanceller, Sole, Has, PplxInit
<1> QED
  BY <1>3, <1>4, ProgramFacts DEF EventInv, EndsWith, Settled, One, Triggered, Joint, PplxInit,
     JointIdle, Has

LEMMA EventsStay ==
    ASSUME TasksInv, TasksInv', EventInv, [PplxNext]_pplxVars
    PROVE  EventInv'
<1>1. ASSUME NEW a \in Actors, Run(a)
      PROVE  EventInv'
  BY <1>1, ScheduleEvents, StartEvents, BodyEvents, TaskBodyEvents, UnwrapEvents, FinalizeEvents,
     RunEvents, ContinueEvents, CancelEvents, RegisterEvents, SetEvents, DeliverEvents,
     StoreEvents, CancelEventEvents, FailEvents, WhenEvents, CountEvents DEF Run
<1>2. ASSUME NEW a \in Actors, Work(a)
      PROVE  EventInv'
  BY <1>2, WorkEvents
<1>3. ASSUME NEW s \in Setters, Use(s) \/ Abandon(s)
      PROVE  EventInv'
  BY <1>3, UseEvents, AbandonEvents
<1>4. ASSUME NEW t \in Tasks, Callback(t)
      PROVE  EventInv'
  BY <1>4, CallbackEvents
<1> QED BY <1>1, <1>2, <1>3, <1>4, BuildEvents, TokenEvents DEF PplxNext
=============================================================================
