----------------------------- MODULE Pplx_proofs -----------------------------
(* What MCPplx checks, for every set of well formed programs, every token and *)
(* any number of threads.                                                     *)
(*                                                                            *)
(* Tasks: JointInv adds to TasksInv and EventInv of PplxTasks_proofs what     *)
(* when_all and when_any count and delete; the three together give the four   *)
(* parts of TasksSound.                                                       *)
(*                                                                            *)
(* The token: the stacks of the threads are read as roles; the inductive      *)
(* invariant, Inv, says of each registration where it is, who counts it, who  *)
(* runs its callback, and what its deregistration has decided.                *)
(*                                                                            *)
(* In MCPplx one of the two steps and the other stands still.                 *)
EXTENDS MCPplx, PplxTasks_proofs

-----------------------------------------------------------------------------
(* when_all and when_any: their tasks are counted, the last one deletes the   *)
(* parameter, and the event is told before.                                   *)

Counts(t) == {f \in AnyCall : f.at \in {"countAll", "countAny"} /\ f.of = t}
CountsAll == {f \in AnyCall : f.at = "countAll"}
Deletes == {f \in AnyCall : f.at = "delete"}
Tells == {f \in AnyCall : f.at \in {"set", "store", "cancelEvent"} /\ f.of = Joint}
AllMode == \A r \in Reporters(program) : BodyOf(r) = "all"
HasVector == \E v \in Known : BodyOf(v) = "vector"

\* The reporters that have counted themselves.
CountedIn(t) == (Done(t) \/ Has(Finals(t))) /\ ~Has(Counts(t))
Counted == {t \in Reporters(program) : CountedIn(t)}
\* The event was triggered, or somebody is about to.
Told == Triggered(Joint) \/ \E b \in Actors : TopIn(b, Tells)
\* The calls from which the results of when_all may come to be read.
Leads(f) ==
    \/ f.at \in {"set", "deliver"} /\ f.of = Joint
    \/ f.at \in {"finalize", "complete"} /\ f.of \in JointTasks(program)
    \/ f.at = "continue" /\ f.of \in JointTasks(program) /\ state[f.of] = "Completed"
    \/ f.at \in {"start", "perform"} /\ f.of \in Known /\ BodyOf(f.of) = "vector"

JointSound(f) ==
    /\ f.at = "countAny" => ~AllMode
    /\ f.at = "store" /\ f.of = Joint => AllMode
    /\ f.at = "keep" /\ f.of = Joint => ~AllMode
    /\ f.at = "cancelEvent" /\ f.exc # "none" /\ f.of = Joint => AllMode
\* A task counts itself, then it finishes.
Followed(b, i) ==
    stack[b][i].at \in {"countAll", "countAny"} =>
        i + 1 \in 1..Len(stack[b]) /\ stack[b][i + 1] \in Finals(stack[b][i].of)
\* Who deletes the parameter does so after the results are read.
Covered(b, i) ==
    HasVector /\ Leads(stack[b][i]) => \E j \in (i + 1)..Len(stack[b]) : stack[b][j] \in Deletes
FramesSound ==
    \A b \in Actors : \A i \in 1..Len(stack[b]) :
        JointSound(stack[b][i]) /\ Followed(b, i) /\ Covered(b, i)
CountSound ==
    /\ count = Cardinality(Counted)
    /\ Has(CountsAll) => Told
    /\ count = program.parts /\ program.parts > 0 => Told /\ (Has(Deletes) \/ param = "deleted")
    /\ AllMode /\ stored[Joint] # "none" =>
        Triggered(Joint) \/ \E b \in Actors : TopIn(b, Cancels(Joint))
DeleteSound ==
    /\ param \in {"exists", "deleted"} /\ Sole(Deletes)
    /\ Has(Deletes) => param = "exists" /\ count = program.parts
    /\ param = "deleted" => count = program.parts
JointInv == FramesSound /\ CountSound /\ DeleteSound

LEMMA LeadsBack ==
    ASSUME UNCHANGED program, FinishedStay, program \in Programs, NEW b, NEW f, Sound(b, f), Leads(f)'
    PROVE  Leads(f)
  BY ProgramFacts DEF Leads, Joint, Known, BodyOf, Info, FinishedStay, Sound

\* The calls below the innermost one move up, or down, together.
LEMMA FramesAfter ==
    ASSUME TasksInv, JointInv, NEW a \in Actors, NEW fs \in Seq(AnyCall), Turns(a, fs),
           UNCHANGED program, FinishedStay,
           \A g \in Values(fs) : JointSound(g),
           \A i \in 1..Len(fs) : fs[i].at \in {"countAll", "countAny"} =>
               i + 1 \in 1..Len(fs) /\ fs[i + 1] \in Finals(fs[i].of),
           \A i \in 1..Len(fs) : HasVector /\ Leads(fs[i])' =>
               \/ \E j \in (i + 1)..Len(fs) : fs[j] \in Deletes
               \/ stack[a] # <<>> /\ Leads(stack[a][1])
    PROVE  FramesSound'
<1>1. /\ StacksTyped /\ program \in Programs /\ Known' = Known /\ (HasVector' <=> HasVector)
      /\ Joint' = Joint /\ (AllMode' <=> AllMode)
      /\ \A f : JointSound(f)' <=> JointSound(f)
      /\ \A t : Finals(t)' = Finals(t)
      /\ Deletes' = Deletes
  <2>1. Known' = Known /\ \A t : BodyOf(t)' = BodyOf(t)
    BY DEF Known, BodyOf, Info
  <2>2. Joint' = Joint /\ Reporters(program') = Reporters(program)
    BY DEF Joint
  <2>3. AllMode' <=> AllMode
    BY <2>1, <2>2 DEF AllMode
  <2> QED
    BY <2>1, <2>2, <2>3 DEF TasksInv, TasksTyped, HasVector, JointSound, Finals, Deletes, AnyCall
<1>2. /\ \A b \in Actors \ {a} : stack'[b] = stack[b]
      /\ Len(fs) \in Nat
      /\ \A i \in 1..Len(fs) : i \in 1..Len(stack'[a]) /\ stack'[a][i] = fs[i]
      /\ \A i \in 1..Len(stack'[a]) :
            i \in 1..Len(fs) \/ (/\ i - Len(fs) + 1 \in 2..Len(stack[a])
                                 /\ stack'[a][i] = stack[a][i - Len(fs) + 1])
      /\ \A i \in 2..Len(stack[a]) :
            /\ i - 1 + Len(fs) \in 1..Len(stack'[a])
            /\ stack'[a][i - 1 + Len(fs)] = stack[a][i]
  BY <1>1, Turned
<1>3. Len(stack[a]) \in Nat /\ Len(stack'[a]) \in Nat /\ (stack[a] # <<>> => 1 \in 1..Len(stack[a]))
  BY <1>1, Turned, LenProperties, EmptySeq DEF StacksTyped
<1>4. ASSUME NEW b \in Actors, NEW j \in 1..Len(stack[b]), NEW f, f = stack[b][j], Leads(f)'
      PROVE  Leads(f)
  <2>1. Sound(b, f)
    BY <1>4 DEF TasksInv, PlacesSound, CallsSound
  <2> QED BY <1>1, <1>4, <2>1, LeadsBack
<1>5. ASSUME NEW b \in Actors, NEW j \in 1..Len(stack[b]), NEW f, f = stack[b][j]
      PROVE  /\ JointSound(f)
             /\ f.at \in {"countAll", "countAny"} =>
                    j + 1 \in 1..Len(stack[b]) /\ stack[b][j + 1] \in Finals(f.of)
             /\ HasVector /\ Leads(f) => \E k \in (j + 1)..Len(stack[b]) : stack[b][k] \in Deletes
  BY <1>5 DEF JointInv, FramesSound, Followed, Covered
<1>6. ASSUME NEW b \in Actors, NEW i \in 1..Len(stack'[b]), NEW f, f = stack'[b][i]
      PROVE  /\ JointSound(f)
             /\ f.at \in {"countAll", "countAny"} =>
                    i + 1 \in 1..Len(stack'[b]) /\ stack'[b][i + 1] \in Finals(f.of)
             /\ HasVector /\ Leads(f)' => \E k \in (i + 1)..Len(stack'[b]) : stack'[b][k] \in Deletes
  <2>1. CASE b # a
    <3>1. stack'[b] = stack[b]
      BY <1>2, <2>1
    <3>2. i \in 1..Len(stack[b]) /\ f = stack[b][i]
      BY <1>6, <3>1
    <3> QED BY <1>4, <1>5, <3>1, <3>2
  <2>2. CASE b = a /\ i \in 1..Len(fs)
    <3>1. f = fs[i] /\ f \in Values(fs)
      BY <1>2, <1>6, <2>2 DEF Values
    <3>2. f.at \in {"countAll", "countAny"} =>
            i + 1 \in 1..Len(stack'[b]) /\ stack'[b][i + 1] \in Finals(f.of)
      BY <1>2, <2>2, <3>1
    <3>3. ASSUME HasVector, Leads(f)'
          PROVE  \E k \in (i + 1)..Len(stack'[a]) : stack'[a][k] \in Deletes
      <4>1. \/ \E j \in (i + 1)..Len(fs) : fs[j] \in Deletes
            \/ stack[a] # <<>> /\ Leads(stack[a][1])
        BY <2>2, <3>1, <3>3
      <4>2. ASSUME NEW j \in (i + 1)..Len(fs), fs[j] \in Deletes
            PROVE  \E k \in (i + 1)..Len(stack'[a]) : stack'[a][k] \in Deletes
        <5>1. j \in 1..Len(fs) /\ j \in 1..Len(stack'[a]) /\ stack'[a][j] = fs[j]
          BY <1>2, <2>2, <4>2
        <5> QED BY <1>3, <2>2, <4>2, <5>1
      <4>3. CASE stack[a] # <<>> /\ Leads(stack[a][1])
        <5>1. PICK k \in 2..Len(stack[a]) : stack[a][k] \in Deletes
          BY <1>3, <1>5, <3>3, <4>3
        <5>2. /\ k - 1 + Len(fs) \in 1..Len(stack'[a])
              /\ stack'[a][k - 1 + Len(fs)] \in Deletes
          BY <1>2, <5>1
        <5>3. k - 1 + Len(fs) \in (i + 1)..Len(stack'[a])
          BY <1>2, <1>3, <2>2, <5>1, <5>2
        <5> QED BY <5>2, <5>3
      <4> QED BY <4>1, <4>2, <4>3
    <3> QED BY <2>2, <3>1, <3>2, <3>3
  <2>3. CASE b = a /\ i \notin 1..Len(fs)
    <3> PICK k : k = i - Len(fs) + 1
      OBVIOUS
    <3>1. k \in 2..Len(stack[a]) /\ f = stack[a][k] /\ i = k - 1 + Len(fs)
      <4>1. i \in 1..Len(stack'[a]) /\ i \notin 1..Len(fs)
        BY <2>3
      <4>2. k \in 2..Len(stack[a]) /\ stack'[a][i] = stack[a][k]
        BY <1>2, <4>1
      <4>3. i = k - 1 + Len(fs)
        BY <1>2, <1>3, <4>1
      <4> QED BY <1>6, <2>3, <4>2, <4>3
    <3>2. k \in 1..Len(stack[a])
      BY <1>3, <3>1
    <3>3. ASSUME NEW j \in (k + 1)..Len(stack[a])
          PROVE  j - 1 + Len(fs) \in (i + 1)..Len(stack'[a]) /\ stack'[a][j - 1 + Len(fs)] = stack[a][j]
      <4>1. j \in 2..Len(stack[a])
        BY <1>3, <3>1
      <4>2. j - 1 + Len(fs) \in 1..Len(stack'[a]) /\ stack'[a][j - 1 + Len(fs)] = stack[a][j]
        BY <1>2, <4>1
      <4> QED BY <1>2, <1>3, <3>1, <4>2
    <3>4. f.at \in {"countAll", "countAny"} =>
            i + 1 \in 1..Len(stack'[b]) /\ stack'[b][i + 1] \in Finals(f.of)
      <4>1. SUFFICES ASSUME f.at \in {"countAll", "countAny"}
                     PROVE  i + 1 \in 1..Len(stack'[a]) /\ stack'[a][i + 1] \in Finals(f.of)
        BY <2>3
      <4>2. k + 1 \in 1..Len(stack[a]) /\ stack[a][k + 1] \in Finals(f.of)
        BY <1>5, <3>1, <3>2, <4>1
      <4>3. k + 1 \in (k + 1)..Len(stack[a]) /\ (k + 1) - 1 + Len(fs) = i + 1
        BY <1>2, <1>3, <3>1, <4>2
      <4>4. i + 1 \in (i + 1)..Len(stack'[a]) /\ stack'[a][i + 1] = stack[a][k + 1]
        BY <3>3, <4>3
      <4> QED BY <1>3, <2>3, <4>2, <4>4
    <3>5. ASSUME HasVector, Leads(f)'
          PROVE  \E j \in (i + 1)..Len(stack'[a]) : stack'[a][j] \in Deletes
      <4>1. PICK j \in (k + 1)..Len(stack[a]) : stack[a][j] \in Deletes
        BY <1>4, <1>5, <3>1, <3>2, <3>5
      <4> QED BY <3>3, <4>1
    <3> QED BY <1>5, <2>3, <3>1, <3>2, <3>4, <3>5
  <2> QED BY <2>1, <2>2, <2>3
<1>7. ASSUME NEW b \in Actors, NEW i \in 1..Len(stack'[b])
      PROVE  (JointSound(stack[b][i]) /\ Followed(b, i) /\ Covered(b, i))'
  <2> PICK f : f = stack'[b][i]
    OBVIOUS
  <2>1. JointSound(stack[b][i])'
    <3>1. JointSound(f)
      BY <1>6
    <3> QED BY <1>1, <3>1 DEF JointSound
  <2>2. Followed(b, i)'
    <3>1. \A t, g : g \in {h \in AnyCall : h.at = "finalize" /\ h.of = t} <=> g \in Finals(t)
      BY DEF Finals
    <3>2. f.at \in {"countAll", "countAny"} =>
            /\ i + 1 \in 1..Len(stack'[b])
            /\ stack'[b][i + 1] \in {h \in AnyCall : h.at = "finalize" /\ h.of = f.of}
      BY <1>6, <3>1
    <3> QED BY <3>2 DEF Followed, Finals, AnyCall
  <2>3. Covered(b, i)'
    <3>1. HasVector' /\ Leads(stack[b][i])' => HasVector /\ Leads(f)'
      BY <1>1 DEF Leads
    <3> QED BY <1>6, <3>1 DEF Covered, Deletes, AnyCall
  <2> QED BY <2>1, <2>2, <2>3
<1> QED BY <1>7 DEF FramesSound

\* A task that has still to count itself has still to finish, and is in no
\* other call.
LEMMA CountOnce ==
    ASSUME TasksInv, JointInv, NEW t \in Tasks
    PROVE  /\ Sole(Counts(t))
           /\ Has(Counts(t)) => Has(Finals(t)) /\ \A a \in Actors : ~TopIn(a, Handlers(t))
<1>1. ASSUME NEW b \in Actors, NEW i \in 1..Len(stack[b]), stack[b][i] \in Counts(t)
      PROVE  i + 1 \in 1..Len(stack[b]) /\ stack[b][i + 1] \in Finals(t) /\ stack[b][i + 1] \in Handlers(t)
  BY <1>1 DEF Finals, Handlers, HandledBy, Single, JointInv, FramesSound, Followed, Counts
<1>2. Sole(Handlers(t))
  BY DEF TasksInv, PlacesSound, HandledOnce
<1>3. Sole(Counts(t))
  <2>1. SUFFICES ASSUME NEW b \in Actors, NEW c \in Actors, NEW i \in 1..Len(stack[b]),
                        NEW j \in 1..Len(stack[c]), stack[b][i] \in Counts(t), stack[c][j] \in Counts(t)
                 PROVE  b = c /\ i = j
    BY DEF Sole
  <2>2. b = c /\ i + 1 = j + 1
    BY <1>1, <1>2, <2>1 DEF Sole
  <2> QED BY <2>2, LenProperties DEF TasksInv, TasksTyped, StacksTyped
<1>4. ASSUME Has(Counts(t)), NEW a \in Actors, TopIn(a, Handlers(t))
      PROVE  FALSE
  <2>1. PICK b \in Actors : \E i \in 1..Len(stack[b]) : stack[b][i] \in Counts(t)
    BY <1>4 DEF Has
  <2>2. PICK i \in 1..Len(stack[b]) : stack[b][i] \in Counts(t)
    BY <2>1
  <2>3. 1 \in 1..Len(stack[a]) /\ Len(stack[b]) \in Nat
    BY <1>4, LenProperties, EmptySeq DEF TopIn, TasksInv, TasksTyped, StacksTyped
  <2> QED BY <1>1, <1>2, <1>4, <2>2, <2>3 DEF Sole, TopIn
<1> QED BY <1>1, <1>3, <1>4 DEF Has

LEMMA CountedStays ==
    ASSUME TasksInv, JointInv, NEW a \in Actors, NEW fs \in Seq(AnyCall), Turns(a, fs), NEW t \in Tasks,
           ~SomeOf(fs, Counts(t)), ~TopIn(a, Counts(t)), ~SomeOf(fs, Finals(t)),
           Done(t)' <=> Done(t) \/ TopIn(a, Finals(t))
    PROVE  CountedIn(t)' <=> CountedIn(t)
<1>0. StacksTyped
  BY DEF TasksInv, TasksTyped
<1>2. CASE TopIn(a, Finals(t))
  <2>1. ~Has(Counts(t)) /\ Has(Finals(t))
    BY <1>0, <1>2, LenProperties, EmptySeq, CountOnce DEF TopIn, Has, StacksTyped, Finals,
       Handlers, HandledBy, Single
  <2> QED BY <1>0, <1>2, <2>1, TurnedHas DEF CountedIn, Counts, AnyCall
<1>3. CASE ~TopIn(a, Finals(t))
  BY <1>0, <1>3, TurnedHas DEF CountedIn, Finals, AnyCall, Counts
<1> QED BY <1>2, <1>3

\* The counter: how many have counted themselves.
LEMMA CountBound ==
    ASSUME TasksInv, JointInv
    PROVE  /\ count \in 0..program.parts /\ program.parts \in Nat
           /\ \A t \in Reporters(program) : ~CountedIn(t) => count < program.parts
           /\ count < program.parts => ~Has(Deletes) /\ param = "exists"
           /\ count = program.parts => \A t \in Reporters(program) : CountedIn(t)
<1>1. /\ IsFiniteSet(Reporters(program)) /\ program.parts = Cardinality(Reporters(program))
  BY JoinedFacts DEF TasksInv, TasksTyped
<1>4. \A t \in Reporters(program) : ~CountedIn(t) => t \notin Counted
  BY DEF Counted
<1> QED
  BY <1>1, <1>4, FS_Subset, FS_CardinalityType DEF JointInv, DeleteSound, Counted, CountSound

LEMMA CountedAfter ==
    ASSUME TasksInv, JointInv, UNCHANGED program
    PROVE  /\ (\A t \in Reporters(program) : CountedIn(t)' <=> CountedIn(t)) =>
                count = Cardinality(Counted')
           /\ \A u \in Reporters(program) :
                /\ ~CountedIn(u) /\ CountedIn(u)'
                /\ \A t \in Reporters(program) \ {u} : CountedIn(t)' <=> CountedIn(t)
                => count + 1 = Cardinality(Counted')
<1>2. count = Cardinality(Counted) /\ Counted \in SUBSET Reporters(program)
  BY DEF Counted, JointInv, CountSound
<1>3. IsFiniteSet(Counted)
  BY <1>2, JoinedFacts, FS_Subset DEF TasksInv, TasksTyped
<1>5. ASSUME \A t \in Reporters(program) : CountedIn(t)' <=> CountedIn(t)
      PROVE  count = Cardinality(Counted')
  BY <1>2, <1>5 DEF Counted
<1>6. ASSUME NEW u \in Reporters(program), ~CountedIn(u), CountedIn(u)',
             \A t \in Reporters(program) \ {u} : CountedIn(t)' <=> CountedIn(t)
      PROVE  count + 1 = Cardinality(Counted')
  BY <1>2, <1>3, <1>6, FS_AddElement DEF Counted
<1> QED BY <1>5, <1>6

LEMMA ToldStays ==
    ASSUME TasksInv, NEW a \in Actors, NEW fs \in Seq(AnyCall), Turns(a, fs), UNCHANGED program,
           Triggered(Joint) => Triggered(Joint)'
    PROVE  /\ Told => Told' \/ TopIn(a, Tells)
           /\ (\E b \in Actors : TopIn(b, Cancels(Joint))) =>
                (\E b \in Actors : TopIn(b, Cancels(Joint))') \/ TopIn(a, Cancels(Joint))
<1>1. \A b \in Actors \ {a} : stack'[b] = stack[b]
  BY Turned DEF TasksInv, TasksTyped
<1> QED BY <1>1 DEF Told, TopIn, Tells, Cancels, Joint, AnyCall

\* A step that has nothing to do with when_all and when_any.
Concerns(f) ==
    \/ f.at \in {"countAll", "countAny", "delete"}
    \/ f.at \in OfEvents /\ f.of = Joint
    \/ f.at = "finalize" /\ f.of \in Reporters(program)

LEMMA Aside ==
    ASSUME TasksInv, JointInv, NEW a \in Actors, NEW fs \in Seq(AnyCall), Turns(a, fs),
           UNCHANGED <<program, count, param>>, FinishedStay,
           Triggered(Joint) => Triggered(Joint)', stored'[Joint] # "none" => stored[Joint] # "none",
           \A r \in Reporters(program) : Done(r)' <=> Done(r) \/ TopIn(a, Finals(r)),
           stack[a] # <<>> /\ Concerns(stack[a][1]) => stack[a][1].at = "finalize",
           \A g \in Values(fs) : ~Concerns(g),
           \A g \in Values(fs) : HasVector /\ Leads(g)' => stack[a] # <<>> /\ Leads(stack[a][1])
    PROVE  JointInv'
<1>1. /\ StacksTyped /\ program \in Programs /\ Joint' = Joint /\ Reporters(program) \subseteq Tasks
      /\ (AllMode' <=> AllMode)
      /\ \A i \in 1..Len(fs) : fs[i] \in Values(fs)
  BY JoinedFacts DEF TasksInv, TasksTyped, Joint, AllMode, BodyOf, Info, Values
<1>2. /\ \A S : SomeOf(fs, S) => \E g \in Values(fs) : g \in S
      /\ \A S : TopIn(a, S) => stack[a] # <<>> /\ stack[a][1] \in S
  BY DEF SomeOf, Values, TopIn
<1>3. FramesSound'
  BY <1>1, FramesAfter DEF Concerns, JointSound, OfEvents
<1>4. \A t \in Reporters(program) : CountedIn(t)' <=> CountedIn(t)
  <2>1. SUFFICES ASSUME NEW t \in Reporters(program)
                 PROVE  CountedIn(t)' <=> CountedIn(t)
    OBVIOUS
  <2>2. ~SomeOf(fs, Counts(t)) /\ ~SomeOf(fs, Finals(t))
    BY <1>2 DEF Counts, Finals, Concerns
  <2> QED BY <1>1, <1>2, <2>2, CountedStays DEF Counts, Concerns
<1>5. count' = Cardinality(Counted')
  BY <1>4, CountedAfter
<1>6. /\ ~SomeOf(fs, CountsAll) /\ ~SomeOf(fs, Deletes) /\ ~TopIn(a, Deletes)
      /\ ~TopIn(a, Tells) /\ ~TopIn(a, Cancels(Joint))
  BY <1>2 DEF CountsAll, Deletes, Tells, Cancels, Concerns, OfEvents
<1> QED
  BY <1>1, <1>3, <1>5, <1>6, TurnedHas, TurnedSole, ToldStays DEF JointInv, DeleteSound,
     CountsAll, Deletes, AnyCall, CountSound

\* A call that such a step may bring in the place of f.
Outside(f, c) == ~Concerns(c) /\ (HasVector /\ Leads(c)' => Leads(f))

LEMMA AsideStep ==
    ASSUME TasksInv, TasksInv', JointInv, NEW a \in Actors, stack[a] # <<>>, NEW f, f = stack[a][1],
           UNCHANGED <<program, count, param>>, FinishedStay,
           Triggered(Joint) => Triggered(Joint)', stored'[Joint] # "none" => stored[Joint] # "none",
           \A r \in Reporters(program) : Done(r)' <=> Done(r) \/ (f.at = "finalize" /\ f.of = r),
           Concerns(f) => f.at = "finalize",
           NEW g, NEW h, Outside(f, g), Outside(f, h), Go(a, <<>>) \/ Go(a, <<g>>) \/ Go(a, <<g, h>>)
    PROVE  JointInv'
<1>1. PICK fs \in Seq(AnyCall) : Go(a, fs) /\ Turns(a, fs) /\ Values(fs) \subseteq {g, h, h}
  BY Brought
<1> QED BY <1>1, TopFacts, Aside DEF Outside

\* Tasks, continuations and events stay as they are.
LEMMA AsideStill ==
    ASSUME TasksInv, TasksInv', JointInv, NEW a \in Actors, stack[a] # <<>>, NEW f, f = stack[a][1],
           UNCHANGED <<program, state, exc, count, param>>,
           Triggered(Joint) => Triggered(Joint)', stored'[Joint] # "none" => stored[Joint] # "none",
           ~Concerns(f), f.at # "finalize",
           NEW g, NEW h, Outside(f, g), Outside(f, h), Go(a, <<>>) \/ Go(a, <<g>>) \/ Go(a, <<g, h>>)
    PROVE  JointInv'
  BY AsideStep DEF Done, FinishedStay

\* One task that is not finished changes its state.
LEMMA AsideOwn ==
    ASSUME TasksInv, TasksInv', JointInv, NEW a \in Actors, stack[a] # <<>>, NEW f, f = stack[a][1],
           UNCHANGED <<program, count, param, hasValue, isCanceled, stored>>,
           NEW t \in Known, ~Done(t),
           \A u \in Tasks : u # t => state'[u] = state[u] /\ exc'[u] = exc[u],
           f.at = "finalize" => f.of = t /\ Done(t)',
           Done(t)' => t \notin Reporters(program) \/ f.at = "finalize",
           Concerns(f) => f.at = "finalize",
           NEW g, Outside(f, g), Go(a, <<>>) \/ Go(a, <<g>>)
    PROVE  JointInv'
<1>1. FinishedStay
  BY DEF FinishedStay
<1> QED BY <1>1, JoinedFacts, AsideStep DEF Done, Triggered, Joint, TasksInv, TasksTyped

LEMMA OutsideCalls ==
    ASSUME program \in Programs, UNCHANGED program, NEW f
    PROVE  /\ \A c : c.at \in {"register", "schedule", "cancel", "cancelled", "run", "fail"} => Outside(f, c)
           /\ \A c : c.at = "finalize" /\ c.of \notin Reporters(program) \cup JointTasks(program) => Outside(f, c)
           /\ \A c : c.at \in {"start", "perform"} /\ (c.of \in Known => BodyOf(c.of) # "vector") => Outside(f, c)
           /\ \A t \in Known : Info(t).from # "event" => t \notin JointTasks(program)
  BY JoinedFacts DEF Outside, Concerns, Leads, OfEvents, Joint, Known, BodyOf, Info

\* The task that reads the results of when_all is made before anybody reports.
LEMMA ScheduleJoint ==
    ASSUME TasksInv, TasksInv', EventInv, JointInv, NEW a \in Actors, Schedule(a)
    PROVE  JointInv'
<1> PICK f : f = stack[a][1]
  OBVIOUS
<1> PICK t : t = f.of
  OBVIOUS
<1> PICK from : from = Antecedent(t)
  OBVIOUS
<1> PICK g : g = Call("start", t)
  OBVIOUS
<1> PICK h : h = Cancelling(t, exc[from])
  OBVIOUS
<1>1. stack[a] # <<>> /\ f.at = "schedule"
  BY DEF Schedule, Top
<1>2. t \in Known /\ Info(t).from = "then" /\ Newest(t) /\ program \in Programs
  BY <1>1, FirstCall DEF Sound, Schedules
<1>3. BodyOf(t) = "vector" => state[from] # "Completed"
  BY <1>2, JoinedFacts, ProgramFacts DEF EndsWith, Triggered, EventInv, JointIdle, Newest,
     CompletedBy, Joint
<1>4. \/ Go(a, <<>>) \/ Go(a, <<h>>)
      \/ Go(a, <<g>>) /\ BodyOf(t) # "vector"
  <2>2. Dispatch(a, t, <<>>) => Go(a, <<>>) \/ Go(a, <<g>>)
    BY DEF Dispatch
  <2> QED BY <1>2, <1>3, <2>2, JoinedFacts DEF Schedule, This, Done, Outcome
<1>5. UNCHANGED <<program, state, exc, hasValue, isCanceled, stored, count, param>>
  BY DEF Schedule, event, joint
<1>6. /\ Outside(f, h)
      /\ BodyOf(t) # "vector" => Outside(f, g)
  BY <1>2, <1>5, OutsideCalls DEF Call, Cancelling
<1>9. CASE Go(a, <<>>) \/ Go(a, <<h>>)
  BY <1>1, <1>5, <1>6, <1>9, AsideStill DEF Triggered, Joint, Concerns, OfEvents
<1>10. CASE Go(a, <<g>>) /\ BodyOf(t) # "vector"
  BY <1>1, <1>5, <1>6, <1>10, AsideStill DEF Triggered, Joint, Concerns, OfEvents
<1> QED BY <1>4, <1>9, <1>10

LEMMA StartJoint ==
    ASSUME TasksInv, TasksInv', JointInv, NEW a \in Actors, Start(a)
    PROVE  JointInv'
<1> PICK f : f = stack[a][1]
  OBVIOUS
<1> PICK t : t = f.of
  OBVIOUS
<1> PICK x : x = IF Info(t).from = "then" THEN exc[Antecedent(t)] ELSE "none"
  OBVIOUS
<1>1. stack[a] # <<>> /\ f.at = "start"
  BY DEF Start, Top
<1>2. t \in Known /\ Info(t).from # "event" /\ Known \subseteq Tasks /\ Fresh(t) /\ program \in Programs
  BY <1>1, FirstCall DEF Sound, Startable
<1>4. UNCHANGED <<program, exc, hasValue, isCanceled, stored, count, param>>
  BY DEF Start, event, joint
<1>5. Outside(f, Cancelling(t, x)) /\ Outside(f, Call("perform", t))
  <2>3. Leads(Call("perform", t))' => Leads(f)
    BY <1>1, <1>2, <1>4 DEF Leads, Known, BodyOf, Info, Call
  <2> QED BY <1>2, <1>4, <2>3, OutsideCalls DEF Outside, Cancelling, Call, Concerns, OfEvents
<1>6. PICK g : Outside(f, g) /\ Go(a, <<g>>)
  BY <1>5 DEF Start, This
<1> QED
  BY <1>1, <1>2, <1>4, <1>6, AsideOwn DEF Done, Fresh, Outcome, TasksInv, TasksTyped, Start, This,
     Concerns, OfEvents

LEMMA BodyJoint ==
    ASSUME TasksInv, TasksInv', JointInv, NEW a \in Actors, UserBody(a) \/ Vector(a)
    PROVE  JointInv'
<1> PICK f : f = stack[a][1]
  OBVIOUS
<1> PICK t : t = f.of
  OBVIOUS
<1>1. stack[a] # <<>> /\ f.at = "perform" /\ BodyOf(t) \in {"user", "vector", "value"}
  BY DEF UserBody, Vector, Top, This, BodyOf
<1>3. PICK g \in {Call("finalize", t), Cancelling(t, "none"), Cancelling(t, t)} : Go(a, <<g>>)
  BY DEF UserBody, Vector, This
<1>4. UNCHANGED <<program, state, exc, hasValue, isCanceled, stored, count, param>>
  BY DEF UserBody, Vector, task, event, joint
<1>5. Outside(f, g)
  BY <1>1, <1>3, <1>4, FirstCall, JoinedFacts, OutsideCalls DEF Sound, Performs, Call, Cancelling
<1> QED BY <1>1, <1>3, <1>4, <1>5, AsideStill DEF Triggered, Joint, Concerns, OfEvents

LEMMA TaskBodyJoint ==
    ASSUME TasksInv, TasksInv', JointInv, NEW a \in Actors, TaskBody(a)
    PROVE  JointInv'
<1> PICK f : f = stack[a][1]
  OBVIOUS
<1> PICK t : t = f.of
  OBVIOUS
<1> PICK o : o = Info(t).other
  OBVIOUS
<1>1. stack[a] # <<>> /\ f.at = "perform" /\ BodyOf(t) = "task"
  BY DEF TaskBody, Top, This, BodyOf
<1>2. t \in Known /\ Known \subseteq Tasks /\ program \in Programs /\ Unbegun(t)
  BY <1>1, FirstCall DEF Sound, Performs
<1>4. UNCHANGED <<program, exc, hasValue, isCanceled, stored, count, param>>
  BY DEF TaskBody, event, joint
<1>6. \A x : Outside(f, Cancelling(t, x)) /\ Outside(f, Call("schedule", o))
  BY <1>2, <1>4, OutsideCalls DEF Cancelling, Call
<1>7. PICK g : Outside(f, g) /\ Go(a, <<g>>)
  BY <1>6 DEF TaskBody, This
<1>8. \A u \in Tasks : state'[u] = state[u] \/ (u = o /\ state'[u] = "Created")
  BY DEF TasksInv, TasksTyped, TaskBody, This
<1>10. ~Concerns(f) /\ f.at # "finalize"
  BY <1>1 DEF Concerns, OfEvents
<1> QED BY <1>1, <1>2, <1>4, <1>7, <1>8, <1>10, ProgramFacts, AsideOwn DEF Done, Outcome, Unbegun

LEMMA UnwrapJoint ==
    ASSUME TasksInv, TasksInv', JointInv, NEW a \in Actors, Unwrap(a)
    PROVE  JointInv'
<1> PICK f : f = stack[a][1]
  OBVIOUS
<1> PICK t : t = f.of
  OBVIOUS
<1> PICK o : o = Info(t).other
  OBVIOUS
<1> PICK inner : inner = Antecedent(t)
  OBVIOUS
<1> PICK g : g = IF state[inner] = "Completed" THEN Call("finalize", o) ELSE Cancelling(o, exc[inner])
  OBVIOUS
<1> PICK h : h = Call("finalize", t)
  OBVIOUS
<1>1. stack[a] # <<>> /\ f.at = "perform" /\ BodyOf(t) = "unwrap"
  BY DEF Unwrap, Top, This, BodyOf
<1>2. t \in Known /\ program \in Programs
  BY <1>1, FirstCall DEF Sound, Performs
<1>7. Outside(f, g) /\ Outside(f, h)
  BY <1>1, <1>2, ProgramFacts, JoinedFacts, OutsideCalls DEF Call, Cancelling, Unwrap, task,
     event, joint
<1> QED
  BY <1>1, <1>7, AsideStill DEF Triggered, Joint, Concerns, OfEvents, Unwrap, This, task, event,
     joint

LEMMA FinalizeJoint ==
    ASSUME TasksInv, TasksInv', JointInv, NEW a \in Actors, Finalize(a)
    PROVE  JointInv'
<1> PICK f : f = stack[a][1]
  OBVIOUS
<1> PICK t : t = f.of
  OBVIOUS
<1> PICK g : g = Call("complete", t)
  OBVIOUS
<1>1. stack[a] # <<>> /\ f.at = "finalize"
  BY DEF Finalize, Top
<1>2. t \in Known /\ Known \subseteq Tasks /\ ~Done(t) /\ program \in Programs
  BY <1>1, FirstCall DEF Sound, Finishes, Fresh, Underway, Done, Outcome
<1>3. Go(a, <<g>>) /\ state' = [state EXCEPT ![t] = "Completed"]
  BY <1>2 DEF Finalize, This, Done, Outcome
<1>5. Outside(f, g)
  BY <1>1 DEF Outside, Concerns, Leads, OfEvents, Call, Finalize, event, joint
<1> QED
  BY <1>1, <1>2, <1>3, <1>5, AsideOwn DEF Done, Outcome, TasksInv, TasksTyped, Finalize, event,
     joint

LEMMA RunJoint ==
    ASSUME TasksInv, TasksInv', JointInv, NEW a \in Actors, Complete(a) \/ Cancelled(a)
    PROVE  JointInv'
<1> PICK f : f = stack[a][1]
  OBVIOUS
<1> PICK t : t = f.of
  OBVIOUS
<1>0. PICK g : g = [Call("continue", t) EXCEPT !.rest = conts[t]]
  OBVIOUS
<1>1. stack[a] # <<>> /\ f.at \in {"complete", "run", "cancelled"}
  BY DEF Complete, Cancelled, Top
<1>4. UNCHANGED <<program, state, exc, hasValue, isCanceled, stored, count, param>>
  BY DEF Complete, Cancelled, event, joint
<1>5. f.at \in {"complete", "run"} => Outside(f, g)
  BY <1>0, <1>1, <1>4, FirstCall DEF Outside, Concerns, Leads, OfEvents, Sound, Call
<1>8. Outside(f, Call("run", t))
  <2>1. program \in Programs /\ UNCHANGED program /\ Call("run", t).at = "run"
    BY <1>4 DEF Call, TasksInv, TasksTyped
  <2> QED BY <2>1, OutsideCalls
<1>9. CASE f.at \in {"complete", "run"} /\ Go(a, <<g>>)
  BY <1>1, <1>4, <1>5, <1>9, AsideStill DEF Triggered, Joint, Concerns, OfEvents
<1>10. CASE Go(a, <<>>)
  BY <1>1, <1>4, <1>8, <1>10, AsideStill DEF Triggered, Joint, Concerns, OfEvents
<1> QED BY <1>0, <1>9, <1>10 DEF Complete, Cancelled, This, Top

LEMMA ContinueJoint ==
    ASSUME TasksInv, TasksInv', JointInv, NEW a \in Actors, Continue(a)
    PROVE  JointInv'
<1> PICK f : f = stack[a][1]
  OBVIOUS
<1> PICK t : t = f.of
  OBVIOUS
<1> PICK n : n = Head(f.rest)
  OBVIOUS
<1>0. PICK h : h = [f EXCEPT !.rest = Tail(f.rest)]
  OBVIOUS
<1>1. stack[a] # <<>> /\ f.at = "continue"
  BY DEF Continue, Top
<1>2. f \in AnyCall /\ Sound(a, f) /\ t \in Known /\ Done(t) /\ program \in Programs
  <2>1. f \in AnyCall /\ Sound(a, f) /\ program \in Programs
    BY <1>1, FirstCall
  <2> QED BY <1>1, <2>1 DEF Sound
<1>3. UNCHANGED <<program, state, exc, hasValue, isCanceled, stored, count, param>>
  BY DEF Continue, task, event, joint
<1>5. ~Concerns(f) /\ f.at # "finalize"
  BY <1>1 DEF Concerns, OfEvents
<1>6. (Triggered(Joint) => Triggered(Joint)') /\ stored'[Joint] = stored[Joint]
  BY <1>3 DEF Triggered, Joint
<1>7. Outside(f, h)
  BY <1>0, <1>1, <1>2, <1>3 DEF Outside, Concerns, Leads, OfEvents, AnyCall
<1>8. CASE f.rest = <<>>
  BY <1>1, <1>3, <1>5, <1>6, <1>7, <1>8, AsideStill DEF Continue, This
<1>9. CASE f.rest # <<>> /\ state[t] = "Canceled" /\ ~Based(n)
  <2> PICK g : g = Cancelling(n, exc[t])
    OBVIOUS
  <2>2. Go(a, <<g, h>>)
    BY <1>0, <1>9, JoinedCalls DEF Continue, This
  <2>3. Outside(f, g)
    BY <1>2, <1>3, OutsideCalls DEF Call, Cancelling
  <2> QED BY <1>1, <1>3, <1>5, <1>6, <1>7, <2>2, <2>3, AsideStill
<1>10. CASE f.rest # <<>> /\ (state[t] # "Canceled" \/ Based(n))
  <2> PICK g : g = Call("start", n)
    OBVIOUS
  <2>4. Outside(f, g)
    <3>2. BodyOf(n) = "vector" => Leads(f)
      BY <1>1, <1>2, <1>10, ListTail, JoinedFacts DEF Leads, Done, Outcome, Sound, Follows,
         AnyCall
    <3> QED BY <1>3, <3>2 DEF Outside, Concerns, Leads, OfEvents, BodyOf, Info, Known, Call
  <2>5. CASE Go(a, <<g, h>>)
    BY <1>1, <1>3, <1>5, <1>6, <1>7, <2>4, <2>5, AsideStill
  <2>6. CASE Go(a, <<h>>)
    BY <1>1, <1>3, <1>5, <1>6, <1>7, <2>6, AsideStill
  <2> QED BY <1>0, <1>10, <2>5, <2>6, JoinedCalls DEF Dispatch, Continue, This
<1> QED BY <1>8, <1>9, <1>10

LEMMA CancelJoint ==
    ASSUME TasksInv, TasksInv', JointInv, NEW a \in Actors, CancelTask(a)
    PROVE  JointInv'
<1> PICK f : f = stack[a][1]
  OBVIOUS
<1> PICK t : t = f.of
  OBVIOUS
<1> PICK g : g = Call("cancelled", t)
  OBVIOUS
<1>1. stack[a] # <<>> /\ f.at = "cancel"
  BY DEF CancelTask, Top
<1>2. /\ t \in Known /\ Known \subseteq Tasks /\ ~Done(t) /\ program \in Programs
      /\ BodyOf(t) \notin {"all", "any"}
  BY <1>1, FirstCall DEF Sound, Fails, Alive, Fresh, Underway, Done, Outcome
<1>3. t \notin Reporters(program)
  BY <1>2, JoinedFacts
<1>6. Outside(f, g)
  BY <1>2, OutsideCalls DEF Call, CancelTask, event, joint
<1>8. ~Concerns(f) /\ f.at # "finalize"
  BY <1>1 DEF Concerns, OfEvents
<1> QED
  BY <1>1, <1>2, <1>3, <1>6, <1>8, AsideOwn DEF TasksInv, TasksTyped, CancelTask, This, Done,
     Outcome, event, joint

LEMMA RegisterJoint ==
    ASSUME TasksInv, TasksInv', JointInv, NEW a \in Actors, RegisterTask(a)
    PROVE  JointInv'
<1> PICK f : f = stack[a][1]
  OBVIOUS
<1> PICK t : t = f.of
  OBVIOUS
<1>1. stack[a] # <<>> /\ f.at = "register"
  BY DEF RegisterTask, Top
<1>2. /\ t \in Known /\ Known \subseteq Tasks /\ ~Done(t) /\ program \in Programs
      /\ Info(t).from = "event"
  BY <1>1, FirstCall DEF Sound, Registers, Fresh, Done, Outcome
<1>3. t \notin Reporters(program)
  BY <1>2, JoinedFacts, ProgramFacts
<1>4. /\ Go(a, <<>>)
      /\ UNCHANGED <<program, hasValue, isCanceled, stored, count, param>>
      /\ \/ \E x : state' = [state EXCEPT ![t] = "Canceled"] /\ exc' = [exc EXCEPT ![t] = x]
         \/ state' = [state EXCEPT ![t] = "Completed"] /\ UNCHANGED exc
         \/ UNCHANGED <<state, exc>>
  BY DEF RegisterTask, This, joint
<1>5. Outside(f, Call("run", t))
  BY <1>2, <1>4, OutsideCalls DEF Call
<1> QED BY <1>1, <1>2, <1>3, <1>4, <1>5, AsideOwn DEF TasksInv, TasksTyped, Concerns, OfEvents

LEMMA DeliverJoint ==
    ASSUME TasksInv, TasksInv', JointInv, NEW a \in Actors, Deliver(a)
    PROVE  JointInv'
<1> PICK f : f = stack[a][1]
  OBVIOUS
<1> PICK e : e = f.of
  OBVIOUS
<1> PICK n : n = Head(f.rest)
  OBVIOUS
<1>0. PICK h : h = [f EXCEPT !.rest = Tail(f.rest)]
  OBVIOUS
<1>9. PICK g : g = IF state[n] = "PendingCancel" THEN Cancelling(n, "none") ELSE Call("finalize", n)
  OBVIOUS
<1>1. stack[a] # <<>> /\ f.at = "deliver"
  BY DEF Deliver, Top
<1>2. f \in AnyCall /\ Sound(a, f) /\ e \in Events /\ program \in Programs /\ Joint \in Events
  <2>2. Joint \in Events
    BY <1>1, FirstCall, ProgramFacts DEF Joint
  <2> QED BY <1>1, <2>2, FirstCall DEF Sound
<1>3. UNCHANGED <<program, state, exc, hasValue, isCanceled, count, param>>
  BY DEF Deliver, task, joint
<1>7. Outside(f, h)
  BY <1>0, <1>1, <1>2, <1>3 DEF Outside, Concerns, Leads, OfEvents, Joint, AnyCall
<1>8. CASE f.rest = <<>>
  BY <1>1, <1>2, <1>3, <1>7, <1>8, AsideStill DEF Concerns, OfEvents, Deliver, This, Triggered,
     Joint, TasksInv, TasksTyped, FieldsTyped
<1>10. CASE f.rest # <<>>
  <2>1. Go(a, <<g, h>>)
    BY <1>0, <1>9, <1>10 DEF Deliver, This
  <2>4. Outside(f, g)
    BY <1>1, <1>2, <1>3, <1>9, <1>10, ListTail, JoinedFacts, ProgramFacts DEF Outside, Concerns,
       Leads, OfEvents, Call, Cancelling, WaitsFor, Sound, AnyCall
  <2> QED
    BY <1>1, <1>2, <1>3, <1>7, <2>1, <2>4, AsideStill DEF Concerns, OfEvents, Triggered, Joint,
       TasksInv, TasksTyped, FieldsTyped, Deliver, This
<1> QED BY <1>8, <1>10

LEMMA FailJoint ==
    ASSUME TasksInv, TasksInv', JointInv, NEW a \in Actors, Fail(a)
    PROVE  JointInv'
<1> PICK f : f = stack[a][1]
  OBVIOUS
<1> PICK g : g = Cancelling(Head(f.rest), f.exc)
  OBVIOUS
<1>0. PICK h : h = [f EXCEPT !.rest = Tail(f.rest)]
  OBVIOUS
<1>1. stack[a] # <<>> /\ f.at = "fail"
  BY DEF Fail, Top
<1>3. UNCHANGED <<program, state, exc, hasValue, isCanceled, stored, count, param>>
  BY DEF Fail, task, event, joint
<1>5. Outside(f, g) /\ Outside(f, h)
  <2>1. h.at = "fail" /\ g.at = "cancel"
    BY <1>0, <1>1, FirstCall DEF AnyCall, Cancelling, Call
  <2> QED BY <1>1, <1>3, <2>1, FirstCall, OutsideCalls
<1>8. CASE Go(a, <<>>)
  BY <1>1, <1>3, <1>5, <1>8, AsideStill DEF Triggered, Joint, Concerns, OfEvents
<1>10. CASE Go(a, <<g, h>>)
  BY <1>1, <1>3, <1>5, <1>10, AsideStill DEF Triggered, Joint, Concerns, OfEvents
<1> QED BY <1>0, <1>8, <1>10 DEF Fail, This

\* A step of nobody.
LEMMA JointUnmoved ==
    ASSUME TasksInv, JointInv,
           UNCHANGED <<program, stack, count, param, hasValue, isCanceled, stored>>,
           FinishedStay, \A r \in Reporters(program) : Done(r)' <=> Done(r)
    PROVE  JointInv'
<1>1. /\ program \in Programs /\ Joint' = Joint /\ (AllMode' <=> AllMode) /\ (HasVector' <=> HasVector)
      /\ \A S : (Has(S)' <=> Has(S)) /\ (Sole(S)' <=> Sole(S)) /\ \A b : TopIn(b, S)' <=> TopIn(b, S)
  BY DEF TasksInv, TasksTyped, Joint, AllMode, HasVector, BodyOf, Info, Known, Has, Sole, TopIn
<1>2. FramesSound'
  <2>1. ASSUME NEW b \in Actors, NEW i \in 1..Len(stack[b])
        PROVE  (JointSound(stack[b][i]) /\ Followed(b, i) /\ Covered(b, i))'
    <3> PICK f : f = stack[b][i]
      OBVIOUS
    <3>3. Leads(f)' => Leads(f)
      BY <1>1, LeadsBack DEF TasksInv, PlacesSound, CallsSound
    <3> QED
      BY <1>1, <3>3 DEF JointSound, Covered, Deletes, AnyCall, Leads, JointInv, FramesSound,
         Followed, Finals
  <2> QED BY <2>1 DEF FramesSound
<1>4. count' = Cardinality(Counted')
  BY <1>1, CountedAfter DEF CountedIn, Finals, Counts, AnyCall
<1>6. CountSound'
  BY <1>1, <1>4 DEF JointInv, CountSound, Told, Tells, Cancels, CountsAll, Deletes, Triggered,
     AnyCall
<1> QED
  BY <1>1, <1>2, <1>6 DEF JointInv, DeleteSound, Told, Tells, Cancels, CountsAll, Deletes,
     Triggered, AnyCall

LEMMA TokenJoint ==
    ASSUME TasksInv, JointInv, CancelToken \/ UNCHANGED pplxVars
    PROVE  JointInv'
  BY JointUnmoved DEF FinishedStay, Done, CancelToken, pplxVars, task, event, joint

LEMMA CallbackJoint ==
    ASSUME TasksInv, JointInv, NEW u \in Tasks, Callback(u)
    PROVE  JointInv'
  BY JoinedFacts, JointUnmoved DEF FinishedStay, Callback, task, event, joint, Done, Outcome,
     TasksInv, TasksTyped

\* An actor begins a call.
LEMMA AsideBegin ==
    ASSUME TasksInv, TasksInv', JointInv, NEW a \in Actors, stack[a] = <<>>,
           NEW g, stack' = [stack EXCEPT ![a] = <<g>>], ~Concerns(g), ~(HasVector /\ Leads(g)'),
           UNCHANGED <<program, count, param, hasValue, isCanceled, stored>>, FinishedStay,
           \A r \in Reporters(program) : Done(r)' <=> Done(r)
    PROVE  JointInv'
<1>1. Turns(a, <<g>>)
  BY DEF Turns, Below
<1> DEFINE fs == <<g>>
<1>2. fs \in Seq(AnyCall) /\ Values(fs) = {g} /\ Turns(a, fs)
  BY <1>1, BroughtCalls
<1> HIDE DEF fs
<1> QED BY <1>2, Aside DEF TopIn, Triggered, Joint

LEMMA BuildJoint ==
    ASSUME TasksInv, TasksInv', JointInv, Build
    PROVE  JointInv'
<1> PICK a : a = "builder"
  OBVIOUS
<1> PICK u : u = Head(todo)
  OBVIOUS
<1>1. a \in Actors /\ todo # <<>> /\ stack[a] = <<>> /\ program \in Programs
  BY DEF Build, Actors, TasksInv, TasksTyped
<1>2. PICK s \in {"PendingCancel", "Created"} : state' = [state EXCEPT ![u] = s]
  BY DEF Build, Create
<1>3. state[u] = "none" /\ u \in Tasks
  <2>1. PICK k \in 0..Len(program.build) :
            /\ k + 1 \in 1..Len(program.build) /\ u = program.build[k + 1]
            /\ \A i \in 1..Len(program.build) : state[program.build[i]] = "none" <=> i > k
    BY <1>1, NextBuilt
  <2> QED BY <1>1, <2>1, ProgramFacts
<1>4. UNCHANGED <<program, exc, hasValue, isCanceled, stored, count, param>>
  BY DEF Build, event, joint
<1>8. FinishedStay /\ \A r \in Reporters(program) : Done(r)' <=> Done(r)
  BY <1>2, <1>3, <1>4, JoinedFacts DEF FinishedStay, Done, Outcome, TasksInv, TasksTyped
<1>9. CASE UNCHANGED stack
  BY <1>4, <1>8, <1>9, JointUnmoved
<1>10. CASE \E g \in {Call("register", u), Call("schedule", u)} : stack' = [stack EXCEPT ![a] = <<g>>]
  <2>1. PICK g \in {Call("register", u), Call("schedule", u)} : stack' = [stack EXCEPT ![a] = <<g>>]
    BY <1>10
  <2> QED BY <1>1, <1>4, <1>8, <2>1, AsideBegin DEF Concerns, Leads, OfEvents, Call
<1> QED BY <1>9, <1>10 DEF Build

LEMMA WorkJoint ==
    ASSUME TasksInv, TasksInv', JointInv, NEW a \in Actors, Work(a)
    PROVE  JointInv'
<1>1. /\ stack[a] = <<>> /\ program \in Programs
      /\ UNCHANGED <<program, state, exc, hasValue, isCanceled, stored, count, param>>
      /\ \E c \in pool : stack' = [stack EXCEPT ![a] = <<c>>]
  BY DEF Work, Idle, task, event, joint, TasksInv, TasksTyped
<1>2. PICK c \in pool : stack' = [stack EXCEPT ![a] = <<c>>]
  BY <1>1
<1>5. ~Concerns(c) /\ ~Leads(c)'
  BY <1>1, JoinedFacts DEF Concerns, Leads, OfEvents, BodyOf, Info, TasksInv, PlacesSound,
     PoolSound
<1> QED BY <1>1, <1>2, <1>5, AsideBegin DEF FinishedStay, Done

LEMMA UseJoint ==
    ASSUME TasksInv, TasksInv', JointInv, NEW s \in Setters, Use(s) \/ Abandon(s)
    PROVE  JointInv'
<1> PICK e : e = program.target[s]
  OBVIOUS
<1>1. s \in Actors /\ stack[s] = <<>> /\ program \in Programs
  BY DEF Use, Abandon, Actors, TasksInv, TasksTyped
<1>3. UNCHANGED <<program, state, exc, hasValue, isCanceled, stored, count, param>>
  BY DEF Use, Abandon, task, event, joint
<1>5. CASE UNCHANGED stack
  BY <1>3, <1>5, JointUnmoved DEF FinishedStay, Done
<1>6. ASSUME NEW g, g.at \in {"set", "store", "fail"}, g.of = e, stack' = [stack EXCEPT ![s] = <<g>>]
      PROVE  JointInv'
  BY <1>1, <1>3, <1>6, JoinedFacts, AsideBegin DEF FinishedStay, Done, Concerns, Leads, OfEvents,
     Joint
<1>7. UNCHANGED stack \/ \E g : g.at \in {"set", "store", "fail"} /\ g.of = e /\ stack' = [stack EXCEPT ![s] = <<g>>]
  <2>0. PICK h : h = [Call("fail", e) EXCEPT !.rest = waiting[e]]
    OBVIOUS
  <2> QED BY <2>0 DEF Use, Abandon, Call, With
<1> QED BY <1>5, <1>6, <1>7

\* The call that an actor turned to is at the top.
LEMMA TopAfter ==
    ASSUME TasksInv, NEW a \in Actors, NEW fs \in Seq(AnyCall), Turns(a, fs), NEW g, g \in AnyCall,
           1 \in 1..Len(fs), fs[1] = g
    PROVE  /\ stack'[a] # <<>> /\ stack'[a][1] = g
           /\ g \in Tells /\ Joint' = Joint => TopIn(a, Tells)'
           /\ g \in Cancels(Joint) /\ Joint' = Joint => TopIn(a, Cancels(Joint))'
<1>1. 1 \in 1..Len(stack'[a]) /\ stack'[a][1] = g
  BY Turned DEF TasksInv, TasksTyped
<1> QED BY <1>1 DEF TopIn, Cancels, AnyCall, Tells

LEMMA BroughtOne ==
    ASSUME TasksInv, TasksInv', NEW a \in Actors, stack[a] # <<>>, NEW g, Go(a, <<>>) \/ Go(a, <<g>>)
    PROVE  \E fs \in Seq(AnyCall) : Turns(a, fs) /\ Values(fs) \subseteq {g}
<1>1. \E fs \in Seq(AnyCall) : Go(a, fs) /\ Turns(a, fs) /\ Values(fs) \subseteq {g, g, g}
  BY Brought
<1> QED BY <1>1

\* A call on an event.
LEMMA TellStep ==
    ASSUME TasksInv, TasksInv', JointInv, NEW a \in Actors, stack[a] # <<>>, NEW f, f = stack[a][1],
           f.at \in OfEvents, UNCHANGED <<program, state, exc, count, param>>,
           NEW fs \in Seq(AnyCall), Turns(a, fs),
           \A g \in Values(fs) : g.at \in {"deliver", "fail", "cancelEvent"} /\ JointSound(g)
                                    /\ (Leads(g)' => Leads(f)),
           Triggered(Joint) => Triggered(Joint)',
           f \in Tells => Told',
           AllMode /\ stored'[Joint] # "none" =>
               \/ stored[Joint] # "none" /\ f \notin Cancels(Joint)
               \/ Triggered(Joint)' \/ TopIn(a, Cancels(Joint))'
    PROVE  JointInv'
<1>1. /\ StacksTyped /\ program \in Programs /\ Joint' = Joint /\ Reporters(program) \subseteq Tasks
      /\ (AllMode' <=> AllMode)
      /\ \A i \in 1..Len(fs) : fs[i] \in Values(fs)
  BY JoinedFacts DEF TasksInv, TasksTyped, Joint, AllMode, BodyOf, Info, Values
<1>2. /\ \A S : SomeOf(fs, S) => \E g \in Values(fs) : g \in S
      /\ \A S : TopIn(a, S) <=> f \in S
  BY DEF SomeOf, Values, TopIn
<1>3. FramesSound'
  BY <1>1, FramesAfter DEF JointSound, FinishedStay
<1>4. \A t \in Reporters(program) : CountedIn(t)' <=> CountedIn(t)
  <2>1. SUFFICES ASSUME NEW t \in Reporters(program)
                 PROVE  CountedIn(t)' <=> CountedIn(t)
    OBVIOUS
  <2>3. ~TopIn(a, Counts(t)) /\ ~TopIn(a, Finals(t))
    BY <1>2 DEF Counts, Finals, OfEvents
  <2> QED BY <1>1, <1>2, <2>3, CountedStays DEF Done, Counts, Finals
<1>5. count' = Cardinality(Counted')
  BY <1>4, CountedAfter
<1>6. /\ ~SomeOf(fs, CountsAll) /\ ~SomeOf(fs, Deletes)
      /\ ~TopIn(a, CountsAll) /\ ~TopIn(a, Deletes)
  <2>1. /\ \A g \in Values(fs) : g \notin CountsAll /\ g \notin Deletes
        /\ f \notin CountsAll /\ f \notin Deletes
    BY DEF CountsAll, Deletes, OfEvents
  <2> QED BY <1>2, <2>1
<1>7. /\ Has(CountsAll)' => Has(CountsAll)
      /\ Has(Deletes)' <=> Has(Deletes)
  BY <1>1, <1>6, TurnedHas
<1>8. Sole(Deletes)'
  BY <1>1, <1>6, TurnedSole DEF JointInv, DeleteSound
<1>9. /\ Told => Told'
      /\ (\E b \in Actors : TopIn(b, Cancels(Joint))) =>
            (\E b \in Actors : TopIn(b, Cancels(Joint))') \/ TopIn(a, Cancels(Joint))
  <2>1. TopIn(a, Tells) => Told'
    BY <1>2
  <2> QED BY <1>1, <2>1, ToldStays
<1>10. DeleteSound'
  BY <1>1, <1>7, <1>8 DEF JointInv, DeleteSound
<1>11. AllMode' /\ stored'[Joint] # "none" =>
         Triggered(Joint)' \/ \E b \in Actors : TopIn(b, Cancels(Joint))'
  BY <1>1, <1>2, <1>9 DEF JointInv, CountSound
<1>12. CountSound'
  BY <1>1, <1>5, <1>7, <1>9, <1>11 DEF JointInv, CountSound
<1> QED BY <1>3, <1>10, <1>12 DEF JointInv

LEMMA SetJoint ==
    ASSUME TasksInv, TasksInv', JointInv, NEW a \in Actors, Set(a)
    PROVE  JointInv'
<1> PICK f : f = stack[a][1]
  OBVIOUS
<1> PICK e : e = f.of
  OBVIOUS
<1>0. PICK g : g = [Call("deliver", e) EXCEPT !.rest = waiting[e]]
  OBVIOUS
<1>1. stack[a] # <<>> /\ f.at = "set" /\ f.at \in OfEvents
  BY DEF Set, Top, OfEvents
<1>3. \/ Triggered(e) /\ Go(a, <<>>) /\ UNCHANGED hasValue
      \/ Go(a, <<g>>) /\ hasValue' = hasValue \cup {e}
  BY <1>0 DEF Set, This
<1>4. g.at = "deliver" /\ g.of = e
  BY <1>0 DEF Call
<1>5. PICK fs \in Seq(AnyCall) : Turns(a, fs) /\ Values(fs) \subseteq {g}
  BY <1>1, <1>3, BroughtOne
<1>9. f \notin Cancels(Joint)
  BY <1>1 DEF Cancels
<1> QED
  BY <1>1, <1>3, <1>4, <1>5, <1>9, TellStep DEF Leads, Joint, Triggered, Set, task, joint, Tells,
     Told, JointSound

LEMMA StoreJoint ==
    ASSUME TasksInv, TasksInv', JointInv, NEW a \in Actors, Store(a)
    PROVE  JointInv'
<1> PICK f : f = stack[a][1]
  OBVIOUS
<1> PICK e : e = f.of
  OBVIOUS
<1>0. PICK g : g = With(Call("cancelEvent", e), f.exc)
  OBVIOUS
<1> PICK h : h = Call("fail", e)
  OBVIOUS
<1>1. stack[a] # <<>> /\ f.at \in {"store", "keep"} /\ f.at \in OfEvents
  BY DEF Store, Top, OfEvents
<1>2. UNCHANGED <<program, state, exc, hasValue, isCanceled, count, param>>
  BY DEF Store, task, joint
<1>3. /\ Triggered(Joint)' <=> Triggered(Joint)
      /\ Joint' = Joint
  BY <1>2 DEF Triggered, Joint
<1>4. /\ g.at = "cancelEvent" /\ g.of = e /\ ~Leads(g)'
      /\ h.at = "fail" /\ ~Leads(h)' /\ JointSound(h)
  BY <1>0 DEF Call, With, Leads, JointSound
<1>5. f.at = "store" /\ f.of = Joint => AllMode
  <2>1. 1 \in 1..Len(stack[a])
    BY <1>1, LenProperties, EmptySeq DEF TasksInv, TasksTyped, StacksTyped
  <2> QED BY <2>1 DEF JointInv, FramesSound, JointSound
<1>6. f.at = "keep" /\ f.of = Joint => ~AllMode
  <2>1. 1 \in 1..Len(stack[a])
    BY <1>1, LenProperties, EmptySeq DEF TasksInv, TasksTyped, StacksTyped
  <2> QED BY <2>1 DEF JointInv, FramesSound, JointSound
<1>7. f \notin Cancels(Joint)
  BY <1>1 DEF Cancels
<1>8. \/ Go(a, <<>>) /\ UNCHANGED stored /\ (Triggered(e) \/ stored[e] # "none")
      \/ f.at = "store" /\ Go(a, <<g>>) /\ stored' = [stored EXCEPT ![e] = f.exc]
      \/ f.at = "keep" /\ Go(a, <<>>) /\ stored' = [stored EXCEPT ![e] = f.exc]
  <2>1. Top(a, "store") <=> f.at = "store"
    BY <1>1 DEF Top
  <2> QED BY <1>0, <1>1, <2>1 DEF Store, This
<1>9. CASE Go(a, <<>>) /\ UNCHANGED stored /\ (Triggered(e) \/ stored[e] # "none")
  <2>1. PICK fs \in Seq(AnyCall) : Turns(a, fs) /\ Values(fs) \subseteq {h}
    BY <1>1, <1>9, BroughtOne
  <2>2. f \in Tells => Told'
    <3>1. SUFFICES ASSUME f \in Tells
                   PROVE  Told'
      OBVIOUS
    <3>2. f.at = "store" /\ e = Joint
      BY <1>1, <3>1 DEF Tells
    <3>3. CASE Triggered(Joint)
      BY <1>3, <3>3 DEF Told
    <3>4. CASE ~Triggered(Joint)
      <4>1. \E b \in Actors : TopIn(b, Cancels(Joint))
        BY <1>5, <1>9, <3>2, <3>4 DEF JointInv, CountSound
      <4>2. ~TopIn(a, Cancels(Joint))
        BY <1>7 DEF TopIn
      <4>3. \E b \in Actors : TopIn(b, Cancels(Joint))'
        BY <1>2, <1>3, <2>1, <4>1, <4>2, ToldStays
      <4>4. \A b : TopIn(b, Cancels(Joint))' => TopIn(b, Tells)'
        BY DEF TopIn, Cancels, Tells
      <4> QED BY <4>3, <4>4 DEF Told
    <3> QED BY <3>3, <3>4
  <2> QED BY <1>1, <1>2, <1>3, <1>4, <1>7, <1>9, <2>1, <2>2, TellStep
<1>10. CASE f.at = "store" /\ Go(a, <<g>>) /\ stored' = [stored EXCEPT ![e] = f.exc]
  <2> DEFINE fs == <<g>>
  <2>1. fs \in Seq(AnyCall) /\ Values(fs) = {g} /\ Turns(a, fs) /\ g \in AnyCall
    BY <1>1, <1>10, BroughtCalls, FirstCall
  <2>2. 1 \in 1..Len(fs) /\ fs[1] = g
    OBVIOUS
  <2> HIDE DEF fs
  <2>3. /\ g \in Tells => TopIn(a, Tells)'
        /\ g \in Cancels(Joint) => TopIn(a, Cancels(Joint))'
    BY <1>3, <2>1, <2>2, TopAfter
  <2>4. e = Joint => g \in Tells /\ g \in Cancels(Joint)
    BY <1>4, <2>1 DEF Tells, Cancels
  <2>5. f \in Tells => Told'
    BY <2>3, <2>4 DEF Tells, Told
  <2>6. stored'[Joint] # "none" => stored[Joint] # "none" \/ e = Joint
    BY <1>10 DEF TasksInv, TasksTyped, FieldsTyped
  <2>7. JointSound(g)
    BY <1>4, <1>5, <1>10 DEF JointSound
  <2> QED BY <1>1, <1>2, <1>3, <1>4, <1>7, <2>1, <2>3, <2>4, <2>5, <2>6, <2>7, TellStep
<1>11. CASE f.at = "keep" /\ Go(a, <<>>) /\ stored' = [stored EXCEPT ![e] = f.exc]
  <2>1. PICK fs \in Seq(AnyCall) : Turns(a, fs) /\ Values(fs) \subseteq {h}
    BY <1>1, <1>11, BroughtOne
  <2>2. f \notin Tells
    BY <1>11 DEF Tells
  <2>3. AllMode /\ stored'[Joint] # "none" => stored[Joint] # "none"
    <3>1. e = Joint => ~AllMode
      BY <1>6, <1>11
    <3>2. e # Joint => stored'[Joint] = stored[Joint]
      BY <1>11 DEF TasksInv, TasksTyped, FieldsTyped
    <3> QED BY <3>1, <3>2
  <2> QED BY <1>1, <1>2, <1>3, <1>4, <1>7, <2>1, <2>2, <2>3, TellStep
<1> QED BY <1>8, <1>9, <1>10, <1>11

LEMMA CancelEventJoint ==
    ASSUME TasksInv, TasksInv', JointInv, NEW a \in Actors, CancelEvent(a)
    PROVE  JointInv'
<1> PICK f : f = stack[a][1]
  OBVIOUS
<1> PICK e : e = f.of
  OBVIOUS
<1>0. PICK g : g = [With(Call("fail", e), stored[e]) EXCEPT !.rest = waiting[e]]
  OBVIOUS
<1>1. stack[a] # <<>> /\ f.at = "cancelEvent" /\ f.at \in OfEvents
  BY DEF CancelEvent, Top, OfEvents
<1>2. UNCHANGED <<program, state, exc, hasValue, stored, count, param>>
  BY DEF CancelEvent, task, joint
<1>3. \/ e \in isCanceled /\ Go(a, <<>>) /\ UNCHANGED isCanceled
      \/ Go(a, <<g>>) /\ isCanceled' = isCanceled \cup {e}
  BY <1>0 DEF CancelEvent, This
<1>4. g.at = "fail" /\ ~Leads(g)' /\ JointSound(g)
  BY <1>0 DEF Call, With, Leads, JointSound
<1>5. PICK fs \in Seq(AnyCall) : Turns(a, fs) /\ Values(fs) \subseteq {g}
  BY <1>1, <1>3, BroughtOne
<1>6. /\ Triggered(Joint) => Triggered(Joint)'
      /\ e = Joint => Triggered(Joint)'
  BY <1>2, <1>3 DEF Triggered, Joint
<1>7. f \in Tells => Told'
  BY <1>6 DEF Tells, Told
<1>8. f \in Cancels(Joint) => Triggered(Joint)'
  BY <1>6 DEF Cancels
<1> QED BY <1>1, <1>2, <1>4, <1>5, <1>6, <1>7, <1>8, TellStep

\* A step that counts, or is about to.
LEMMA JointAfter ==
    ASSUME TasksInv, TasksInv', JointInv, NEW a \in Actors, stack[a] # <<>>, NEW f, f = stack[a][1],
           f.at \notin OfEvents, UNCHANGED <<program, state, exc, hasValue, isCanceled, stored>>,
           NEW fs \in Seq(AnyCall), Turns(a, fs),
           \A g \in Values(fs) : JointSound(g),
           \A i \in 1..Len(fs) : fs[i].at \in {"countAll", "countAny"} =>
               i + 1 \in 1..Len(fs) /\ fs[i + 1] \in Finals(fs[i].of),
           \A i \in 1..Len(fs) : HasVector /\ Leads(fs[i])' => \E j \in (i + 1)..Len(fs) : fs[j] \in Deletes,
           count' = Cardinality(Counted'),
           Has(CountsAll)' => Has(CountsAll) \/ Told',
           count' = program.parts /\ program.parts > 0 /\ (Told => Told') =>
               Told' /\ (Has(Deletes)' \/ param' = "deleted"),
           DeleteSound'
    PROVE  JointInv'
<1>4. /\ Told => Told'
      /\ (\E b \in Actors : TopIn(b, Cancels(Joint))) => (\E b \in Actors : TopIn(b, Cancels(Joint))')
  BY ToldStays DEF TopIn, Tells, Cancels, OfEvents, AllMode, BodyOf, Info, Triggered, Joint
<1>5. CountSound'
  BY <1>4 DEF CountSound, JointInv, AllMode, BodyOf, Info, Triggered, Joint
<1> QED BY <1>5, FramesAfter DEF JointInv, FinishedStay

\* The counter after a step of the task t.
LEMMA CountTurn ==
    ASSUME TasksInv, JointInv, NEW a \in Actors, stack[a] # <<>>, NEW f, f = stack[a][1],
           UNCHANGED <<program, state>>, NEW fs \in Seq(AnyCall), Turns(a, fs),
           NEW t \in Reporters(program), f.at # "finalize",
           f.at \in {"countAll", "countAny"} => f.of = t,
           \A g \in Values(fs) : g.at \in {"countAll", "countAny", "finalize"} => g.of = t
    PROVE  /\ (CountedIn(t)' <=> CountedIn(t)) => count = Cardinality(Counted')
           /\ CountedIn(t)' /\ ~CountedIn(t) => count + 1 = Cardinality(Counted')
<1>1. Reporters(program) \subseteq Tasks
  BY JoinedFacts DEF TasksInv, TasksTyped
<1>2. ASSUME NEW u \in Reporters(program) \ {t}
      PROVE  CountedIn(u)' <=> CountedIn(u)
  BY <1>1, <1>2, CountedStays DEF Done, SomeOf, Counts, Finals, Values, TopIn
<1> QED BY <1>2, CountedAfter

\* A task of when_all or when_any that has not begun to count.
LEMMA PerformCount ==
    ASSUME TasksInv, JointInv, NEW a \in Actors, stack[a] # <<>>, NEW f, f = stack[a][1],
           f.at = "perform", BodyOf(f.of) \in {"all", "any"}
    PROVE  /\ f.of \in Reporters(program) /\ f.of \in Known /\ f.of \in Tasks
           /\ f.of \notin JointTasks(program)
           /\ ~Has(Finals(f.of)) /\ ~Has(Counts(f.of)) /\ ~Done(f.of) /\ ~CountedIn(f.of)
           /\ count < program.parts /\ ~Has(Deletes) /\ param = "exists"
           /\ BodyOf(f.of) = "all" <=> AllMode
           /\ BodyOf(f.of) = "any" => ~HasVector
<1> PICK t : t = f.of
  OBVIOUS
<1>1. f \in AnyCall /\ Sound(a, f) /\ program \in Programs /\ StacksTyped
  BY FirstCall DEF TasksInv, TasksTyped
<1>2. t \in Known /\ Known \subseteq Tasks /\ ~Done(t) /\ Info(t).from # "event"
  BY <1>1, ProgramFacts DEF Sound, Performs, Underway, Done, Outcome
<1>3. t \in Reporters(program)
  BY <1>2 DEF Reporters, Known, BodyOf, Info
<1>4. f \in Handlers(t) /\ TopIn(a, Handlers(t)) /\ f \notin Finals(t)
  BY <1>1 DEF Handlers, HandledBy, Single, TopIn, Finals
<1>6. ~Has(Finals(t))
  <2>1. SUFFICES ASSUME NEW b \in Actors, NEW i \in 1..Len(stack[b]), stack[b][i] \in Finals(t)
                 PROVE  FALSE
    BY DEF Has
  <2>2. stack[b][i] \in Handlers(t)
    BY <2>1 DEF Finals, Handlers, HandledBy, Single
  <2>3. Sole(Handlers(t))
    BY <1>2 DEF TasksInv, PlacesSound, HandledOnce
  <2> QED BY <1>1, <1>4, <2>1, <2>2, <2>3, LenProperties, EmptySeq DEF Sole, StacksTyped
<1>7. ~Has(Counts(t))
  BY <1>2, <1>4, CountOnce
<1>10. BodyOf(t) = "all" <=> AllMode
  BY <1>1, <1>3, JoinedFacts DEF AllMode
<1>11. BodyOf(t) = "any" => ~HasVector
  BY <1>1, <1>3, JoinedFacts DEF HasVector
<1>12. t \notin JointTasks(program)
  BY <1>1, <1>2, OutsideCalls, JoinedFacts
<1> QED BY <1>2, <1>3, <1>6, <1>7, <1>10, <1>11, <1>12, CountBound DEF CountedIn

\* When it has done so, it is counted unless it is still to count itself.
LEMMA PerformTurn ==
    ASSUME TasksInv, TasksInv', JointInv, NEW a \in Actors, stack[a] # <<>>, NEW f, f = stack[a][1],
           f.at = "perform", BodyOf(f.of) \in {"all", "any"},
           UNCHANGED <<program, state>>, NEW fs \in Seq(AnyCall), Turns(a, fs),
           Call("finalize", f.of) \in Values(fs),
           \A g \in Values(fs) : g.at \in {"countAll", "countAny", "finalize"} => g.of = f.of
    PROVE  /\ SomeOf(fs, Counts(f.of)) => count = Cardinality(Counted')
           /\ ~SomeOf(fs, Counts(f.of)) => count + 1 = Cardinality(Counted')
           /\ Has(Deletes)' <=> SomeOf(fs, Deletes)
           /\ OneOf(fs, Deletes) \/ ~SomeOf(fs, Deletes) => Sole(Deletes)'
<1> PICK t : t = f.of
  OBVIOUS
<1>1. /\ t \in Reporters(program) /\ ~Has(Counts(t)) /\ ~CountedIn(t) /\ ~Has(Deletes)
  BY PerformCount
<1>2. StacksTyped
  BY DEF TasksInv, TasksTyped
<1>3. Has(Finals(t))'
  <2>1. SomeOf(fs, Finals(t))
    <3>1. PICK i \in 1..Len(fs) : fs[i] = Call("finalize", t)
      BY DEF Values
    <3> QED BY <3>1, ElementOfSeq DEF SomeOf, Finals, Call
  <2>3. \A S : SomeOf(fs, S) => \E b \in Actors : \E i \in 1..Len(stack'[b]) : stack'[b][i] \in S
    BY <1>2, Turned DEF SomeOf
  <2> QED BY <2>1, <2>3 DEF Has, Finals, AnyCall
<1>5. CountedIn(t)' <=> ~SomeOf(fs, Counts(t))
  BY <1>1, <1>2, <1>3, TurnedHas DEF CountedIn, Counts, AnyCall
<1>6. Has(Deletes)' <=> SomeOf(fs, Deletes)
  BY <1>1, <1>2, TurnedHas DEF Deletes, AnyCall
<1> QED
  BY <1>1, <1>2, <1>5, <1>6, TurnedSole, CountTurn DEF Deletes, AnyCall, JointInv, DeleteSound

LEMMA PerformJoint ==
    ASSUME TasksInv, TasksInv', JointInv, NEW a \in Actors, stack[a] # <<>>, NEW f, f = stack[a][1],
           f.at = "perform", BodyOf(f.of) \in {"all", "any"},
           UNCHANGED <<program, state, exc, hasValue, isCanceled, stored, param>>,
           NEW fs \in Seq(AnyCall), Turns(a, fs),
           Call("finalize", f.of) \in Values(fs),
           \A g \in Values(fs) :
               /\ g.at \in {"countAll", "countAny", "finalize"} => g.of = f.of
               /\ JointSound(g),
           \A i \in 1..Len(fs) : fs[i].at \in {"countAll", "countAny"} =>
               i + 1 \in 1..Len(fs) /\ fs[i + 1] \in Finals(fs[i].of),
           \A i \in 1..Len(fs) : HasVector /\ Leads(fs[i])' => \E j \in (i + 1)..Len(fs) : fs[j] \in Deletes,
           count' = IF SomeOf(fs, Counts(f.of)) THEN count ELSE count + 1,
           SomeOf(fs, CountsAll) \/ SomeOf(fs, Deletes) => Told',
           SomeOf(fs, Deletes) => OneOf(fs, Deletes) /\ count' = program.parts,
           count' = program.parts => SomeOf(fs, Deletes)
    PROVE  JointInv'
<1>1. /\ SomeOf(fs, Counts(f.of)) => count = Cardinality(Counted')
      /\ ~SomeOf(fs, Counts(f.of)) => count + 1 = Cardinality(Counted')
      /\ Has(Deletes)' <=> SomeOf(fs, Deletes)
      /\ OneOf(fs, Deletes) \/ ~SomeOf(fs, Deletes) => Sole(Deletes)'
  BY PerformTurn
<1>5. DeleteSound'
  BY <1>1, PerformCount DEF DeleteSound
<1>6. f.at \notin OfEvents
  BY DEF OfEvents
<1> QED BY <1>1, <1>5, <1>6, TurnedHas, JointAfter DEF CountsAll, AnyCall, TasksInv, TasksTyped

\* The calls that it brings.
LEMMA PerformCalls ==
    ASSUME TasksInv, TasksInv', JointInv, NEW a \in Actors, stack[a] # <<>>, NEW f, f = stack[a][1],
           f.at = "perform", BodyOf(f.of) \in {"all", "any"},
           UNCHANGED <<program, state, exc, hasValue, isCanceled, stored, param>>,
           NEW end, end = Call("finalize", f.of),
           NEW cnt, cnt \in {Call("countAll", f.of), Call("countAny", f.of)},
           cnt.at = "countAny" => ~AllMode,
           NEW tell, tell.of = Joint, JointSound(tell),
           tell.at \in {"set", "store", "cancelEvent"} \/ (tell.at = "keep" /\ cnt.at = "countAny")
    PROVE  /\ Go(a, <<end>>) /\ count' = count + 1 /\ count' # program.parts => JointInv'
           /\ /\ tell.at = "set" /\ count' = count + 1 /\ count' = program.parts
              /\ Go(a, <<tell, Call("delete", f.of), end>>)
              => JointInv'
           /\ /\ (tell.at = "set" => ~HasVector) /\ UNCHANGED count
              /\ Go(a, <<tell, cnt, end>>)
              => JointInv'
           /\ cnt.at = "countAny" /\ UNCHANGED count /\ Go(a, <<cnt, end>>) => JointInv'
<1> PICK t : t = f.of
  OBVIOUS
<1>1. /\ t \in Reporters(program) /\ t \notin JointTasks(program)
      /\ count < program.parts /\ ~Has(Deletes) /\ param = "exists"
  BY PerformCount
<1>2. end.at = "finalize" /\ end.of = t /\ ~Leads(end)' /\ JointSound(end)
  BY <1>1 DEF Call, Leads, JointSound
<1>3. cnt.at \in {"countAll", "countAny"} /\ cnt.of = t /\ ~Leads(cnt)' /\ JointSound(cnt)
  BY DEF Call, Leads, JointSound
<1>5. CASE Go(a, <<end>>) /\ count' = count + 1 /\ count' # program.parts
  <2> DEFINE fs == <<end>>
  <2>1. fs \in Seq(AnyCall) /\ Values(fs) = {end} /\ Turns(a, fs)
    BY <1>5, BroughtCalls, FirstCall
  <2>2. Len(fs) = 1 /\ fs[1] = end /\ \A i \in 1..Len(fs) : fs[i] = end
    OBVIOUS
  <2> HIDE DEF fs
  <2> QED BY <1>2, <1>5, <2>1, <2>2, PerformJoint DEF SomeOf, Counts, CountsAll, Deletes
<1>6. ASSUME tell.at = "set", count' = count + 1, count' = program.parts,
             Go(a, <<tell, Call("delete", f.of), end>>)
      PROVE  JointInv'
  <2>0. PICK del : del = Call("delete", t)
    OBVIOUS
  <2> DEFINE fs == <<tell, del, end>>
  <2>1. fs \in Seq(AnyCall) /\ Values(fs) = {tell, del, end} /\ Turns(a, fs) /\ tell \in AnyCall /\ del \in AnyCall
    BY <1>6, <2>0, BroughtCalls, FirstCall
  <2>2. Len(fs) = 3 /\ fs[1] = tell /\ fs[2] = del /\ fs[3] = end
    OBVIOUS
  <2>3. \A i \in 1..3 : i = 1 \/ i = 2 \/ i = 3
    OBVIOUS
  <2> HIDE DEF fs
  <2>4. del.at = "delete" /\ ~Leads(del)' /\ JointSound(del)
    BY <2>0 DEF Call, Leads, JointSound
  <2>5. /\ ~SomeOf(fs, Counts(f.of)) /\ ~SomeOf(fs, CountsAll)
        /\ OneOf(fs, Deletes) /\ SomeOf(fs, Deletes)
    BY <1>2, <1>6, <2>1, <2>2, <2>3, <2>4 DEF SomeOf, OneOf, Counts, CountsAll, Deletes
  <2>6. Told'
    BY <1>6, <2>1, <2>2, TopAfter DEF Told, Tells, Joint
  <2>7. \A i \in 1..Len(fs) : fs[i].at \notin {"countAll", "countAny"}
    BY <1>2, <1>6, <2>2, <2>3, <2>4
  <2>8. \A i \in 1..Len(fs) : Leads(fs[i])' => \E j \in (i + 1)..Len(fs) : fs[j] \in Deletes
    BY <1>2, <2>1, <2>2, <2>3, <2>4 DEF Deletes
  <2>9. \A g \in Values(fs) : g.at \in {"countAll", "countAny", "finalize"} => g.of = f.of
    BY <1>2, <1>6, <2>1, <2>4
  <2>10. \A g \in Values(fs) : JointSound(g)
    BY <1>2, <2>1, <2>4
  <2> QED BY <1>6, <2>1, <2>5, <2>6, <2>7, <2>8, <2>9, <2>10, PerformJoint
<1>7. ASSUME tell.at = "set" => ~HasVector, UNCHANGED count, Go(a, <<tell, cnt, end>>)
      PROVE  JointInv'
  <2> DEFINE fs == <<tell, cnt, end>>
  <2>1. fs \in Seq(AnyCall) /\ Values(fs) = {tell, cnt, end} /\ Turns(a, fs)
        /\ tell \in AnyCall /\ cnt \in AnyCall /\ end \in AnyCall
    BY <1>7, BroughtCalls, FirstCall
  <2>2. Len(fs) = 3 /\ fs[1] = tell /\ fs[2] = cnt /\ fs[3] = end
    OBVIOUS
  <2>3. \A i \in 1..3 : i = 1 \/ i = 2 \/ i = 3
    OBVIOUS
  <2> HIDE DEF fs
  <2>4. ~SomeOf(fs, Deletes)
    BY <1>2, <1>3, <2>2, <2>3 DEF SomeOf, Deletes
  <2>5. SomeOf(fs, Counts(f.of))
    BY <1>3, <2>1, <2>2 DEF SomeOf, Counts
  <2>6. SomeOf(fs, CountsAll) => Told'
    BY <1>2, <1>3, <2>1, <2>2, <2>3, TopAfter DEF Told, Tells, Joint, SomeOf, CountsAll
  <2>7. \A i \in 1..Len(fs) : fs[i].at \in {"countAll", "countAny"} =>
            i + 1 \in 1..Len(fs) /\ fs[i + 1] \in Finals(fs[i].of)
    BY <1>2, <1>3, <2>1, <2>2, <2>3 DEF Finals
  <2>8. \A i \in 1..Len(fs) : ~(HasVector /\ Leads(fs[i])')
    BY <1>2, <1>3, <1>7, <2>2, <2>3 DEF Leads
  <2>9. \A g \in Values(fs) : g.at \in {"countAll", "countAny", "finalize"} => g.of = f.of
    BY <1>2, <1>3, <2>1
  <2>10. \A g \in Values(fs) : JointSound(g)
    BY <1>2, <1>3, <2>1
  <2>12. count' # program.parts
    BY <1>1, <1>7, CountBound
  <2> QED BY <1>7, <2>1, <2>4, <2>5, <2>6, <2>7, <2>8, <2>9, <2>10, <2>12, PerformJoint
<1>8. ASSUME cnt.at = "countAny", UNCHANGED count, Go(a, <<cnt, end>>)
      PROVE  JointInv'
  <2> DEFINE fs == <<cnt, end>>
  <2>1. fs \in Seq(AnyCall) /\ Values(fs) = {cnt, end} /\ Turns(a, fs) /\ cnt \in AnyCall /\ end \in AnyCall
    BY <1>8, BroughtCalls, FirstCall
  <2>2. Len(fs) = 2 /\ fs[1] = cnt /\ fs[2] = end
    OBVIOUS
  <2>3. \A i \in 1..2 : i = 1 \/ i = 2
    OBVIOUS
  <2> HIDE DEF fs
  <2>4. ~SomeOf(fs, Deletes) /\ ~SomeOf(fs, CountsAll)
    BY <1>2, <1>8, <2>2, <2>3 DEF SomeOf, Deletes, CountsAll
  <2>5. SomeOf(fs, Counts(f.of))
    BY <1>3, <2>1, <2>2 DEF SomeOf, Counts
  <2>7. \A i \in 1..Len(fs) : fs[i].at \in {"countAll", "countAny"} =>
            i + 1 \in 1..Len(fs) /\ fs[i + 1] \in Finals(fs[i].of)
    BY <1>2, <1>3, <2>1, <2>2, <2>3 DEF Finals
  <2>8. \A i \in 1..Len(fs) : ~(HasVector /\ Leads(fs[i])')
    BY <1>2, <1>3, <2>2, <2>3
  <2>9. \A g \in Values(fs) : g.at \in {"countAll", "countAny", "finalize"} => g.of = f.of
    BY <1>2, <1>3, <2>1
  <2>10. \A g \in Values(fs) : JointSound(g)
    BY <1>2, <1>3, <2>1
  <2>12. count' # program.parts
    BY <1>1, <1>8, CountBound
  <2> QED BY <1>8, <2>1, <2>4, <2>5, <2>7, <2>8, <2>9, <2>10, <2>12, PerformJoint
<1> QED BY <1>5, <1>6, <1>7, <1>8

LEMMA WhenAllJoint ==
    ASSUME TasksInv, TasksInv', JointInv, NEW a \in Actors, WhenAll(a)
    PROVE  JointInv'
<1> PICK f : f = stack[a][1]
  OBVIOUS
<1> PICK t : t = f.of
  OBVIOUS
<1> PICK from : from = Antecedent(t)
  OBVIOUS
<1> PICK end : end = Call("finalize", t)
  OBVIOUS
<1> PICK cnt : cnt = Call("countAll", t)
  OBVIOUS
<1>0. PICK other : other = IF exc[from] = "none" THEN Call("cancelEvent", Joint)
                           ELSE With(Call("store", Joint), exc[from])
  OBVIOUS
<1>1. stack[a] # <<>> /\ f.at = "perform" /\ BodyOf(t) = "all"
  BY DEF WhenAll, Top, This, BodyOf
<1>3. UNCHANGED <<program, state, exc, hasValue, isCanceled, stored, param>>
  BY DEF WhenAll, task, event
<1>5. cnt.at = "countAll"
  BY DEF Call
<1>6. /\ other.at \in {"store", "cancelEvent"} /\ other.of = Joint /\ JointSound(other)
      /\ Call("set", Joint).at = "set" /\ Call("set", Joint).of = Joint /\ JointSound(Call("set", Joint))
  BY <1>0, <1>1, PerformCount DEF Call, With, JointSound
<1>7. CASE count' = count + 1 /\ Go(a, <<Call("set", Joint), Call("delete", t), end>>)
           /\ count' = program.parts
  BY <1>1, <1>3, <1>5, <1>6, <1>7, PerformCalls
<1>8. CASE count' = count + 1 /\ Go(a, <<end>>) /\ count' # program.parts
  BY <1>1, <1>3, <1>5, <1>6, <1>8, PerformCalls
<1>9. CASE Go(a, <<other, cnt, end>>) /\ UNCHANGED count
  BY <1>1, <1>3, <1>5, <1>6, <1>9, PerformCalls
<1> QED BY <1>0, <1>7, <1>8, <1>9 DEF WhenAll, This, Joint

LEMMA WhenAnyJoint ==
    ASSUME TasksInv, TasksInv', JointInv, NEW a \in Actors, WhenAny(a)
    PROVE  JointInv'
<1> PICK f : f = stack[a][1]
  OBVIOUS
<1> PICK t : t = f.of
  OBVIOUS
<1> PICK from : from = Antecedent(t)
  OBVIOUS
<1> PICK end : end = Call("finalize", t)
  OBVIOUS
<1> PICK all : all = Call("countAll", t)
  OBVIOUS
<1> PICK any : any = Call("countAny", t)
  OBVIOUS
<1> PICK set : set = Call("set", Joint)
  OBVIOUS
<1>0. PICK keep : keep = With(Call("keep", Joint), exc[from])
  OBVIOUS
<1>1. stack[a] # <<>> /\ f.at = "perform" /\ BodyOf(t) = "any"
  BY DEF WhenAny, Top, This, BodyOf
<1>2. ~AllMode /\ ~HasVector
  BY <1>1, PerformCount
<1>4. Done(from)
  BY <1>1, FirstCall, ProgramFacts DEF MayRun, Sound, Performs
<1>7. /\ keep.at = "keep" /\ keep.of = Joint /\ JointSound(keep)
      /\ set.at = "set" /\ set.of = Joint /\ JointSound(set)
  BY <1>0, <1>2 DEF Call, With, JointSound
<1>8. CASE Go(a, <<set, all, end>>)
  BY <1>1, <1>2, <1>7, <1>8, PerformCalls DEF WhenAny, task, event, joint, Call
<1>9. CASE Go(a, <<keep, any, end>>) \/ Go(a, <<any, end>>)
  BY <1>1, <1>2, <1>7, <1>9, PerformCalls DEF WhenAny, task, event, joint, Call
<1> QED BY <1>0, <1>4, <1>8, <1>9 DEF WhenAny, This, Joint, Done, Outcome

LEMMA CountJoint ==
    ASSUME TasksInv, TasksInv', EventInv, JointInv, NEW a \in Actors, CountAll(a) \/ CountAny(a)
    PROVE  JointInv'
<1> PICK f : f = stack[a][1]
  OBVIOUS
<1> PICK t : t = f.of
  OBVIOUS
<1> PICK del : del = Call("delete", t)
  OBVIOUS
<1> PICK tell : tell = Call("cancelEvent", Joint)
  OBVIOUS
<1>1. stack[a] # <<>> /\ f.at \in {"countAll", "countAny"} /\ f.at \notin OfEvents
  BY DEF CountAll, CountAny, Top, OfEvents
<1>2. /\ f \in AnyCall /\ EventSound(a, f) /\ program \in Programs /\ StacksTyped /\ 1 \in 1..Len(stack[a])
  BY <1>1, FirstKnown, LenProperties, EmptySeq DEF TasksInv, TasksTyped, StacksTyped
<1>3. t \in Reporters(program) /\ t \in Tasks
  BY <1>1, <1>2, JoinedFacts DEF EventSound
<1>4. UNCHANGED <<program, state, exc, hasValue, isCanceled, stored, param>> /\ count' = count + 1
  BY DEF CountAll, CountAny, task, event
<1>6. TopIn(a, Counts(t)) /\ Has(Counts(t)) /\ (f.at = "countAll" => Has(CountsAll))
  BY <1>1, <1>2 DEF TopIn, Counts, CountsAll, Has
<1>7. ~CountedIn(t) /\ Sole(Counts(t)) /\ Has(Finals(t))
  BY <1>3, <1>6, CountOnce DEF CountedIn
<1>9. PICK fs \in Seq(AnyCall) :
        /\ Turns(a, fs) /\ Values(fs) \subseteq {tell, del}
        /\ ~SomeOf(fs, Deletes) \/ OneOf(fs, Deletes)
        /\ SomeOf(fs, Deletes) <=> count + 1 = program.parts
        /\ count + 1 = program.parts => f.at = "countAll" \/ Triggered(Joint) \/ TopIn(a, Tells)'
  <2>1. /\ del.at = "delete" /\ tell.at = "cancelEvent" /\ tell.of = Joint
        /\ (tell \in AnyCall => tell \in Tells /\ tell \notin Deletes)
        /\ (del \in AnyCall => del \in Deletes)
        /\ Joint' = Joint
    BY <1>4 DEF Call, Tells, Deletes, Joint
  <2>2. CASE count + 1 # program.parts /\ Go(a, <<>>)
    <3> DEFINE fs == <<>>
    <3>1. fs \in Seq(AnyCall) /\ Turns(a, fs) /\ Values(fs) = {}
      BY <1>1, <2>2, NoCalls, FirstCall
    <3>2. Len(fs) = 0
      OBVIOUS
    <3> HIDE DEF fs
    <3>3. ~SomeOf(fs, Deletes)
      BY <3>2 DEF SomeOf
    <3> QED BY <2>2, <3>1, <3>3
  <2>3. CASE count + 1 = program.parts /\ Go(a, <<del>>) /\ (f.at = "countAll" \/ Triggered(Joint))
    <3> DEFINE fs == <<del>>
    <3>1. fs \in Seq(AnyCall) /\ Turns(a, fs) /\ Values(fs) = {del} /\ del \in AnyCall
      BY <1>1, <2>3, BroughtCalls, FirstCall
    <3>2. Len(fs) = 1 /\ fs[1] = del
      OBVIOUS
    <3> HIDE DEF fs
    <3> QED BY <2>1, <2>3, <3>1, <3>2 DEF SomeOf, OneOf
  <2>4. CASE count + 1 = program.parts /\ Go(a, <<tell, del>>)
    <3> DEFINE fs == <<tell, del>>
    <3>1. /\ fs \in Seq(AnyCall) /\ Turns(a, fs) /\ Values(fs) = {tell, del}
          /\ del \in AnyCall /\ tell \in AnyCall
      BY <1>1, <2>4, BroughtCalls, FirstCall
    <3>2. Len(fs) = 2 /\ fs[1] = tell /\ fs[2] = del
      OBVIOUS
    <3> HIDE DEF fs
    <3>3. SomeOf(fs, Deletes) /\ OneOf(fs, Deletes)
      BY <2>1, <3>1, <3>2 DEF SomeOf, OneOf
    <3> QED BY <2>1, <2>4, <3>1, <3>2, <3>3, TopAfter
  <2> QED BY <1>1, <2>2, <2>3, <2>4 DEF CountAll, CountAny, This, Joint, Top
<1>11. \A i \in 1..Len(fs) : fs[i].at \in {"cancelEvent", "delete"}
  BY <1>9 DEF Values, Call
<1>12. /\ \A g \in Values(fs) : JointSound(g)
       /\ \A i \in 1..Len(fs) : fs[i].at \notin {"countAll", "countAny"}
       /\ \A i \in 1..Len(fs) : ~Leads(fs[i])'
       /\ \A g \in Values(fs) : g.at \in {"countAll", "countAny", "finalize"} => g.of = t
  BY <1>9, <1>11 DEF JointSound, Leads, Call
<1>13. CountedIn(t)'
  <2>2. ~Has(Counts(t))'
    BY <1>2, <1>6, <1>7, <1>9, <1>11, TurnedHas DEF Counts, AnyCall, SomeOf, CountsAll
  <2> QED BY <1>1, <1>2, <1>7, <1>9, <2>2, TurnedHas DEF CountedIn, Finals, AnyCall, TopIn
<1>14. count' = Cardinality(Counted')
  BY <1>1, <1>3, <1>4, <1>7, <1>9, <1>12, <1>13, CountTurn
<1>15. Has(CountsAll)' => Has(CountsAll)
  BY <1>2, <1>9, <1>11, TurnedHas DEF CountsAll, AnyCall, SomeOf
<1>17. DeleteSound'
  BY <1>2, <1>3, <1>4, <1>7, <1>9, CountBound, TurnedHas, TurnedSole DEF DeleteSound, Deletes,
     AnyCall, JointInv
<1>18. count' = program.parts /\ program.parts > 0 /\ (Told => Told') =>
          Told' /\ (Has(Deletes)' \/ param' = "deleted")
  <2>1. SUFFICES ASSUME count' = program.parts, Told => Told'
                 PROVE  Told'
    BY <1>2, <1>3, <1>4, <1>7, <1>9, CountBound, TurnedHas DEF Deletes, AnyCall
  <2>2. CASE f.at = "countAll"
    BY <1>6, <2>1, <2>2 DEF JointInv, CountSound
  <2>3. CASE Triggered(Joint)
    BY <2>1, <2>3 DEF Told
  <2>4. CASE TopIn(a, Tells)'
    BY <2>4 DEF Told
  <2> QED BY <1>4, <1>9, <2>1, <2>2, <2>3, <2>4
<1> QED BY <1>1, <1>4, <1>9, <1>12, <1>14, <1>15, <1>17, <1>18, JointAfter

LEMMA DeleteJoint ==
    ASSUME TasksInv, TasksInv', JointInv, NEW a \in Actors, Delete(a)
    PROVE  JointInv'
<1> PICK f : f = stack[a][1]
  OBVIOUS
<1>1. stack[a] # <<>> /\ f.at = "delete" /\ f.at \notin OfEvents
  BY DEF Delete, Top, OfEvents
<1>2. f \in AnyCall /\ StacksTyped /\ 1 \in 1..Len(stack[a]) /\ program \in Programs
  BY <1>1, FirstCall, LenProperties, EmptySeq DEF TasksInv, TasksTyped, StacksTyped
<1>5. UNCHANGED <<program, state, exc, hasValue, isCanceled, stored, count>> /\ param' = "deleted"
  BY DEF Delete, task, event
<1> DEFINE fs == <<>>
<1>6. fs \in Seq(AnyCall) /\ Turns(a, fs) /\ Values(fs) = {}
  BY <1>1, NoCalls, FirstCall DEF Delete
<1>7. Len(fs) = 0 /\ \A i \in 1..Len(fs) : FALSE
  OBVIOUS
<1> HIDE DEF fs
<1>8. \A S : ~SomeOf(fs, S)
  BY <1>7 DEF SomeOf
<1>10. DeleteSound'
  BY <1>1, <1>2, <1>5, <1>6, <1>8, TurnedHas, TurnedSole DEF DeleteSound, Deletes, AnyCall, TopIn,
     Has, JointInv
<1>11. Has(CountsAll)' => Has(CountsAll)
  BY <1>2, <1>6, <1>8, TurnedHas DEF CountsAll, AnyCall
<1>13. count' = Cardinality(Counted')
  BY <1>1, <1>2, <1>5, <1>6, <1>8, JoinedFacts, CountedStays, CountedAfter DEF Done, TopIn,
     Counts, Finals
<1> QED
  BY <1>1, <1>2, <1>5, <1>6, <1>7, <1>10, <1>11, <1>13, JointAfter DEF JointInv, CountSound,
     DeleteSound, TopIn, Deletes, Has

LEMMA JointInit == PplxInit => JointInv
<1> SUFFICES ASSUME PplxInit
             PROVE  JointInv
  OBVIOUS
<1>2. \A S : ~Has(S) /\ Sole(S)
  BY DEF Has, Sole, PplxInit
<1>5. Counted = {}
  BY <1>2, ProgramFacts, JoinedFacts DEF Counted, CountedIn, Done, Outcome, Joint, PplxInit
<1> QED
  BY <1>2, <1>5, ProgramFacts, JoinedFacts, FS_EmptySet DEF JointInv, DeleteSound, FramesSound,
     PplxInit, CountSound, Joint

LEMMA JointStays ==
    ASSUME TasksInv, TasksInv', EventInv, JointInv, [PplxNext]_pplxVars
    PROVE  JointInv'
<1>1. ASSUME NEW a \in Actors, Run(a)
      PROVE  JointInv'
  <2>1. CASE Schedule(a) \/ Start(a) \/ UserBody(a) \/ TaskBody(a) \/ Unwrap(a) \/ Finalize(a)
    BY <2>1, ScheduleJoint, StartJoint, BodyJoint, TaskBodyJoint, UnwrapJoint, FinalizeJoint
  <2>2. CASE Complete(a) \/ Continue(a) \/ CancelTask(a) \/ Cancelled(a)
    BY <2>2, RunJoint, ContinueJoint, CancelJoint
  <2>3. CASE RegisterTask(a) \/ Set(a) \/ Deliver(a) \/ Store(a) \/ CancelEvent(a) \/ Fail(a)
    BY <2>3, RegisterJoint, SetJoint, DeliverJoint, StoreJoint, CancelEventJoint, FailJoint
  <2>4. CASE WhenAll(a) \/ WhenAny(a) \/ CountAll(a) \/ CountAny(a) \/ Delete(a) \/ Vector(a)
    BY <2>4, WhenAllJoint, WhenAnyJoint, CountJoint, DeleteJoint, BodyJoint
  <2> QED BY <1>1, <2>1, <2>2, <2>3, <2>4 DEF Run
<1>2. ASSUME NEW a \in Actors, Work(a)
      PROVE  JointInv'
  BY <1>2, WorkJoint
<1>3. ASSUME NEW s \in Setters, Use(s) \/ Abandon(s)
      PROVE  JointInv'
  BY <1>3, UseJoint
<1>4. ASSUME NEW t \in Tasks, Callback(t)
      PROVE  JointInv'
  BY <1>4, CallbackJoint
<1> QED BY <1>1, <1>2, <1>3, <1>4, BuildJoint, TokenJoint DEF PplxNext

-----------------------------------------------------------------------------
(* The assertions of the code, and who wins an event.                         *)

\* Each assertion holds when it is evaluated.
LEMMA AssertionsStay ==
    ASSUME TasksInv, EventInv, JointInv, AssertionsHold, [PplxNext]_pplxVars
    PROVE  AssertionsHold'
<1>1. ASSUME NEW a \in Actors, stack[a] # <<>>, NEW f, f = stack[a][1], NEW t, t = f.of
      PROVE  /\ f.at = "start" => state[t] \in {"Created", "PendingCancel"}
             /\ f.at = "finalize" => exc[t] = "none" /\ state[t] # "Completed"
             /\ f.at = "continue" => \A n \in Values(f.rest) : state[n] # "Canceled"
             /\ f.at = "cancel" => state[t] # "Completed" /\ exc[t] = "none"
             /\ f.at = "delete" => param = "exists"
             /\ f.at = "perform" /\ BodyOf(t) = "vector" => param = "exists"
  <2>1. /\ f \in AnyCall /\ Sound(a, f) /\ program \in Programs /\ Known \subseteq Tasks
        /\ t \in Known => (exc[t] # "none" => state[t] = "Canceled")
    BY <1>1, FirstCall
  <2>2. 1 \in 1..Len(stack[a])
    BY <1>1, LenProperties, EmptySeq DEF TasksInv, TasksTyped, StacksTyped
  <2>8. f.at = "delete" => param = "exists"
    BY <1>1, <2>1, <2>2 DEF Deletes, Has, JointInv, DeleteSound
  <2>9. f.at = "perform" /\ BodyOf(t) = "vector" => param = "exists"
    <3>1. SUFFICES ASSUME f.at = "perform", BodyOf(t) = "vector"
                   PROVE  Has(Deletes)
      BY DEF JointInv, DeleteSound
    <3>5. PICK j \in (1 + 1)..Len(stack[a]) : stack[a][j] \in Deletes
      BY <1>1, <2>1, <2>2, <3>1 DEF Covered, HasVector, Leads, Sound, Performs, JointInv,
         FramesSound
    <3> QED BY <3>5 DEF Has
  <2> QED
    BY <1>1, <2>1, <2>8, <2>9 DEF Sound, Follows, Fresh, Finishes, Underway, Fails, Alive,
       Startable
<1> DEFINE Excused(x) ==
        \/ x = SetBetween
        \/ x = CancelledBetween /\ \E r \in Reporters(program) : Info(r).body = "all"
<1>2. \A x \in broken' : x \in broken \/ Excused(x)
  <2>1. ASSUME NEW a \in Actors, Run(a)
        PROVE  \A x \in broken' : x \in broken \/ Excused(x)
    <3>1. CASE Start(a)
      BY <1>1, <3>1 DEF Expect, Start, Top, This
    <3>2. CASE Finalize(a)
      BY <1>1, <3>2 DEF Expect, Finalize, Top, This
    <3>3. CASE Continue(a)
      <4>2. This(a).rest # <<>> => state[Head(This(a).rest)] # "Canceled"
        BY <1>1, <3>3, FirstCall, ListTail DEF AnyCall, Sound, This, Continue, Top
      <4> QED BY <3>3, <4>2 DEF Expect, Continue
    <3>4. CASE CancelTask(a)
      <4>2. state[This(a).of] # "Completed" /\ exc[This(a).of] = "none"
        BY <1>1, <3>4 DEF CancelTask, Top, This
      <4> QED BY <3>4, <4>2 DEF Expect, CancelTask
    <3>5. CASE CancelEvent(a)
      <4> PICK f : f = stack[a][1]
        OBVIOUS
      <4> PICK e : e = f.of
        OBVIOUS
      <4>1. stack[a] # <<>> /\ f.at = "cancelEvent" /\ broken' = broken \cup Found(f)
        BY <3>5 DEF CancelEvent, Top, This
      <4>8. 1 \in 1..Len(stack[a])
        BY <4>1, LenProperties, EmptySeq DEF TasksInv, TasksTyped, StacksTyped
      <4>9. f \in AnyCall /\ Sound(a, f)
        BY <4>1, FirstCall
      <4>2. /\ f \in AnyCall /\ e \in Events /\ f \in Cancels(e) /\ f \in Uses(e)
            /\ 1 \in 1..Len(stack[a])
        BY <4>1, <4>8, <4>9 DEF Cancels, Uses, OfEvents, Sound
      <4>3. SUFFICES ASSUME f.exc # "none", e \in isCanceled
                     PROVE  \E r \in Reporters(program) : Info(r).body = "all"
        BY <4>1 DEF Found
      <4>4. Has(Cancels(e)) /\ Has(Uses(e))
        BY <4>2 DEF Has
      <4>5. e = Joint
        BY <4>2, <4>3, <4>4 DEF EventInv, OneCanceller
      <4>6. AllMode
        BY <4>1, <4>2, <4>3, <4>5 DEF JointInv, FramesSound, JointSound
      <4>7. PICK r \in Reporters(program) : state[r] # "none"
        BY <4>4, <4>5 DEF EventInv, JointIdle
      <4> QED BY <4>6, <4>7 DEF AllMode, BodyOf, Info
    <3>6. CASE Delete(a)
      BY <1>1, <3>6 DEF Expect, Delete, Top
    <3>7. CASE Vector(a)
      BY <1>1, <3>7 DEF Expect, Vector, Top, This, BodyOf
    <3>8. CASE \/ Schedule(a) \/ UserBody(a) \/ TaskBody(a) \/ Unwrap(a) \/ Complete(a) \/ Cancelled(a)
               \/ RegisterTask(a) \/ Set(a) \/ Deliver(a) \/ Store(a) \/ Fail(a)
               \/ WhenAll(a) \/ WhenAny(a) \/ CountAll(a) \/ CountAny(a)
      BY <3>8 DEF Schedule, UserBody, TaskBody, Unwrap, Complete, Cancelled, RegisterTask, Set,
         Deliver, Store, Fail, WhenAll, WhenAny, CountAll, CountAny
    <3> QED BY <2>1, <3>1, <3>2, <3>3, <3>4, <3>5, <3>6, <3>7, <3>8 DEF Run
  <2>2. ASSUME NEW s \in Setters, Use(s) \/ Abandon(s)
        PROVE  \A x \in broken' : x \in broken \/ Excused(x)
    <3>1. CASE Use(s)
      BY <3>1 DEF Use
    <3>2. CASE Abandon(s)
      BY <3>2 DEF Expect, Abandon, EventInv, Settled
    <3> QED BY <2>2, <3>1, <3>2
  <2> QED BY <2>1, <2>2 DEF PplxNext, Build, CancelToken, pplxVars, Work, Callback
<1>3. program' = program
  <2>1. ASSUME NEW a \in Actors, Run(a)
        PROVE  program' = program
    <3>1. CASE \/ Schedule(a) \/ Start(a) \/ UserBody(a) \/ TaskBody(a) \/ Unwrap(a)
               \/ Finalize(a) \/ Complete(a) \/ Continue(a) \/ CancelTask(a) \/ Cancelled(a)
      BY <3>1 DEF Schedule, Start, UserBody, TaskBody, Unwrap, Finalize, Complete, Continue,
         CancelTask, Cancelled
    <3>2. CASE RegisterTask(a) \/ Set(a) \/ Deliver(a) \/ Store(a) \/ CancelEvent(a) \/ Fail(a)
      BY <3>2 DEF RegisterTask, Set, Deliver, Store, CancelEvent, Fail
    <3>3. CASE WhenAll(a) \/ WhenAny(a) \/ CountAll(a) \/ CountAny(a) \/ Delete(a) \/ Vector(a)
      BY <3>3 DEF WhenAll, WhenAny, CountAll, CountAny, Delete, Vector
    <3> QED BY <2>1, <3>1, <3>2, <3>3 DEF Run
  <2>2. ASSUME NEW s \in Setters, Use(s) \/ Abandon(s)
        PROVE  program' = program
    BY <2>2 DEF Use, Abandon
  <2> QED BY <2>1, <2>2 DEF PplxNext, Build, CancelToken, pplxVars, Work, Callback
<1> QED BY <1>2, <1>3 DEF AssertionsHold, SetBetween, CancelledBetween, Info

LEMMA OneWinner == TasksInv /\ EventInv => FirstSetterWins
<1> SUFFICES ASSUME TasksInv, EventInv, NEW e \in Events, ~Raced(e),
                    ~\E a \in Actors : Top(a, "cancelEvent") /\ This(a).of = e
             PROVE  /\ wins[e] <= 1
                    /\ \A t, u \in {v \in Made : Info(v).from = "event" /\ Info(v).of = e} :
                        state[t] = "Completed" /\ state[u] = "Canceled" => exc[u] = "none" /\ Info(u).token
  BY DEF FirstSetterWins
<1>3. ASSUME NEW t \in Made, NEW u \in Made, CompletedBy(t, e), CompletedBy(u, e),
             state[t] = "Completed", state[u] = "Canceled"
      PROVE  exc[u] = "none" /\ Info(u).token
  <2>2. e \in hasValue /\ e \notin isCanceled
    BY <1>3 DEF EndsWith, Raced, EventInv, CompletedBy
  <2>4. ~Canceling(e) /\ ~Dropped(e)
    BY <2>2 DEF Canceling, Dropped, Triggered, TopIn, Cancels, Top, This
  <2> QED BY <1>3, <2>4 DEF EndsWith, Refused, EventInv, CompletedBy
<1> QED BY <1>3 DEF Made, CompletedBy, Known, Settled, One, Raced, EventInv

-----------------------------------------------------------------------------
(* Nobody is forgotten.                                                       *)

LEMMA LeastIndex ==
    ASSUME NEW n \in Nat, NEW B \in SUBSET (1..n), B # {}
    PROVE  \E m \in B : \A i \in B : m <= i
<1> DEFINE T == {1..i : i \in B}
<1>2. T \subseteq FiniteSubsetsOf(1..n) /\ T # {}
  <2>1. \A i \in B : 1..i \in SUBSET (1..n) /\ IsFiniteSet(1..i)
    BY FS_Interval
  <2> QED BY <2>1 DEF FiniteSubsetsOf
<1>3. \E X \in T : \A Y \in T : ~(<<Y, X>> \in StrictSubsetOrdering(1..n))
  <2> HIDE DEF T
  <2> QED BY <1>2, FS_StrictSubsetOrderingWellFounded, WFMin
<1>4. PICK m \in B : \A i \in B : ~(<<1..i, 1..m>> \in StrictSubsetOrdering(1..n))
  BY <1>3
<1>5. \A i \in B : i < m => <<1..i, 1..m>> \in StrictSubsetOrdering(1..n)
  BY DEF StrictSubsetOrdering
<1>6. SUFFICES ASSUME NEW i \in B, ~(m <= i)
               PROVE  FALSE
  OBVIOUS
<1>7. i < m
  BY <1>6
<1> QED BY <1>4, <1>5, <1>7

\* What has come to rest: nobody calls, and every task is made.
LEMMA AtRest ==
    ASSUME TasksInv, Quiet
    PROVE  /\ \A S : ~Has(S) /\ \A a \in Actors : ~TopIn(a, S)
           /\ \A t \in Known : BodyOf(t) # "unwrap" => state[t] # "none"
           /\ \A t \in Tasks : Done(t) => t \in done /\ conts[t] = <<>>
           /\ \A t \in Known : state[t] # "none" => Done(t) \/ Alive(t)
           /\ \A t \in Known : Alive(t) =>
                \/ Info(t).from = "then" /\ ~Done(Antecedent(t))
                \/ Info(t).from = "event" /\ t \in Values(waiting[Info(t).of])
                \/ \E u \in Known : /\ BodyOf(u) = "unwrap" /\ BodyOf(t) = "task"
                                    /\ Info(u).from = "then" /\ Info(u).other = t /\ ~Done(Antecedent(u))
<1>1. program \in Programs /\ todo = <<>> /\ pool = {} /\ \A a \in Actors : stack[a] = <<>>
  BY DEF TasksInv, TasksTyped, Quiet
<1>2. \A S : ~Has(S) /\ \A a \in Actors : ~TopIn(a, S)
  BY <1>1 DEF Has, TopIn
<1>3. \A t \in Known : BodyOf(t) # "unwrap" => state[t] # "none"
  <2>1. PICK k \in 0..Len(program.build) : BuiltTo(k)
    BY DEF TasksInv, StatesSound
  <2>2. program.build \in Seq(Tasks) /\ Len(program.build) \in Nat
    BY <1>1, ProgramFacts
  <2>3. k = Len(program.build)
    <3>1. SUFFICES ASSUME k < Len(program.build)
                   PROVE  FALSE
      BY <2>1, <2>2
    <3>3. SubSeq(program.build, k + 1, Len(program.build)) # <<>>
      <4>1. Len(SubSeq(program.build, k + 1, Len(program.build))) = Len(program.build) - (k + 1) + 1
        BY <2>2, <3>1, SubSeqProperties
      <4> QED BY <2>2, <3>1, <4>1
    <3> QED BY <1>1, <2>1, <3>3 DEF BuiltTo
  <2> QED BY <1>1, <2>1, <2>2, <2>3, ProgramFacts DEF BuiltTo
<1>4. \A t \in Tasks : Done(t) => t \in done /\ conts[t] = <<>>
  BY <1>1, <1>2 DEF TasksInv, StatesSound, DoneSound, PlacesSound, ContsSound
<1>6. ASSUME NEW t \in Known, Queued(t)
      PROVE  \/ Info(t).from = "then" /\ ~Done(Antecedent(t))
             \/ Info(t).from = "event" /\ t \in Values(waiting[Info(t).of])
  <2>1. CASE Info(t).from = "then" /\ t \in Values(conts[Antecedent(t)])
    BY <1>1, <1>4, <2>1, AntecedentBuilt, ProgramFacts DEF Values
  <2> QED BY <1>1, <1>6, <2>1 DEF Queued
<1>7. ASSUME NEW t \in Known, Alive(t)
      PROVE  Queued(t) \/ \E u \in Known : Unwraps(u, t) /\ Alive(u)
  BY <1>2, <1>7 DEF TasksInv, LinksSound, Located, Linked
<1>8. ASSUME NEW u \in Known, BodyOf(u) = "unwrap", Alive(u)
      PROVE  Info(u).from = "then" /\ ~Done(Antecedent(u)) /\ BodyOf(Info(u).other) = "task"
  BY <1>1, <1>6, <1>7, <1>8, ProgramFacts DEF Unwraps
<1>9. ASSUME NEW t \in Known, Alive(t)
      PROVE  \/ Info(t).from = "then" /\ ~Done(Antecedent(t))
             \/ Info(t).from = "event" /\ t \in Values(waiting[Info(t).of])
             \/ \E u \in Known : /\ BodyOf(u) = "unwrap" /\ BodyOf(t) = "task"
                                 /\ Info(u).from = "then" /\ Info(u).other = t /\ ~Done(Antecedent(u))
  BY <1>6, <1>7, <1>8, <1>9 DEF Unwraps
<1> QED
  BY <1>1, <1>2, <1>3, <1>4, <1>9, ProgramFacts DEF States, Done, Alive, Fresh, Underway,
     TasksInv, TasksTyped

\* The first task that is not finished would wait for one that is.
LEMMA EveryoneFinishes ==
    ASSUME TasksInv, EventInv, JointInv, Quiet,
           \A e \in Events : waiting[e] # <<>> => e = Joint
    PROVE  \A t \in Known : state[t] # "none" => Done(t)
<1>1. program \in Programs /\ Joint \in Events /\ Len(program.build) \in Nat
  BY ProgramFacts DEF TasksInv, TasksTyped, Joint
<1>2. /\ \A S : ~Has(S) /\ \A a \in Actors : ~TopIn(a, S)
      /\ \A t \in Known : BodyOf(t) # "unwrap" => state[t] # "none"
      /\ \A t \in Tasks : Done(t) => t \in done /\ conts[t] = <<>>
      /\ \A t \in Known : state[t] # "none" => Done(t) \/ Alive(t)
      /\ \A t \in Known : Alive(t) =>
            \/ Info(t).from = "then" /\ ~Done(Antecedent(t))
            \/ Info(t).from = "event" /\ t \in Values(waiting[Info(t).of])
            \/ \E u \in Known : /\ BodyOf(u) = "unwrap" /\ BodyOf(t) = "task"
                                /\ Info(u).from = "then" /\ Info(u).other = t /\ ~Done(Antecedent(u))
  BY AtRest
<1> DEFINE n == Len(program.build)
           B == {i \in 1..n : ~Done(program.build[i])}
<1>3. ASSUME NEW m \in B, \A i \in B : m <= i
      PROVE  FALSE
  <2> PICK t : t = program.build[m]
    OBVIOUS
  <2>1. m \in 1..n /\ ~Done(t) /\ t \in Known /\ BodyOf(t) # "unwrap"
    BY <1>1, <1>3, ProgramFacts
  <2>3. \A u : Before(program, u, t) => Done(u)
    <3>1. SUFFICES ASSUME NEW u, Before(program, u, t)
                   PROVE  Done(u)
      OBVIOUS
    <3>2. PICK i, j \in 1..n : i < j /\ program.build[i] = u /\ program.build[j] = t
      BY <1>1, <3>1, ProgramFacts DEF Before
    <3> QED BY <1>1, <1>3, <2>1, <3>2, ProgramFacts
  <2>5. ASSUME NEW u \in Known, BodyOf(u) = "unwrap", Info(u).from = "then", Info(u).other = t,
               ~Done(Antecedent(u))
        PROVE  FALSE
    BY <1>1, <2>3, <2>5, AntecedentBuilt
  <2>6. ASSUME Info(t).from = "event", t \in Values(waiting[Info(t).of])
        PROVE  FALSE
    <3>2. t \in JointTasks(program) /\ waiting[Joint] # <<>>
      BY <1>1, <2>1, <2>6, ProgramFacts DEF JointTasks, Joint, Known, Info, Values
    <3>3. \A r \in Reporters(program) : Done(r)
      BY <1>1, <1>2, <2>3, <3>2, JoinedFacts, ProgramFacts
    <3>4. Triggered(Joint)
      <4>2. Counted = Reporters(program)
        BY <1>2, <3>3 DEF Counted, CountedIn
      <4>5. Told
        BY <1>1, <3>2, <4>2, JoinedFacts, FS_EmptySet, FS_CardinalityType DEF JointInv, CountSound
      <4> QED BY <1>2, <4>5 DEF Told
    <3> QED BY <1>1, <3>2, <3>4 DEF EventInv, Settled
  <2> QED BY <1>1, <1>2, <2>1, <2>3, <2>5, <2>6, AntecedentBuilt
<1>4. \A i \in 1..n : Done(program.build[i])
  <2>1. SUFFICES ASSUME B # {}
                 PROVE  FALSE
    OBVIOUS
  <2>2. B \in SUBSET (1..n) /\ n \in Nat
    BY <1>1
  <2> HIDE DEF B, n
  <2> QED BY <1>3, <2>1, <2>2, LeastIndex
<1>5. ASSUME NEW t \in Known, state[t] # "none", ~Done(t)
      PROVE  FALSE
  BY <1>1, <1>2, <1>4, <1>5, ProgramFacts, AntecedentBuilt
<1> QED BY <1>5

LEMMA NobodyIsForgotten == TasksInv /\ EventInv /\ JointInv => NobodyForgotten
<1> SUFFICES ASSUME TasksInv, EventInv, JointInv, Quiet,
                    \A e \in Events : waiting[e] # <<>> => e = Joint
             PROVE  /\ \A e \in Events : waiting[e] = <<>>
                    /\ \A t \in Made : Done(t) /\ t \in done /\ conts[t] = <<>>
                    /\ program.parts > 0 => param = "deleted"
  BY DEF NobodyForgotten, Joint
<1>1. program \in Programs /\ Known \subseteq Tasks
  BY ProgramFacts DEF TasksInv, TasksTyped
<1>2. /\ \A S : ~Has(S)
      /\ \A t \in Known : BodyOf(t) # "unwrap" => state[t] # "none"
      /\ \A t \in Tasks : Done(t) => t \in done /\ conts[t] = <<>>
  BY AtRest
<1>3. \A t \in Known : state[t] # "none" => Done(t)
  BY EveryoneFinishes
<1>5. ASSUME NEW e \in Events
      PROVE  waiting[e] = <<>>
  <2>1. \A t \in Values(waiting[e]) : FALSE
    BY <1>3 DEF WaitsFor, Fresh, Done, Outcome, TasksInv, PlacesSound, WaitingSound
  <2> QED BY <2>1, ListFacts DEF TasksInv, TasksTyped
<1>6. program.parts > 0 => param = "deleted"
  BY <1>1, <1>2, <1>3, JoinedFacts DEF JointInv, CountSound, Counted, CountedIn
<1> QED BY <1>1, <1>2, <1>3, <1>5, <1>6 DEF Made, Known

-----------------------------------------------------------------------------
(* The token.                                                                 *)
(*                                                                            *)
(* What a thread does, read off its stack.  The stack of a thread has one of  *)
(* few forms, which the innermost call and the one around it tell apart.      *)

NoRole == [at |-> "idle", reg |-> "all", base |-> "none"]
Roles ==
    {NoRole}
    \cup [at : {"swap", "run"}, reg : {"all"}, base : {"none"}]
    \cup [at : {"push", "registered"}, reg : Registrations, base : {"none"}]
    \cup [at : Invoking, reg : Registrations, base : {"registered", "run"}]
    \cup [at : Deregistering, reg : Owned, base : {"none", "exit"}]

Role(s) ==
    IF s = <<>> THEN NoRole
    ELSE [at |-> s[1].at, reg |-> s[1].reg, base |-> IF Len(s) = 1 THEN "none" ELSE s[2].at]
StackOf(x) ==
    CASE x.at = "idle" -> <<>>
      [] x.at # "idle" /\ x.base = "none" -> <<Frame(x.at, x.reg)>>
      [] x.base = "registered" -> <<Frame(x.at, x.reg), Frame("registered", x.reg)>>
      [] x.base = "run" -> <<Frame(x.at, x.reg), Frame("run", "all")>>
      [] x.base = "exit" -> <<Frame(x.at, x.reg), Frame("exit", x.reg), Frame("run", "all")>>

role == [t \in Threads |-> Role(thread[t])]
StacksSound == \A t \in Threads : role[t] \in Roles /\ thread[t] = StackOf(role[t])

\* Who registers r, invokes its callback, deregisters it, holds its owner, is
\* within the callback; and who is within _Cancel().
Adds(x, r) == x.reg = r /\ (x.at \in {"push", "registered"} \/ x.base = "registered")
Runs(x, r) == x.reg = r /\ (x.at \in Invoking \/ x.base = "exit")
Places(x, r) == Runs(x, r) \/ (x.reg = r /\ x.at = "push")
Deregs(x, r) == x.reg = r /\ x.at \in Deregistering
Holds(x, r) == x.reg = r /\ x.at \in {"body", "unlock"}
Busy(x, r) == x.reg = r /\ (x.at \in {"exec", "body", "unlock", "exit"} \/ x.base = "exit")
IsCancelling(x) == x.at \in {"swap", "run"} \/ x.base \in {"run", "exit"}
Waits(x, r) == x.reg = r /\ x.at \in {"push", "enter"}
Uncalled(x, r) == x.reg = r /\ x.at \in {"push", "enter", "exec", "body"}

-----------------------------------------------------------------------------
(* The parts of the invariant.                                                *)

\* While the flag is 0 nothing is called; one thread at most is in _Cancel(),
\* and what is in a list after that is for this thread to take.
FlagSound ==
    /\ flag = 0 =>
        /\ rundown = <<>>
        /\ \A r \in Registrations : called[r] = 0
        /\ \A t \in Threads : role[t].at \notin Invoking /\ role[t].base # "exit"
    /\ \A t \in Threads : IsCancelling(role[t]) => flag = 1
    /\ \A t, u \in Threads : IsCancelling(role[t]) /\ IsCancelling(role[u]) => t = u
    /\ listed # <<>> /\ flag # 0 => \E t \in Threads : role[t].at = "swap"
    /\ rundown # <<>> => \E t \in Threads : IsCancelling(role[t]) /\ role[t].at # "swap"

Once(list) == \A i, j \in 1..Len(list) : list[i] = list[j] => i = j

Listed(r) == In(r, listed) \/ In(r, rundown)

\* A registration is in one list, or handled by one thread.
PlaceSound(r) ==
    /\ \A t, u \in Threads : Places(role[t], r) /\ Places(role[u], r) => t = u
    /\ \A t \in Threads : Places(role[t], r) => ~Listed(r)
    /\ ~(In(r, listed) /\ In(r, rundown))

Added(r) == \E t \in Threads : Adds(role[t], r)
Ending(r) == \E t \in Threads : Deregs(role[t], r)
Locked(r) == \E t \in Threads : Holds(role[t], r)
Placed(r) == Listed(r) \/ \E t \in Threads : Places(role[t], r)

\* The shared pointers to an owner: its user's and the running callback's.
OwnerSound(r) ==
    /\ \A t, u \in Threads : Adds(role[t], r) /\ Adds(role[u], r) => t = u
    /\ \A t, u \in Threads : Deregs(role[t], r) /\ Deregs(role[u], r) => t = u
    /\ Added(r) => r \notin held
    /\ Ending(r) => shared[r] = 0
    /\ shared[r] = One(r \in Owned /\ (r \in held \/ Added(r))) + One(Locked(r))
    /\ Locked(r) => r \in Owned

\* What was never registered is nowhere.
NewSound(r) ==
    phase[r] = "none" =>
        /\ \A t \in Threads : role[t].reg = r => role[t].at \in {"idle", "swap", "run"}
        /\ ~Listed(r) /\ r \notin held /\ called[r] = 0
        /\ r \notin strays

\* The callback runs under its own mark, or somebody waits for it to end.
Awaited(r) ==
    /\ phase[r] = "synchronize" /\ sync[r] \in Threads /\ sync[r] \notin signalled
    /\ role[sync[r]].at = "wait" /\ role[sync[r]].reg = r


\* A callback that runs is marked by its thread or waited for, and while its
\* owner lives it was called, or is still to be.
CallSound(r) ==
    /\ called[r] \in 0..1
    /\ (\E t \in Threads : Uncalled(role[t], r)) => called[r] = 0
    /\ Listed(r) \/ (\E t \in Threads : Waits(role[t], r)) =>
        called[r] = 0 /\ phase[r] \in {"clear", "defer", "synchronize"}
    /\ \A t \in Threads : Busy(role[t], r) => phase[r] = t \/ Awaited(r)
    /\ \A t \in Threads :
        role[t].reg = r /\ role[t].base = "exit" =>
            phase[r] = t /\ role[t].at \in {"lock", "cas", "release"}
    /\ shared[r] > 0 => phase[r] \notin {"defer", "synchronize"}
    /\ shared[r] > 0 => called[r] = 1 \/ Listed(r) \/ \E t \in Threads : Uncalled(role[t], r)

\* The references: the handle and the place, less that of the list which
\* _DeregisterCallback() gave up without having it.
HandleHeld(r) == Added(r) \/ (r \in Owned /\ (shared[r] > 0 \/ Ending(r)))
RefsSound(r) ==
    phase[r] # "none" => refs[r] = One(HandleHeld(r)) + One(Placed(r)) - One(r \in strays)

StraySound(r) ==
    r \in strays =>
        shared[r] = 0 /\ \A t \in Threads : ~(role[t].reg = r /\ role[t].at = "lock")

\* An event that is set was waited for.
SignalsSound == \A u \in signalled : role[u].at = "wait"

RegSound(r) ==
    PlaceSound(r) /\ OwnerSound(r) /\ NewSound(r) /\ CallSound(r) /\ RefsSound(r) /\ StraySound(r)
TokTypes ==
    /\ flag \in 0..2
    /\ listed \in Seq(Registrations) /\ rundown \in Seq(Registrations)
    /\ phase \in [Registrations -> Phases \cup Threads]
    /\ refs \in [Registrations -> Int]
    /\ sync \in [Registrations -> Threads \cup {"none"}]
    /\ signalled \subseteq Threads
    /\ shared \in [Registrations -> Int] /\ held \subseteq Owned
    /\ thread \in [Threads -> Seq(Calls)]
    /\ alive \in BOOLEAN
    /\ called \in [Registrations -> Int]
    /\ strays \subseteq Owned
TokInv ==
    /\ TokTypes
    /\ StacksSound /\ FlagSound /\ Once(listed) /\ Once(rundown) /\ SignalsSound
    /\ \A r \in Registrations : RegSound(r)
-----------------------------------------------------------------------------
(* Stacks.                                                                    *)

LEMMA RolesAre ==
    ASSUME NEW x \in Roles
    PROVE  /\ x.at \in TokenPoints \cup {"swap", "run", "idle"}
           /\ x.base \in {"none", "registered", "run", "exit"}
           /\ x.at = "idle" => x = NoRole
           /\ x.at \in {"swap", "run"} => x.reg = "all" /\ x.base = "none"
           /\ x.at \in {"push", "registered"} => x.reg \in Registrations /\ x.base = "none"
           /\ x.at \in Invoking => x.reg \in Registrations /\ x.base \in {"registered", "run"}
           /\ x.at \in Deregistering => x.reg \in Owned /\ x.base \in {"none", "exit"}
           /\ x = [at |-> x.at, reg |-> x.reg, base |-> x.base]
  BY DEF Roles, NoRole, TokenPoints, Invoking, Deregistering

LEMMA RoleOfStack ==
    ASSUME NEW x \in Roles
    PROVE  Role(StackOf(x)) = x /\ StackOf(x) \in Seq(Calls)
<1>1. CASE x = NoRole
  BY <1>1 DEF Role, StackOf, NoRole
<1>2. CASE x \in [at : {"swap", "run"}, reg : {"all"}, base : {"none"}]
  BY <1>2 DEF Role, StackOf, Frame, Calls
<1>3. CASE x \in [at : {"push", "registered"}, reg : Registrations, base : {"none"}]
  BY <1>3 DEF Role, StackOf, Frame, Calls, TokenPoints
<1>4. CASE x \in [at : Invoking, reg : Registrations, base : {"registered", "run"}]
  <2>1. x.at \in Invoking /\ x.reg \in Registrations /\ x.base \in {"registered", "run"} /\ x.at # "idle"
        /\ x = [at |-> x.at, reg |-> x.reg, base |-> x.base]
    BY <1>4 DEF Invoking
  <2>3. CASE x.base = "registered"
    BY <2>1, <2>3 DEF Role, Frame, Calls, TokenPoints, Invoking, StackOf
  <2>4. CASE x.base = "run"
    BY <2>1, <2>4 DEF Role, Frame, Calls, TokenPoints, Invoking, StackOf
  <2> QED BY <2>1, <2>3, <2>4
<1>5. CASE x \in [at : Deregistering, reg : Owned, base : {"none", "exit"}]
  <2>1. x.at \in Deregistering /\ x.reg \in Registrations /\ x.base \in {"none", "exit"} /\ x.at # "idle"
        /\ x = [at |-> x.at, reg |-> x.reg, base |-> x.base]
    BY <1>5, TokenAssumption DEF Deregistering
  <2>3. CASE x.base = "none"
    BY <2>1, <2>3 DEF Role, Frame, StackOf, Calls, TokenPoints, Deregistering
  <2>4. CASE x.base = "exit"
    BY <2>1, <2>4 DEF Role, Frame, StackOf, Calls, TokenPoints, Deregistering
  <2> QED BY <2>1, <2>3, <2>4
<1> QED BY <1>1, <1>2, <1>3, <1>4, <1>5 DEF Roles

LEMMA RoleStep ==
    ASSUME TokTypes, StacksSound, NEW t \in Threads, NEW x \in Roles,
           thread' = [thread EXCEPT ![t] = StackOf(x)]
    PROVE  /\ StacksSound' /\ thread' \in [Threads -> Seq(Calls)]
           /\ role' = [role EXCEPT ![t] = x]
  BY RoleOfStack DEF StacksSound, role, TokTypes

LEMMA Tops ==
    ASSUME StacksSound, NEW t \in Threads
    PROVE  /\ role[t] \in Roles
           /\ thread[t] = <<>> <=> role[t].at = "idle"
           /\ thread[t] # <<>> => thread[t][1] = Frame(role[t].at, role[t].reg)
           /\ \A p \in TokenPoints \cup {"swap", "run"} : At(t, p) => role[t].at = p /\ Of(t) = role[t].reg
<1> DEFINE x == role[t]
<1>1. x \in Roles /\ thread[t] = StackOf(x)
  BY DEF StacksSound
<1> QED BY <1>1, RolesAre DEF At, Of, Frame, StackOf, NoRole

LEMMA Goes ==
    ASSUME TokTypes, StacksSound, NEW t \in Threads, NEW z \in Roles, thread[t] # <<>>,
           Goto(t, z.at), z.at # "idle", z.reg = role[t].reg, z.base = role[t].base
    PROVE  /\ StacksSound' /\ thread' \in [Threads -> Seq(Calls)]
           /\ role' = [role EXCEPT ![t] = z]
<1> DEFINE x == role[t]
<1>1. x \in Roles /\ thread[t] = StackOf(x) /\ x.at # "idle"
  BY Tops DEF StacksSound
<1>2. z.reg = x.reg /\ z.base = x.base
  OBVIOUS
<1>3. [thread[t] EXCEPT ![1].at = z.at] = StackOf(z)
  <2> HIDE DEF x
  <2>1. CASE x.base = "none"
    BY <2>1, <1>1, <1>2 DEF StackOf, Frame
  <2>2. CASE x.base = "registered"
    BY <2>2, <1>1, <1>2 DEF StackOf, Frame
  <2>3. CASE x.base = "run"
    BY <2>3, <1>1, <1>2 DEF StackOf, Frame
  <2>4. CASE x.base = "exit"
    BY <2>4, <1>1, <1>2 DEF StackOf, Frame
  <2> QED BY <2>1, <2>2, <2>3, <2>4, <1>1, RolesAre
<1> QED BY <1>3, RoleStep DEF Goto, TokTypes

\* The call around x, once x returns.
After(x) ==
    CASE x.base = "none" -> NoRole
      [] x.base = "registered" -> [at |-> "registered", reg |-> x.reg, base |-> "none"]
      [] x.base = "run" -> [at |-> "run", reg |-> "all", base |-> "none"]
      [] x.base = "exit" -> [at |-> "exit", reg |-> x.reg, base |-> "run"]

LEMMA Returns ==
    ASSUME TokTypes, StacksSound, NEW t \in Threads, thread[t] # <<>>, Return(t)
    PROVE  /\ StacksSound' /\ thread' \in [Threads -> Seq(Calls)]
           /\ After(role[t]) \in Roles /\ role' = [role EXCEPT ![t] = After(role[t])]
<1> DEFINE x == role[t]
<1>1. x \in Roles /\ thread[t] = StackOf(x) /\ x.at # "idle"
  BY Tops DEF StacksSound
<1>2. After(x) \in Roles /\ Tail(thread[t]) = StackOf(After(x))
  <2> HIDE DEF x
  <2>1. CASE x.base = "none"
    BY <1>1, <2>1 DEF Roles, After, StackOf, NoRole
  <2>2. CASE x.base = "registered"
    BY <1>1, <2>2, RolesAre DEF Roles, After, StackOf, TokenPoints, Invoking, Deregistering
  <2>3. CASE x.base = "run"
    BY <1>1, <2>3 DEF Roles, After, StackOf
  <2>4. CASE x.base = "exit"
    BY <1>1, <2>4, TokenAssumption, RolesAre DEF Roles, Invoking, After, StackOf, TokenPoints,
       Deregistering
  <2> QED BY <2>1, <2>2, <2>3, <2>4, <1>1, RolesAre
<1> QED BY <1>2, RoleStep DEF Return, Caller

LEMMA Begins ==
    ASSUME TokTypes, StacksSound, NEW t \in Threads, NEW z \in Roles,
           z.at # "idle", z.base = "none", thread' = [thread EXCEPT ![t] = <<Frame(z.at, z.reg)>>]
    PROVE  /\ StacksSound' /\ thread' \in [Threads -> Seq(Calls)]
           /\ role' = [role EXCEPT ![t] = z]
  BY RoleStep DEF StackOf

LEMMA PutBefore ==
    ASSUME NEW a, NEW b, NEW c
    PROVE  <<a, b>> \o <<>> = <<a, b>> /\ <<a, b>> \o <<c>> = <<a, b, c>>
<1> DEFINE S == {a, b, c}
<1>1. <<a, b>> \in Seq(S) /\ <<c>> \in Seq(S) /\ <<a, b, c>> \in Seq(S)
  OBVIOUS
<1>3. /\ <<a, b>> \o <<c>> \in Seq(S) /\ Len(<<a, b>> \o <<c>>) = 3
      /\ \A i \in 1..3 : (<<a, b>> \o <<c>>)[i] = <<a, b, c>>[i]
  BY <1>1, ConcatProperties
<1> QED BY <1>1, <1>3, SeqEqual, ConcatEmptySeq

LEMMA Invokes ==
    ASSUME TokTypes, StacksSound, NEW t \in Threads, NEW z \in Roles, thread[t] # <<>>,
           role[t].base = "none", z.at # "idle",
           \/ z.base = "registered" /\ z.reg = role[t].reg
           \/ z.base = "run" /\ role[t].reg = "all",
           Invoke(t, z.base, Frame(z.at, z.reg))
    PROVE  /\ StacksSound' /\ thread' \in [Threads -> Seq(Calls)]
           /\ role' = [role EXCEPT ![t] = z]
<1> DEFINE x == role[t]
<1>1. x \in Roles /\ thread[t] = StackOf(x) /\ x.at # "idle"
  BY Tops DEF StacksSound
<1>2. thread[t] = <<Frame(x.at, x.reg)>>
  <2> HIDE DEF x
  <2> QED BY <1>1 DEF StackOf, x
<1>4. <<Frame(z.at, z.reg), Frame(z.base, Of(t))>> \o Caller(t) = StackOf(z)
  <2>2. CASE z.base = "registered" /\ z.reg = x.reg
    BY <1>2, <2>2, PutBefore DEF StackOf, Caller, Of, Frame
  <2>3. CASE z.base = "run" /\ x.reg = "all"
    BY <1>2, <2>3, PutBefore DEF StackOf, Caller, Of, Frame
  <2> QED BY <2>2, <2>3
<1> QED BY <1>4, RoleStep DEF Invoke

LEMMA Nests ==
    ASSUME TokTypes, StacksSound, NEW t \in Threads, thread[t] # <<>>,
           role[t].base = "run", role[t].reg \in Owned,
           Invoke(t, "exit", Frame("lock", Of(t)))
    PROVE  /\ StacksSound' /\ thread' \in [Threads -> Seq(Calls)]
           /\ role' = [role EXCEPT ![t] = [at |-> "lock", reg |-> role[t].reg, base |-> "exit"]]
<1> DEFINE x == role[t]
           z == [at |-> "lock", reg |-> x.reg, base |-> "exit"]
<1>1. x \in Roles /\ thread[t] = StackOf(x) /\ x.at # "idle"
  BY Tops DEF StacksSound
<1>2. thread[t] = <<Frame(x.at, x.reg), Frame("run", "all")>>
  <2> HIDE DEF x
  <2> QED BY <1>1 DEF StackOf, x
<1>4. <<Frame("lock", Of(t)), Frame("exit", Of(t))>> \o Caller(t) = StackOf(z)
  <2>2. z.at = "lock" /\ z.reg = x.reg /\ z.base = "exit"
    OBVIOUS
  <2> HIDE DEF z
  <2> QED BY <1>2, <2>2, PutBefore DEF StackOf, Caller, Of, Frame
<1> QED BY <1>4, RoleStep DEF Invoke, Roles, Deregistering

-----------------------------------------------------------------------------
(* Lists of registrations, which hold each once.                              *)

LEMMA Appended ==
    ASSUME NEW list \in Seq(Registrations), NEW r \in Registrations
    PROVE  /\ Append(list, r) \in Seq(Registrations)
           /\ \A q : In(q, Append(list, r)) <=> In(q, list) \/ q = r
           /\ Once(list) /\ ~In(r, list) => Once(Append(list, r))
<1> DEFINE new == Append(list, r)
<1>1. /\ new \in Seq(Registrations) /\ Len(list) \in Nat /\ Len(new) = Len(list) + 1
      /\ \A i \in 1..Len(list) : new[i] = list[i]
      /\ new[Len(list) + 1] = r
  BY AppendProperties, LenProperties
<1> HIDE DEF new
<1>2. ASSUME NEW q PROVE In(q, new) <=> In(q, list) \/ q = r
  BY <1>1 DEF In
<1>3. ASSUME Once(list), ~In(r, list) PROVE Once(new)
  <2>1. ASSUME NEW i \in 1..Len(new), NEW j \in 1..Len(new), new[i] = new[j] PROVE i = j
    <3>1. CASE i \in 1..Len(list) /\ j \in 1..Len(list)
      BY <1>1, <1>3, <2>1, <3>1 DEF Once
    <3>2. CASE i = Len(list) + 1 /\ j \in 1..Len(list)
      BY <1>1, <1>3, <2>1, <3>2 DEF In
    <3>3. CASE i \in 1..Len(list) /\ j = Len(list) + 1
      BY <1>1, <1>3, <2>1, <3>3 DEF In
    <3> QED BY <1>1, <3>1, <3>2, <3>3
  <2> QED BY <2>1 DEF Once
<1> QED BY <1>1, <1>2, <1>3 DEF new

LEMMA Removed ==
    ASSUME NEW list \in Seq(Registrations), NEW r \in Registrations, Once(list)
    PROVE  /\ Without(r, list) \in Seq(Registrations)
           /\ \A q : In(q, Without(r, list)) <=> In(q, list) /\ q # r
           /\ Once(Without(r, list))
<1>1. CASE ~In(r, list)
  BY <1>1 DEF Without, In
<1>2. CASE In(r, list)
  <2>1. Len(list) \in Nat /\ \A i \in 1..Len(list) : list[i] \in Registrations
    BY LenProperties, ElementOfSeq
  <2>2. PICK k \in 1..Len(list) : list[k] = r
    BY <1>2 DEF In
  <2> DEFINE i == CHOOSE i \in 1..Len(list) : list[i] = r /\ \A j \in 1..(i - 1) : list[j] # r
             new == [j \in 1..(Len(list) - 1) |-> IF j < i THEN list[j] ELSE list[j + 1]]
  <2>4. i \in 1..Len(list) /\ list[i] = r
    BY <2>1, <2>2 DEF Once
  <2>5. Without(r, list) = new
    BY <1>2 DEF Without
  <2> HIDE DEF i
  <2>6. new \in Seq(Registrations) /\ Len(new) = Len(list) - 1
        /\ \A j \in 1..(Len(list) - 1) : new[j] = IF j < i THEN list[j] ELSE list[j + 1]
    BY <2>1, <2>4
  <2> HIDE DEF new
  <2>7. ASSUME NEW q PROVE In(q, new) <=> In(q, list) /\ q # r
    <3>1. ASSUME In(q, new) PROVE In(q, list) /\ q # r
      <4>1. PICK j \in 1..(Len(list) - 1) : new[j] = q
        BY <2>6, <3>1 DEF In
      <4>2. CASE j < i
        BY <2>1, <2>4, <2>6, <4>1, <4>2 DEF In, Once
      <4>3. CASE ~(j < i)
        BY <2>1, <2>4, <2>6, <4>1, <4>3 DEF In, Once
      <4> QED BY <4>2, <4>3
    <3>2. ASSUME In(q, list), q # r PROVE In(q, new)
      <4>1. PICK j \in 1..Len(list) : list[j] = q
        BY <3>2 DEF In
      <4>3. CASE j < i
        BY <2>1, <2>4, <2>6, <4>1, <4>3 DEF In
      <4>4. CASE j > i
        <5>2. new[j - 1] = q
          BY <2>1, <2>4, <2>6, <4>1, <4>4
        <5> QED BY <2>1, <2>4, <2>6, <4>1, <4>4, <5>2 DEF In
      <4> QED BY <2>1, <2>4, <3>2, <4>1, <4>3, <4>4
    <3> QED BY <3>1, <3>2
  <2>8. ASSUME NEW j \in 1..(Len(list) - 1), NEW l \in 1..(Len(list) - 1), new[j] = new[l] PROVE j = l
    BY <2>1, <2>4, <2>6, <2>8 DEF Once
  <2> QED BY <2>5, <2>6, <2>7, <2>8 DEF Once
<1> QED BY <1>1, <1>2

LEMMA Headed ==
    ASSUME NEW list \in Seq(Registrations), list # <<>>, Once(list)
    PROVE  /\ Head(list) \in Registrations /\ In(Head(list), list)
           /\ Tail(list) \in Seq(Registrations) /\ Once(Tail(list))
           /\ \A q : In(q, Tail(list)) <=> In(q, list) /\ q # Head(list)
<1> DEFINE new == Tail(list)
<1>1. /\ Len(list) \in Nat /\ Len(list) > 0 /\ \A i \in 1..Len(list) : list[i] \in Registrations
  BY LenProperties, ElementOfSeq, EmptySeq
<1>2. /\ Head(list) = list[1] /\ new \in Seq(Registrations) /\ Len(new) = Len(list) - 1
      /\ \A i \in 1..(Len(list) - 1) : new[i] = list[i + 1]
  BY <1>1, HeadTailProperties
<1> HIDE DEF new
<1>4. ASSUME NEW q PROVE In(q, new) <=> In(q, list) /\ q # Head(list)
  <2>1. ASSUME In(q, new) PROVE In(q, list) /\ q # Head(list)
    <3>1. PICK i \in 1..(Len(list) - 1) : new[i] = q
      BY <1>2, <2>1 DEF In
    <3> QED BY <1>1, <1>2, <3>1 DEF In, Once
  <2>2. ASSUME In(q, list), q # Head(list) PROVE In(q, new)
    <3>1. PICK i \in 1..Len(list) : list[i] = q
      BY <2>2 DEF In
    <3>4. new[i - 1] = q
      BY <1>1, <1>2, <2>2, <3>1
    <3> QED BY <1>1, <1>2, <2>2, <3>1, <3>4 DEF In
  <2> QED BY <2>1, <2>2
<1>5. ASSUME NEW i \in 1..(Len(list) - 1), NEW j \in 1..(Len(list) - 1), new[i] = new[j] PROVE i = j
  BY <1>1, <1>2, <1>5 DEF Once
<1> QED BY <1>1, <1>2, <1>4, <1>5 DEF new, In, Once

-----------------------------------------------------------------------------
(* One registration, when a thread t goes from its role to another.           *)

\* t does nothing to r that counts.
Unconcerned(x, r) == x.reg # r \/ x.at \in {"idle", "swap", "run"}

LEMMA UnconcernedMeans ==
    ASSUME NEW x \in Roles, NEW r, Unconcerned(x, r)
    PROVE  /\ ~Adds(x, r) /\ ~Places(x, r) /\ ~Deregs(x, r) /\ ~Holds(x, r)
           /\ ~Busy(x, r) /\ ~Waits(x, r) /\ ~Uncalled(x, r)
           /\ ~(x.reg = r /\ x.base = "exit") /\ ~(x.at = "wait" /\ x.reg = r)
<1>1. x.reg # r \/ (x.at \in {"idle", "swap", "run"} /\ x.base = "none")
  BY RolesAre DEF Unconcerned, NoRole
<1> QED
  BY <1>1 DEF Adds, Places, Runs, Deregs, Holds, Busy, Waits, Uncalled, Invoking, Deregistering

LEMMA Untouched ==
    ASSUME TokInv, NEW t \in Threads, NEW z \in Roles, role' = [role EXCEPT ![t] = z],
           NEW q \in Registrations, Unconcerned(role[t], q), Unconcerned(z, q),
           Listed(q)' <=> Listed(q), ~(In(q, listed) /\ In(q, rundown))',
           phase'[q] = phase[q], refs'[q] = refs[q], sync'[q] = sync[q],
           shared'[q] = shared[q], called'[q] = called[q],
           q \in held' <=> q \in held, q \in strays' <=> q \in strays,
           \A u \in Threads : role[u].at = "wait" /\ role[u].reg = q =>
                (u \in signalled' <=> u \in signalled)
    PROVE  RegSound(q)'
<1> DEFINE x == role[t]
<1>1. x \in Roles /\ RegSound(q) /\ role \in [Threads -> Roles]
  BY DEF TokInv, StacksSound, role
<1>2. role'[t] = z /\ \A u \in Threads : u # t => role'[u] = role[u]
  BY <1>1
<1>3. \A u \in Threads :
        /\ Adds(role'[u], q) <=> Adds(role[u], q)
        /\ Places(role'[u], q) <=> Places(role[u], q)
        /\ Deregs(role'[u], q) <=> Deregs(role[u], q)
        /\ Holds(role'[u], q) <=> Holds(role[u], q)
        /\ Busy(role'[u], q) <=> Busy(role[u], q)
        /\ Waits(role'[u], q) <=> Waits(role[u], q)
        /\ Uncalled(role'[u], q) <=> Uncalled(role[u], q)
  BY <1>1, <1>2, UnconcernedMeans
<1>7. OwnerSound(q)'
  BY <1>1, <1>3 DEF RegSound, OwnerSound, One, Added, Ending, Locked, Placed
<1>8. NewSound(q)'
  <2>1. ASSUME phase[q] = "none", NEW u \in Threads, role'[u].reg = q
        PROVE  role'[u].at \in {"idle", "swap", "run"}
    <3>1. CASE u = t
      BY <1>2, <2>1, <3>1 DEF Unconcerned
    <3>2. CASE u # t
      BY <1>1, <1>2, <2>1, <3>2 DEF RegSound, NewSound
    <3> QED BY <3>1, <3>2
  <2> QED BY <1>1, <2>1 DEF RegSound, NewSound
<1>10. RefsSound(q)'
  BY <1>1, <1>3 DEF RegSound, RefsSound, HandleHeld, One, Added, Ending, Locked, Placed
<1> QED
  BY <1>1, <1>2, <1>3, <1>7, <1>8, <1>10, UnconcernedMeans DEF RegSound, PlaceSound, StraySound,
     Unconcerned, CallSound, Awaited

LEMMA InvHas ==
    ASSUME TokInv, NEW t \in Threads
    PROVE  /\ TokTypes /\ StacksSound /\ FlagSound /\ SignalsSound
           /\ Once(listed) /\ Once(rundown) /\ \A r \in Registrations : RegSound(r)
           /\ role \in [Threads -> Roles] /\ role[t] \in Roles
  BY DEF TokInv, StacksSound, role

\* The parts of the invariant that are about the threads, when no list grows
\* and nobody begins or ends _Cancel().
LEMMA FlagKeeps ==
    ASSUME TokInv, NEW t \in Threads, NEW z \in Roles, role' = [role EXCEPT ![t] = z],
           IsCancelling(z) <=> IsCancelling(role[t]), z.at = "swap" <=> role[t].at = "swap",
           flag = 0 => z.at \notin Invoking /\ z.base # "exit" /\ called' = called,
           flag' = flag, rundown' = rundown,
           listed' = listed \/ listed # <<>> \/ flag = 0
    PROVE  FlagSound'
<1>1. FlagSound /\ role \in [Threads -> Roles]
  BY InvHas
<1> QED BY <1>1 DEF FlagSound

\* Nobody who waits is disturbed by a thread that goes on somewhere else.
LEMMA SignalsKeep ==
    ASSUME TokInv, NEW t \in Threads, NEW z \in Roles, role' = [role EXCEPT ![t] = z],
           role[t].at # "wait" \/ t \notin signalled', signalled' \subseteq signalled
    PROVE  SignalsSound'
  BY InvHas DEF SignalsSound, TokTypes

-----------------------------------------------------------------------------
(* _RegisterCallback().                                                       *)

LEMMA PushKeeps ==
    ASSUME TokInv, NEW t \in Threads, NEW r \in Registrations, Push(t), Of(t) = r
    PROVE  TokInv'
<1> DEFINE x == role[t]
           a == [at |-> "registered", reg |-> r, base |-> "none"]
           b == [at |-> "enter", reg |-> r, base |-> "registered"]
<1>1. x.at = "push" /\ x.base = "none" /\ x.reg = r /\ thread[t] # <<>>
      /\ x \in Roles /\ role \in [Threads -> Roles] /\ RegSound(r)
  BY InvHas, Tops, RolesAre DEF Push, At, TokenPoints
<1>2. a \in Roles /\ b \in Roles
  BY <1>1 DEF Roles, Invoking
<1>3. PICK z \in Roles :
        /\ \/ z = a /\ flag = 0 /\ listed' = Append(listed, r)
           \/ z = b /\ flag # 0 /\ listed' = listed
        /\ role' = [role EXCEPT ![t] = z] /\ StacksSound' /\ thread' \in [Threads -> Seq(Calls)]
  <2>1. CASE flag = 0
    <3>2. a.at = "registered" /\ a.reg = r /\ a.base = "none" /\ Goto(t, a.at)
      BY <1>1, <2>1 DEF Push
    <3> HIDE DEF a
    <3> QED BY <1>1, <1>2, <2>1, <3>2, Goes, InvHas DEF Push
  <2>2. CASE flag # 0
    <3>2. b.at = "enter" /\ b.reg = r /\ b.base = "registered"
      OBVIOUS
    <3>3. r = role[t].reg /\ role[t].base = "none"
      BY <1>1
    <3> HIDE DEF b, x
    <3> QED BY <1>1, <1>2, <2>2, <3>2, <3>3, Invokes, InvHas DEF Push
  <2> QED BY <2>1, <2>2
<1>5. UNCHANGED <<flag, rundown, phase, refs, sync, signalled, shared, held, alive, called, strays>>
  BY DEF Push, registration, owners
<1>6. role'[t] = z /\ \A u \in Threads : u # t => role'[u] = role[u]
  BY <1>1, <1>3
<1>7. /\ TokTypes' /\ Once(listed)' /\ Once(rundown)'
      /\ \A q : In(q, listed') <=> In(q, listed) \/ (z = a /\ q = r)
  <2>3. listed \in Seq(Registrations) /\ Once(listed) /\ Once(rundown)
    BY DEF TokInv, TokTypes
  <2>4. CASE z = a
    <3>1. listed' = Append(listed, r)
      BY <1>3, <2>4
    <3> QED
      BY <1>1, <1>3, <1>5, <2>3, <2>4, <3>1, Appended DEF TokInv, TokTypes, Once, RegSound,
         PlaceSound, Places, Listed
  <2>5. CASE z = b
    BY <1>1, <1>3, <1>5, <2>3, <2>5 DEF TokInv, TokTypes, Once
  <2> QED BY <1>3, <2>4, <2>5
<1>8. FlagSound'
  <2>1. FlagSound
    BY InvHas
  <2>4. listed' # <<>> /\ flag # 0 => \E u \in Threads : role'[u].at = "swap"
    BY <1>1, <1>3, <1>6, <2>1 DEF FlagSound
  <2> QED BY <1>1, <1>3, <1>5, <1>6, <2>1, <2>4 DEF FlagSound, Invoking, IsCancelling
<1>9. SignalsSound'
  BY <1>1, <1>5, <1>6, InvHas DEF SignalsSound, TokInv, TokTypes
<1>10. ASSUME NEW q \in Registrations, q # r PROVE RegSound(q)'
  <2>1. Unconcerned(x, q) /\ Unconcerned(z, q)
    BY <1>1, <1>3, <1>10 DEF Unconcerned
  <2> QED BY <1>3, <1>5, <1>7, <1>10, <2>1, InvHas, Untouched DEF Listed, RegSound, PlaceSound
<1>11. RegSound(r)'
  <2>1. PlaceSound(r)'
    BY <1>1, <1>3, <1>5, <1>6, <1>7 DEF RegSound, PlaceSound, Places, Runs, Listed, Invoking
  <2>2. OwnerSound(r)'
    <3>2. (Added(r)' <=> Added(r)) /\ (Ending(r)' <=> Ending(r)) /\ (Locked(r)' <=> Locked(r))
      BY <1>1, <1>3, <1>6 DEF Added, Ending, Locked, Adds, Deregs, Holds, Deregistering
    <3> QED
      BY <1>1, <1>3, <1>5, <1>6, <3>2 DEF RegSound, OwnerSound, One, Adds, Deregs, Holds,
         Deregistering
  <2>4. CallSound(r)'
    BY <1>1, <1>3, <1>5, <1>6, <1>7 DEF RegSound, CallSound, Awaited, Busy, Waits, Uncalled,
       Listed
  <2>5. RefsSound(r)'
    BY <1>1, <1>3, <1>5, <1>6, <1>7 DEF RegSound, RefsSound, HandleHeld, Added, Ending, Placed,
       Listed, Adds, Deregs, Places, Runs, Invoking, Deregistering, One
  <2>6. StraySound(r)'
    BY <1>1, <1>3, <1>5, <1>6 DEF RegSound, StraySound
  <2> QED BY <1>1, <1>5, <2>1, <2>2, <2>4, <2>5, <2>6 DEF RegSound, NewSound
<1> QED BY <1>3, <1>7, <1>8, <1>9, <1>10, <1>11 DEF TokInv

LEMMA RegisteredKeeps ==
    ASSUME TokInv, NEW t \in Threads, NEW r \in Registrations, Registered(t), Of(t) = r
    PROVE  TokInv'
<1> DEFINE x == role[t]
           z == After(x)
<1>1. /\ x.at = "registered" /\ x.reg = r /\ thread[t] # <<>> /\ x.base \in {"none"}
      /\ x \in Roles /\ role \in [Threads -> Roles]
  BY InvHas, Tops, RolesAre DEF Registered, At, TokenPoints, Invoking, Deregistering
<1>2. RegSound(r) /\ (\A q \in Registrations : RegSound(q)) /\ TokTypes /\ StacksSound
      /\ Once(listed) /\ Once(rundown) /\ phase[r] # "none" /\ t \notin Phases
      /\ refs[r] \in Int /\ shared[r] \in Int /\ called[r] \in Int
  BY <1>1, TokenAssumption DEF TokInv, TokTypes, RegSound, NewSound
<1>3. z.at = "idle" /\ z.base = "none"
  BY <1>1, RolesAre DEF After, NoRole
<1> HIDE DEF z
<1>4. /\ StacksSound' /\ thread' \in [Threads -> Seq(Calls)] /\ role' = [role EXCEPT ![t] = z]
      /\ z \in Roles
  BY <1>1, <1>2, Returns DEF z, Registered
<1>5. /\ UNCHANGED <<flag, listed, rundown, phase, sync, signalled, shared, alive, called, strays>>
      /\ r \in Owned => held' = held \cup {r} /\ refs' = refs
      /\ r \notin Owned => held' = held /\ refs' = [refs EXCEPT ![r] = @ - 1]
      /\ \A q \in Registrations : q # r => refs'[q] = refs[q] /\ (q \in held' <=> q \in held)
  BY <1>1, <1>2 DEF Registered, TokTypes
<1>6. role'[t] = z /\ \A u \in Threads : u # t => role'[u] = role[u]
  BY <1>1, <1>4
<1>8. FlagSound'
  BY <1>1, <1>3, <1>4, <1>5, InvHas, FlagKeeps DEF FlagSound, Invoking, IsCancelling
<1>9. SignalsSound'
  BY <1>1, <1>3, <1>4, <1>5, SignalsKeep
<1>10. ASSUME NEW q \in Registrations, q # r PROVE RegSound(q)'
  <2>2. (Listed(q)' <=> Listed(q)) /\ ~(In(q, listed) /\ In(q, rundown))'
    BY <1>2, <1>5, <1>10 DEF Listed, In, RegSound, PlaceSound
  <2> QED BY <1>1, <1>3, <1>4, <1>5, <1>10, <2>2, Untouched DEF Unconcerned
<1>11. RegSound(r)'
  <2>1. /\ Added(r) /\ ~Added(r)'
        /\ (Ending(r)' <=> Ending(r))
        /\ (Locked(r)' <=> Locked(r))
        /\ (Placed(r)' <=> Placed(r))
    <3>1. Adds(role[t], r) /\ \A u \in Threads : ~Adds(role'[u], r)
      BY <1>1, <1>2, <1>3, <1>5, <1>6 DEF Adds, Deregs, Holds, Places, Runs, Invoking,
         Deregistering, RegSound, OwnerSound
    <3>6. Locked(r)' <=> Locked(r)
      BY <1>1, <1>2, <1>3, <1>5, <1>6 DEF Locked, Adds, Deregs, Holds, Places, Runs, Invoking,
         Deregistering
    <3>8. Listed(r)' <=> Listed(r)
      BY <1>5 DEF Listed, In
    <3>9. Placed(r)' <=> Placed(r)
      BY <1>1, <1>2, <1>3, <1>5, <1>6, <3>8 DEF Placed, Adds, Deregs, Holds, Places, Runs,
         Invoking, Deregistering
    <3> QED
      BY <1>1, <1>2, <1>3, <1>5, <1>6, <3>1, <3>6, <3>9 DEF Added, Ending, Adds, Deregs, Holds,
         Places, Runs, Invoking, Deregistering
  <2>2. PlaceSound(r)'
    BY <1>1, <1>2, <1>3, <1>5, <1>6, <2>1 DEF RegSound, PlaceSound, Places, Runs, Listed, In,
       Invoking
  <2>3. OwnerSound(r)'
    BY <1>1, <1>2, <1>3, <1>5, <1>6, <2>1 DEF RegSound, OwnerSound, One, Adds, Deregs,
       Deregistering
  <2>5. called'[r] \in 0..1
    BY <1>1, <1>2, <1>3, <1>5, <1>6 DEF RegSound, CallSound, Uncalled
  <2>6. (\E u \in Threads : Uncalled(role'[u], r)) => called'[r] = 0
    BY <1>1, <1>2, <1>3, <1>5, <1>6 DEF RegSound, CallSound, Uncalled, PlaceSound, Places, Runs,
       Invoking
  <2>7. Listed(r)' \/ (\E u \in Threads : Waits(role'[u], r)) =>
            called'[r] = 0 /\ phase'[r] \in {"clear", "defer", "synchronize"}
    BY <1>1, <1>2, <1>3, <1>5, <1>6 DEF RegSound, CallSound, Waits, Listed, In, PlaceSound,
       Places, Runs, Invoking
  <2>8. \A u \in Threads : Busy(role'[u], r) => phase'[r] = u \/ Awaited(r)'
    BY <1>1, <1>2, <1>3, <1>5, <1>6, TokenAssumption DEF RegSound, CallSound, Busy, Awaited,
       PlaceSound, Places, Runs, Invoking, Phases
  <2>9. \A u \in Threads :
            role'[u].reg = r /\ role'[u].base = "exit" =>
                phase'[r] = u /\ role'[u].at \in {"lock", "cas", "release"}
    BY <1>1, <1>2, <1>3, <1>5, <1>6, TokenAssumption DEF RegSound, CallSound, PlaceSound, Places,
       Runs, Invoking, OwnerSound, Deregs, Deregistering, Phases
  <2>10. shared'[r] > 0 => phase'[r] \notin {"defer", "synchronize"}
    BY <1>1, <1>2, <1>3, <1>5, <1>6 DEF RegSound, CallSound, OwnerSound, One, Phases
  <2>11. shared'[r] > 0 => called'[r] = 1 \/ Listed(r)' \/ \E u \in Threads : Uncalled(role'[u], r)
    BY <1>1, <1>2, <1>3, <1>5, <1>6 DEF RegSound, CallSound, Uncalled, Listed, In
  <2>13. CallSound(r)'
    BY <2>5, <2>6, <2>7, <2>8, <2>9, <2>10, <2>11 DEF CallSound
  <2>14. StraySound(r)'
    BY <1>1, <1>2, <1>3, <1>5, <1>6 DEF RegSound, StraySound
  <2> QED
    BY <1>1, <1>2, <1>5, <2>1, <2>2, <2>3, <2>13, <2>14 DEF RegSound, NewSound, Phases, RefsSound,
       One, OwnerSound, HandleHeld, TokTypes
<1> QED BY <1>2, <1>4, <1>5, <1>8, <1>9, <1>10, <1>11 DEF TokInv, TokTypes, Once, Phases

LEMMA EnterKeeps ==
    ASSUME TokInv, NEW t \in Threads, NEW r \in Registrations, Enter(t), Of(t) = r
    PROVE  TokInv'
<1> DEFINE x == role[t]
           z == [at |-> IF phase[r] = "clear" THEN "exec" ELSE "leave", reg |-> r, base |-> x.base]
<1>1. /\ x.at = "enter" /\ x.reg = r /\ thread[t] # <<>> /\ x.base \in {"registered", "run"}
      /\ x \in Roles /\ role \in [Threads -> Roles]
  BY InvHas, Tops, RolesAre DEF Enter, At, TokenPoints, Invoking, Deregistering
<1>2. RegSound(r) /\ (\A q \in Registrations : RegSound(q)) /\ TokTypes /\ StacksSound
      /\ Once(listed) /\ Once(rundown) /\ phase[r] # "none" /\ t \notin Phases
      /\ refs[r] \in Int /\ shared[r] \in Int /\ called[r] \in Int
  BY <1>1, TokenAssumption DEF TokInv, TokTypes, RegSound, NewSound
<1>3. /\ z \in Roles /\ z.reg = r /\ z.base = x.base /\ Goto(t, z.at)
      /\ z.at \in {"exec", "leave"}
  BY <1>1 DEF Enter, Roles, Invoking, Deregistering
<1> HIDE DEF z
<1>4. StacksSound' /\ thread' \in [Threads -> Seq(Calls)] /\ role' = [role EXCEPT ![t] = z]
  BY <1>1, <1>2, <1>3, Goes
<1>5. /\ UNCHANGED <<flag, listed, rundown, refs, sync, signalled, shared, held, alive, called, strays>>
      /\ phase[r] = "clear" => z.at = "exec" /\ phase' = [phase EXCEPT ![r] = t] /\ phase'[r] = t
      /\ phase[r] # "clear" => z.at = "leave" /\ phase' = phase
      /\ \A q \in Registrations : q # r => phase'[q] = phase[q]
  BY <1>1, <1>2 DEF Enter, owners, z, TokTypes
<1>6. role'[t] = z /\ \A u \in Threads : u # t => role'[u] = role[u]
  BY <1>1, <1>4
<1>7. TokTypes' /\ Once(listed)' /\ Once(rundown)'
  BY <1>2, <1>4, <1>5 DEF TokTypes, Once, Phases
<1>8. FlagSound'
  BY <1>1, <1>3, <1>4, <1>5, InvHas, FlagKeeps DEF FlagSound, Invoking, IsCancelling
<1>9. SignalsSound'
  BY <1>1, <1>3, <1>4, <1>5, SignalsKeep
<1>10. ASSUME NEW q \in Registrations, q # r PROVE RegSound(q)'
  <2>2. (Listed(q)' <=> Listed(q)) /\ ~(In(q, listed) /\ In(q, rundown))'
    BY <1>2, <1>5, <1>10 DEF Listed, In, RegSound, PlaceSound
  <2> QED BY <1>1, <1>3, <1>4, <1>5, <1>10, <2>2, Untouched DEF Unconcerned
<1>11. RegSound(r)'
  <2>1. /\ (Added(r)' <=> Added(r))
        /\ (Ending(r)' <=> Ending(r))
        /\ (Locked(r)' <=> Locked(r))
        /\ (Placed(r)' <=> Placed(r))
    <3>2. Added(r)' <=> Added(r)
      BY <1>1, <1>2, <1>3, <1>5, <1>6 DEF Added, Adds, Deregs, Holds, Places, Runs, Invoking,
         Deregistering
    <3>8. Listed(r)' <=> Listed(r)
      BY <1>5 DEF Listed, In
    <3>9. Placed(r)' <=> Placed(r)
      BY <1>1, <1>2, <1>3, <1>5, <1>6, <3>8 DEF Placed, Adds, Deregs, Holds, Places, Runs,
         Invoking, Deregistering
    <3> QED
      BY <1>1, <1>2, <1>3, <1>5, <1>6, <3>2, <3>9 DEF Ending, Adds, Deregs, Holds, Places, Runs,
         Invoking, Deregistering, Locked
  <2>2. PlaceSound(r)'
    BY <1>1, <1>2, <1>3, <1>5, <1>6, <2>1 DEF RegSound, PlaceSound, Places, Runs, Listed, In,
       Invoking
  <2>3. OwnerSound(r)'
    BY <1>1, <1>2, <1>3, <1>5, <1>6, <2>1 DEF RegSound, OwnerSound, One, Adds, Deregs,
       Deregistering
  <2>5. called'[r] \in 0..1
    BY <1>1, <1>2, <1>3, <1>5, <1>6 DEF RegSound, CallSound, Uncalled
  <2>6. (\E u \in Threads : Uncalled(role'[u], r)) => called'[r] = 0
    BY <1>1, <1>2, <1>3, <1>5, <1>6 DEF RegSound, CallSound, Uncalled, PlaceSound, Places, Runs,
       Invoking
  <2>7. Listed(r)' \/ (\E u \in Threads : Waits(role'[u], r)) =>
            called'[r] = 0 /\ phase'[r] \in {"clear", "defer", "synchronize"}
    BY <1>1, <1>2, <1>3, <1>5, <1>6 DEF RegSound, CallSound, Waits, Listed, In, PlaceSound,
       Places, Runs, Invoking
  <2>8. \A u \in Threads : Busy(role'[u], r) => phase'[r] = u \/ Awaited(r)'
    BY <1>1, <1>2, <1>3, <1>5, <1>6, TokenAssumption DEF RegSound, CallSound, Busy, Awaited,
       PlaceSound, Places, Runs, Invoking, Phases
  <2>9. \A u \in Threads :
            role'[u].reg = r /\ role'[u].base = "exit" =>
                phase'[r] = u /\ role'[u].at \in {"lock", "cas", "release"}
    BY <1>1, <1>2, <1>3, <1>5, <1>6, TokenAssumption DEF RegSound, CallSound, PlaceSound, Places,
       Runs, Invoking, OwnerSound, Deregs, Deregistering, Phases
  <2>10. shared'[r] > 0 => phase'[r] \notin {"defer", "synchronize"}
    BY <1>1, <1>2, <1>3, <1>5, <1>6 DEF RegSound, CallSound, OwnerSound, One, Phases
  <2>11. shared'[r] > 0 => called'[r] = 1 \/ Listed(r)' \/ \E u \in Threads : Uncalled(role'[u], r)
    BY <1>1, <1>2, <1>3, <1>5, <1>6 DEF Uncalled, RegSound, CallSound, Waits
  <2>13. CallSound(r)'
    BY <2>5, <2>6, <2>7, <2>8, <2>9, <2>10, <2>11 DEF CallSound
  <2>14. StraySound(r)'
    BY <1>1, <1>2, <1>3, <1>5, <1>6 DEF RegSound, StraySound
  <2> QED
    BY <1>1, <1>2, <1>5, <2>1, <2>2, <2>3, <2>13, <2>14 DEF RegSound, NewSound, Phases, RefsSound,
       HandleHeld, OwnerSound, One
<1> QED BY <1>4, <1>7, <1>8, <1>9, <1>10, <1>11 DEF TokInv

LEMMA BodyKeeps ==
    ASSUME TokInv, NEW t \in Threads, NEW r \in Registrations, Body(t), Of(t) = r
    PROVE  TokInv'
<1> DEFINE x == role[t]
           z == [at |-> "unlock", reg |-> r, base |-> x.base]
<1>1. /\ x.at = "body" /\ x.reg = r /\ thread[t] # <<>> /\ x.base \in {"registered", "run"}
      /\ x \in Roles /\ role \in [Threads -> Roles]
  BY InvHas, Tops, RolesAre DEF Body, At, TokenPoints, Invoking, Deregistering
<1>2. RegSound(r) /\ (\A q \in Registrations : RegSound(q)) /\ TokTypes /\ StacksSound
      /\ Once(listed) /\ Once(rundown) /\ phase[r] # "none" /\ t \notin Phases
      /\ refs[r] \in Int /\ shared[r] \in Int /\ called[r] \in Int
  BY <1>1, TokenAssumption DEF TokInv, TokTypes, RegSound, NewSound
<1>3. /\ z \in Roles /\ z.reg = r /\ z.base = x.base /\ Goto(t, z.at)
      /\ z.at = "unlock"
  BY <1>1 DEF Body, Roles, Invoking, Deregistering
<1> HIDE DEF z
<1>4. StacksSound' /\ thread' \in [Threads -> Seq(Calls)] /\ role' = [role EXCEPT ![t] = z]
  BY <1>1, <1>2, <1>3, Goes
<1>5. /\ UNCHANGED <<flag, listed, rundown, phase, refs, sync, signalled, shared, held, alive, strays>>
      /\ called' = [called EXCEPT ![r] = @ + 1] /\ called'[r] = called[r] + 1
      /\ \A q \in Registrations : q # r => called'[q] = called[q]
  BY <1>1, <1>2 DEF Body, registration, owners, TokTypes
<1>6. role'[t] = z /\ \A u \in Threads : u # t => role'[u] = role[u]
  BY <1>1, <1>4
<1>8. FlagSound'
  BY <1>1, <1>3, <1>4, <1>5, InvHas, FlagKeeps DEF FlagSound, Invoking, IsCancelling
<1>9. SignalsSound'
  BY <1>1, <1>3, <1>4, <1>5, SignalsKeep
<1>10. ASSUME NEW q \in Registrations, q # r PROVE RegSound(q)'
  <2>2. (Listed(q)' <=> Listed(q)) /\ ~(In(q, listed) /\ In(q, rundown))'
    BY <1>2, <1>5, <1>10 DEF Listed, In, RegSound, PlaceSound
  <2> QED BY <1>1, <1>3, <1>4, <1>5, <1>10, <2>2, Untouched DEF Unconcerned
<1>11. RegSound(r)'
  <2>1. /\ (Added(r)' <=> Added(r))
        /\ (Ending(r)' <=> Ending(r))
        /\ (Locked(r)' <=> Locked(r))
        /\ (Placed(r)' <=> Placed(r))
    <3>2. Added(r)' <=> Added(r)
      BY <1>1, <1>2, <1>3, <1>5, <1>6 DEF Added, Adds, Deregs, Holds, Places, Runs, Invoking,
         Deregistering
    <3>8. Listed(r)' <=> Listed(r)
      BY <1>5 DEF Listed, In
    <3>9. Placed(r)' <=> Placed(r)
      BY <1>1, <1>2, <1>3, <1>5, <1>6, <3>8 DEF Placed, Adds, Deregs, Holds, Places, Runs,
         Invoking, Deregistering
    <3> QED
      BY <1>1, <1>2, <1>3, <1>5, <1>6, <3>2, <3>9 DEF Ending, Adds, Deregs, Holds, Places, Runs,
         Invoking, Deregistering, Locked
  <2>2. PlaceSound(r)'
    BY <1>1, <1>2, <1>3, <1>5, <1>6, <2>1 DEF RegSound, PlaceSound, Places, Runs, Listed, In,
       Invoking
  <2>3. OwnerSound(r)'
    BY <1>1, <1>2, <1>3, <1>5, <1>6, <2>1 DEF RegSound, OwnerSound, One, Adds, Deregs,
       Deregistering
  <2>5. called'[r] \in 0..1
    BY <1>1, <1>2, <1>3, <1>5, <1>6 DEF RegSound, CallSound, Uncalled
  <2>6. (\E u \in Threads : Uncalled(role'[u], r)) => called'[r] = 0
    BY <1>1, <1>2, <1>3, <1>5, <1>6 DEF RegSound, CallSound, Uncalled, PlaceSound, Places, Runs,
       Invoking
  <2>7. Listed(r)' \/ (\E u \in Threads : Waits(role'[u], r)) =>
            called'[r] = 0 /\ phase'[r] \in {"clear", "defer", "synchronize"}
    BY <1>1, <1>2, <1>3, <1>5, <1>6 DEF RegSound, CallSound, Waits, Listed, In, PlaceSound,
       Places, Runs, Invoking
  <2>8. \A u \in Threads : Busy(role'[u], r) => phase'[r] = u \/ Awaited(r)'
    BY <1>1, <1>2, <1>3, <1>5, <1>6, TokenAssumption DEF RegSound, CallSound, Busy, Awaited,
       PlaceSound, Places, Runs, Invoking, Phases
  <2>9. \A u \in Threads :
            role'[u].reg = r /\ role'[u].base = "exit" =>
                phase'[r] = u /\ role'[u].at \in {"lock", "cas", "release"}
    BY <1>1, <1>2, <1>3, <1>5, <1>6, TokenAssumption DEF RegSound, CallSound, PlaceSound, Places,
       Runs, Invoking, OwnerSound, Deregs, Deregistering, Phases
  <2>10. shared'[r] > 0 => phase'[r] \notin {"defer", "synchronize"}
    BY <1>1, <1>2, <1>3, <1>5, <1>6 DEF RegSound, CallSound, OwnerSound, One, Phases
  <2>11. shared'[r] > 0 => called'[r] = 1 \/ Listed(r)' \/ \E u \in Threads : Uncalled(role'[u], r)
    BY <1>1, <1>2, <1>3, <1>5, <1>6 DEF RegSound, CallSound, Uncalled, Listed, In
  <2>13. CallSound(r)'
    BY <2>5, <2>6, <2>7, <2>8, <2>9, <2>10, <2>11 DEF CallSound
  <2>14. StraySound(r)'
    BY <1>1, <1>2, <1>3, <1>5, <1>6 DEF RegSound, StraySound
  <2> QED
    BY <1>1, <1>2, <1>5, <2>1, <2>2, <2>3, <2>13, <2>14 DEF RegSound, NewSound, Phases, RefsSound,
       HandleHeld, OwnerSound, One
<1> QED BY <1>2, <1>4, <1>5, <1>8, <1>9, <1>10, <1>11 DEF TokInv, TokTypes, Once, Phases

LEMMA ExitKeeps ==
    ASSUME TokInv, NEW t \in Threads, NEW r \in Registrations, Exit(t), Of(t) = r
    PROVE  TokInv'
<1> DEFINE x == role[t]
           z == [at |-> "leave", reg |-> r, base |-> x.base]
<1>1. /\ x.at = "exit" /\ x.reg = r /\ thread[t] # <<>> /\ x.base \in {"registered", "run"}
      /\ x \in Roles /\ role \in [Threads -> Roles]
  BY InvHas, Tops, RolesAre DEF Exit, At, TokenPoints, Invoking, Deregistering
<1>2. RegSound(r) /\ (\A q \in Registrations : RegSound(q)) /\ TokTypes /\ StacksSound
      /\ Once(listed) /\ Once(rundown) /\ phase[r] # "none" /\ t \notin Phases
      /\ refs[r] \in Int /\ shared[r] \in Int /\ called[r] \in Int
  BY <1>1, TokenAssumption DEF TokInv, TokTypes, RegSound, NewSound
<1>3. /\ z \in Roles /\ z.reg = r /\ z.base = x.base /\ Goto(t, z.at)
      /\ z.at = "leave"
  BY <1>1 DEF Exit, Roles, Invoking, Deregistering
<1> HIDE DEF z
<1>4. StacksSound' /\ thread' \in [Threads -> Seq(Calls)] /\ role' = [role EXCEPT ![t] = z]
  BY <1>1, <1>2, <1>3, Goes
<1>5. /\ UNCHANGED <<flag, listed, rundown, refs, sync, shared, held, alive, called, strays>>
      /\ phase' = [phase EXCEPT ![r] = IF phase[r] = t THEN "called" ELSE phase[r]]
      /\ phase'[r] = IF phase[r] = t THEN "called" ELSE phase[r]
      /\ signalled' = IF phase[r] = "synchronize" THEN signalled \cup {sync[r]} ELSE signalled
      /\ \A q \in Registrations : q # r => phase'[q] = phase[q]
  BY <1>1, <1>2 DEF Exit, owners, TokTypes
<1>12. phase[r] = "synchronize" =>
            sync[r] \in Threads /\ role[sync[r]].at = "wait" /\ role[sync[r]].reg = r
  BY <1>1, <1>2 DEF RegSound, CallSound, Busy, Awaited, Phases
<1>6. role'[t] = z /\ \A u \in Threads : u # t => role'[u] = role[u]
  BY <1>1, <1>4
<1>8. FlagSound'
  BY <1>1, <1>3, <1>4, <1>5, InvHas, FlagKeeps DEF FlagSound, Invoking, IsCancelling
<1>9. SignalsSound'
  BY <1>1, <1>2, <1>5, <1>6, <1>12, InvHas DEF SignalsSound, TokTypes
<1>10. ASSUME NEW q \in Registrations, q # r PROVE RegSound(q)'
  <2>2. (Listed(q)' <=> Listed(q)) /\ ~(In(q, listed) /\ In(q, rundown))'
    BY <1>2, <1>5, <1>10 DEF Listed, In, RegSound, PlaceSound
  <2>3. \A u \in Threads : role[u].at = "wait" /\ role[u].reg = q =>
            (u \in signalled' <=> u \in signalled)
    BY <1>1, <1>5, <1>10, <1>12
  <2> QED BY <1>1, <1>3, <1>4, <1>5, <1>10, <2>2, <2>3, Untouched DEF Unconcerned
<1>11. RegSound(r)'
  <2>1. /\ (Added(r)' <=> Added(r))
        /\ (Ending(r)' <=> Ending(r))
        /\ (Locked(r)' <=> Locked(r))
        /\ (Placed(r)' <=> Placed(r))
    <3>2. Added(r)' <=> Added(r)
      BY <1>1, <1>2, <1>3, <1>5, <1>6 DEF Added, Adds, Deregs, Holds, Places, Runs, Invoking,
         Deregistering
    <3>8. Listed(r)' <=> Listed(r)
      BY <1>5 DEF Listed, In
    <3>9. Placed(r)' <=> Placed(r)
      BY <1>1, <1>2, <1>3, <1>5, <1>6, <3>8 DEF Placed, Adds, Deregs, Holds, Places, Runs,
         Invoking, Deregistering
    <3> QED
      BY <1>1, <1>2, <1>3, <1>5, <1>6, <3>2, <3>9 DEF Ending, Adds, Deregs, Holds, Places, Runs,
         Invoking, Deregistering, Locked
  <2>2. PlaceSound(r)'
    BY <1>1, <1>2, <1>3, <1>5, <1>6, <2>1 DEF RegSound, PlaceSound, Places, Runs, Listed, In,
       Invoking
  <2>3. OwnerSound(r)'
    BY <1>1, <1>2, <1>3, <1>5, <1>6, <2>1 DEF RegSound, OwnerSound, One, Adds, Deregs,
       Deregistering
  <2>5. called'[r] \in 0..1
    BY <1>1, <1>2, <1>3, <1>5, <1>6 DEF RegSound, CallSound, Uncalled
  <2>6. (\E u \in Threads : Uncalled(role'[u], r)) => called'[r] = 0
    BY <1>1, <1>2, <1>3, <1>5, <1>6 DEF RegSound, CallSound, Uncalled, PlaceSound, Places, Runs,
       Invoking
  <2>7. Listed(r)' \/ (\E u \in Threads : Waits(role'[u], r)) =>
            called'[r] = 0 /\ phase'[r] \in {"clear", "defer", "synchronize"}
    BY <1>1, <1>2, <1>3, <1>5, <1>6 DEF RegSound, CallSound, Waits, Listed, In, PlaceSound,
       Places, Runs, Invoking
  <2>8. \A u \in Threads : Busy(role'[u], r) => phase'[r] = u \/ Awaited(r)'
    BY <1>1, <1>2, <1>3, <1>5, <1>6, TokenAssumption DEF RegSound, CallSound, Busy, Awaited,
       PlaceSound, Places, Runs, Invoking, Phases
  <2>9. \A u \in Threads :
            role'[u].reg = r /\ role'[u].base = "exit" =>
                phase'[r] = u /\ role'[u].at \in {"lock", "cas", "release"}
    BY <1>1, <1>2, <1>3, <1>5, <1>6, TokenAssumption DEF RegSound, CallSound, PlaceSound, Places,
       Runs, Invoking, OwnerSound, Deregs, Deregistering, Phases
  <2>10. shared'[r] > 0 => phase'[r] \notin {"defer", "synchronize"}
    BY <1>1, <1>2, <1>3, <1>5, <1>6 DEF RegSound, CallSound, OwnerSound, One, Phases
  <2>11. shared'[r] > 0 => called'[r] = 1 \/ Listed(r)' \/ \E u \in Threads : Uncalled(role'[u], r)
    BY <1>1, <1>2, <1>3, <1>5, <1>6 DEF RegSound, CallSound, Uncalled, Listed, In
  <2>13. CallSound(r)'
    BY <2>5, <2>6, <2>7, <2>8, <2>9, <2>10, <2>11 DEF CallSound
  <2>14. StraySound(r)'
    BY <1>1, <1>2, <1>3, <1>5, <1>6 DEF RegSound, StraySound
  <2> QED
    BY <1>1, <1>2, <1>5, <2>1, <2>2, <2>3, <2>13, <2>14 DEF RegSound, NewSound, Phases, RefsSound,
       HandleHeld, OwnerSound, One
<1> QED BY <1>2, <1>4, <1>5, <1>8, <1>9, <1>10, <1>11, <1>12 DEF TokInv, TokTypes, Once, Phases

LEMMA LeaveKeeps ==
    ASSUME TokInv, NEW t \in Threads, NEW r \in Registrations, Leave(t), Of(t) = r
    PROVE  TokInv'
<1> DEFINE x == role[t]
           z == After(x)
<1>1. /\ x.at = "leave" /\ x.reg = r /\ thread[t] # <<>> /\ x.base \in {"registered", "run"}
      /\ x \in Roles /\ role \in [Threads -> Roles]
  BY InvHas, Tops, RolesAre DEF Leave, At, TokenPoints, Invoking, Deregistering
<1>2. RegSound(r) /\ (\A q \in Registrations : RegSound(q)) /\ TokTypes /\ StacksSound
      /\ Once(listed) /\ Once(rundown) /\ phase[r] # "none" /\ t \notin Phases
      /\ refs[r] \in Int /\ shared[r] \in Int /\ called[r] \in Int
  BY <1>1, TokenAssumption DEF TokInv, TokTypes, RegSound, NewSound
<1>3. /\ z.at \in {"registered", "run"} /\ z.base = "none"
      /\ x.base = "registered" => z.at = "registered" /\ z.reg = r
      /\ x.base = "run" => z.at = "run"
  BY <1>1, RolesAre DEF After, NoRole
<1> HIDE DEF z
<1>4. /\ StacksSound' /\ thread' \in [Threads -> Seq(Calls)] /\ role' = [role EXCEPT ![t] = z]
      /\ z \in Roles
  BY <1>1, <1>2, Returns DEF z, Leave
<1>5. /\ UNCHANGED <<flag, listed, rundown, phase, sync, signalled, shared, held, alive, called, strays>>
      /\ refs' = [refs EXCEPT ![r] = @ - 1] /\ refs'[r] = refs[r] - 1
      /\ \A q \in Registrations : q # r => refs'[q] = refs[q]
  BY <1>1, <1>2 DEF Leave, owners, TokTypes
<1>6. role'[t] = z /\ \A u \in Threads : u # t => role'[u] = role[u]
  BY <1>1, <1>4
<1>8. FlagSound'
  BY <1>1, <1>3, <1>4, <1>5, InvHas, FlagKeeps DEF FlagSound, Invoking, IsCancelling
<1>9. SignalsSound'
  BY <1>1, <1>3, <1>4, <1>5, SignalsKeep
<1>10. ASSUME NEW q \in Registrations, q # r PROVE RegSound(q)'
  <2>2. (Listed(q)' <=> Listed(q)) /\ ~(In(q, listed) /\ In(q, rundown))'
    BY <1>2, <1>5, <1>10 DEF Listed, In, RegSound, PlaceSound
  <2> QED BY <1>1, <1>3, <1>4, <1>5, <1>10, <2>2, Untouched DEF Unconcerned
<1>11. RegSound(r)'
  <2>1. /\ (Added(r)' <=> Added(r))
        /\ (Ending(r)' <=> Ending(r))
        /\ (Locked(r)' <=> Locked(r))
        /\ Placed(r) /\ ~Placed(r)'
    <3>2. Added(r)' <=> Added(r)
      BY <1>1, <1>2, <1>3, <1>5, <1>6 DEF Added, Adds, Deregs, Holds, Places, Runs, Invoking,
         Deregistering
    <3>4. Ending(r)' <=> Ending(r)
      BY <1>1, <1>2, <1>3, <1>5, <1>6 DEF Ending, Adds, Deregs, Holds, Places, Runs, Invoking,
         Deregistering
    <3>6. Locked(r)' <=> Locked(r)
      BY <1>1, <1>2, <1>3, <1>5, <1>6 DEF Locked, Adds, Deregs, Holds, Places, Runs, Invoking,
         Deregistering
    <3>7. Places(role[t], r) /\ \A u \in Threads : ~Places(role'[u], r)
      BY <1>1, <1>2, <1>3, <1>5, <1>6 DEF Adds, Deregs, Holds, Places, Runs, Invoking,
         Deregistering, RegSound, PlaceSound
    <3> QED BY <1>2, <1>5, <3>2, <3>4, <3>6, <3>7 DEF Placed, Listed, In, RegSound, PlaceSound
  <2>2. PlaceSound(r)'
    BY <1>1, <1>2, <1>3, <1>5, <1>6, <2>1 DEF RegSound, PlaceSound, Places, Runs, Listed, In,
       Invoking
  <2>3. OwnerSound(r)'
    BY <1>1, <1>2, <1>3, <1>5, <1>6, <2>1 DEF RegSound, OwnerSound, One, Adds, Deregs,
       Deregistering
  <2>5. called'[r] \in 0..1
    BY <1>1, <1>2, <1>3, <1>5, <1>6 DEF RegSound, CallSound, Uncalled
  <2>6. (\E u \in Threads : Uncalled(role'[u], r)) => called'[r] = 0
    BY <1>1, <1>2, <1>3, <1>5, <1>6 DEF RegSound, CallSound, Uncalled, PlaceSound, Places, Runs,
       Invoking
  <2>7. Listed(r)' \/ (\E u \in Threads : Waits(role'[u], r)) =>
            called'[r] = 0 /\ phase'[r] \in {"clear", "defer", "synchronize"}
    BY <1>1, <1>2, <1>3, <1>5, <1>6 DEF RegSound, CallSound, Waits, Listed, In, PlaceSound,
       Places, Runs, Invoking
  <2>8. \A u \in Threads : Busy(role'[u], r) => phase'[r] = u \/ Awaited(r)'
    BY <1>1, <1>2, <1>3, <1>5, <1>6, TokenAssumption DEF RegSound, CallSound, Busy, Awaited,
       PlaceSound, Places, Runs, Invoking, Phases
  <2>9. \A u \in Threads :
            role'[u].reg = r /\ role'[u].base = "exit" =>
                phase'[r] = u /\ role'[u].at \in {"lock", "cas", "release"}
    BY <1>1, <1>2, <1>3, <1>5, <1>6, TokenAssumption DEF RegSound, CallSound, PlaceSound, Places,
       Runs, Invoking, OwnerSound, Deregs, Deregistering, Phases
  <2>10. shared'[r] > 0 => phase'[r] \notin {"defer", "synchronize"}
    BY <1>1, <1>2, <1>3, <1>5, <1>6 DEF RegSound, CallSound, OwnerSound, One, Phases
  <2>11. shared'[r] > 0 => called'[r] = 1 \/ Listed(r)' \/ \E u \in Threads : Uncalled(role'[u], r)
    BY <1>1, <1>2, <1>3, <1>5, <1>6 DEF RegSound, CallSound, Uncalled, Listed, In
  <2>13. CallSound(r)'
    BY <2>5, <2>6, <2>7, <2>8, <2>9, <2>10, <2>11 DEF CallSound
  <2>14. StraySound(r)'
    BY <1>1, <1>2, <1>3, <1>5, <1>6 DEF RegSound, StraySound
  <2> QED
    BY <1>1, <1>2, <1>5, <2>1, <2>2, <2>3, <2>13, <2>14 DEF RegSound, NewSound, Phases, RefsSound,
       HandleHeld, OwnerSound, One
<1> QED BY <1>2, <1>4, <1>5, <1>8, <1>9, <1>10, <1>11 DEF TokInv, TokTypes, Once, Phases

LEMMA DeferKeeps ==
    ASSUME TokInv, NEW t \in Threads, NEW r \in Registrations, Defer(t), Of(t) = r
    PROVE  TokInv'
<1> DEFINE x == role[t]
           z == [at |-> IF phase[r] \in Phases \cup {t} THEN "release" ELSE "exchange", reg |-> r, base |-> x.base]
<1>1. /\ x.at = "cas" /\ x.reg = r /\ thread[t] # <<>> /\ x.base \in {"none", "exit"}
      /\ x \in Roles /\ role \in [Threads -> Roles] /\ r \in Owned
  BY InvHas, Tops, RolesAre DEF Defer, At, TokenPoints, Invoking, Deregistering
<1>2. RegSound(r) /\ (\A q \in Registrations : RegSound(q)) /\ TokTypes /\ StacksSound
      /\ Once(listed) /\ Once(rundown) /\ phase[r] # "none" /\ t \notin Phases
      /\ refs[r] \in Int /\ shared[r] \in Int /\ called[r] \in Int
  BY <1>1, TokenAssumption DEF TokInv, TokTypes, RegSound, NewSound
<1>3. /\ z \in Roles /\ z.reg = r /\ z.base = x.base /\ Goto(t, z.at)
      /\ z.at \in {"release", "exchange"}
  BY <1>1 DEF Defer, Roles, Invoking, Deregistering
<1> HIDE DEF z
<1>4. StacksSound' /\ thread' \in [Threads -> Seq(Calls)] /\ role' = [role EXCEPT ![t] = z]
  BY <1>1, <1>2, <1>3, Goes
<1>5. /\ UNCHANGED <<flag, listed, rundown, refs, sync, signalled, shared, held, alive, called, strays>>
      /\ phase' = [phase EXCEPT ![r] = IF phase[r] = "clear" THEN "defer" ELSE phase[r]]
      /\ phase'[r] = IF phase[r] = "clear" THEN "defer" ELSE phase[r]
      /\ phase[r] = t => z.at = "release"
      /\ \A q \in Registrations : q # r => phase'[q] = phase[q]
  BY <1>1, <1>2 DEF Defer, owners, z, TokTypes
<1>6. role'[t] = z /\ \A u \in Threads : u # t => role'[u] = role[u]
  BY <1>1, <1>4
<1>8. FlagSound'
  BY <1>1, <1>3, <1>4, <1>5, InvHas, FlagKeeps DEF FlagSound, Invoking, IsCancelling
<1>9. SignalsSound'
  BY <1>1, <1>3, <1>4, <1>5, SignalsKeep
<1>10. ASSUME NEW q \in Registrations, q # r PROVE RegSound(q)'
  <2>2. (Listed(q)' <=> Listed(q)) /\ ~(In(q, listed) /\ In(q, rundown))'
    BY <1>2, <1>5, <1>10 DEF Listed, In, RegSound, PlaceSound
  <2> QED BY <1>1, <1>3, <1>4, <1>5, <1>10, <2>2, Untouched DEF Unconcerned
<1>11. RegSound(r)'
  <2>1. /\ (Added(r)' <=> Added(r))
        /\ (Ending(r)' <=> Ending(r))
        /\ (Locked(r)' <=> Locked(r))
        /\ (Placed(r)' <=> Placed(r))
    <3>2. Added(r)' <=> Added(r)
      BY <1>1, <1>2, <1>3, <1>5, <1>6 DEF Added, Adds, Deregs, Holds, Places, Runs, Invoking,
         Deregistering
    <3>8. Listed(r)' <=> Listed(r)
      BY <1>5 DEF Listed, In
    <3>9. Placed(r)' <=> Placed(r)
      BY <1>1, <1>2, <1>3, <1>5, <1>6, <3>8 DEF Placed, Adds, Deregs, Holds, Places, Runs,
         Invoking, Deregistering
    <3> QED
      BY <1>1, <1>2, <1>3, <1>5, <1>6, <3>2, <3>9 DEF Ending, Adds, Deregs, Holds, Places, Runs,
         Invoking, Deregistering, Locked
  <2>2. PlaceSound(r)'
    BY <1>1, <1>2, <1>3, <1>5, <1>6, <2>1 DEF RegSound, PlaceSound, Places, Runs, Listed, In,
       Invoking
  <2>3. OwnerSound(r)'
    BY <1>1, <1>2, <1>3, <1>5, <1>6, <2>1 DEF RegSound, OwnerSound, One, Adds, Deregs,
       Deregistering
  <2>5. called'[r] \in 0..1
    BY <1>1, <1>2, <1>3, <1>5, <1>6 DEF RegSound, CallSound, Uncalled
  <2>6. (\E u \in Threads : Uncalled(role'[u], r)) => called'[r] = 0
    BY <1>1, <1>2, <1>3, <1>5, <1>6 DEF RegSound, CallSound, Uncalled, PlaceSound, Places, Runs,
       Invoking
  <2>7. Listed(r)' \/ (\E u \in Threads : Waits(role'[u], r)) =>
            called'[r] = 0 /\ phase'[r] \in {"clear", "defer", "synchronize"}
    BY <1>1, <1>2, <1>3, <1>5, <1>6 DEF RegSound, CallSound, Waits, Listed, In, PlaceSound,
       Places, Runs, Invoking
  <2>8. \A u \in Threads : Busy(role'[u], r) => phase'[r] = u \/ Awaited(r)'
    BY <1>1, <1>2, <1>3, <1>5, <1>6, TokenAssumption DEF RegSound, CallSound, Busy, Awaited,
       PlaceSound, Places, Runs, Invoking, Phases
  <2>9. \A u \in Threads :
            role'[u].reg = r /\ role'[u].base = "exit" =>
                phase'[r] = u /\ role'[u].at \in {"lock", "cas", "release"}
    BY <1>1, <1>2, <1>3, <1>5, <1>6, TokenAssumption DEF RegSound, CallSound, PlaceSound, Places,
       Runs, Invoking, OwnerSound, Deregs, Deregistering, Phases
  <2>10. shared'[r] > 0 => phase'[r] \notin {"defer", "synchronize"}
    BY <1>1, <1>2, <1>5 DEF RegSound, OwnerSound, Ending, Deregs, Deregistering
  <2>11. shared'[r] > 0 => called'[r] = 1 \/ Listed(r)' \/ \E u \in Threads : Uncalled(role'[u], r)
    BY <1>1, <1>2, <1>3, <1>5, <1>6 DEF RegSound, CallSound, Uncalled, Listed, In
  <2>13. CallSound(r)'
    BY <2>5, <2>6, <2>7, <2>8, <2>9, <2>10, <2>11 DEF CallSound
  <2>14. StraySound(r)'
    BY <1>1, <1>2, <1>3, <1>5, <1>6 DEF RegSound, StraySound
  <2> QED
    BY <1>1, <1>2, <1>5, <2>1, <2>2, <2>3, <2>13, <2>14 DEF RegSound, NewSound, Phases, RefsSound,
       HandleHeld, OwnerSound, One
<1> QED BY <1>2, <1>4, <1>5, <1>8, <1>9, <1>10, <1>11 DEF TokInv, TokTypes, Once, Phases

LEMMA ExchangeKeeps ==
    ASSUME TokInv, NEW t \in Threads, NEW r \in Registrations, Exchange(t), Of(t) = r
    PROVE  TokInv'
<1> DEFINE x == role[t]
           z == [at |-> IF phase[r] = "called" THEN "release" ELSE "wait", reg |-> r, base |-> x.base]
<1>1. /\ x.at = "exchange" /\ x.reg = r /\ thread[t] # <<>> /\ x.base \in {"none", "exit"}
      /\ x \in Roles /\ role \in [Threads -> Roles] /\ r \in Owned
  BY InvHas, Tops, RolesAre DEF Exchange, At, TokenPoints, Invoking, Deregistering
<1>2. RegSound(r) /\ (\A q \in Registrations : RegSound(q)) /\ TokTypes /\ StacksSound
      /\ Once(listed) /\ Once(rundown) /\ phase[r] # "none" /\ t \notin Phases
      /\ refs[r] \in Int /\ shared[r] \in Int /\ called[r] \in Int
  BY <1>1, TokenAssumption DEF TokInv, TokTypes, RegSound, NewSound
<1>3. /\ z \in Roles /\ z.reg = r /\ z.base = x.base /\ Goto(t, z.at)
      /\ z.at \in {"release", "wait"}
  BY <1>1 DEF Exchange, Roles, Invoking, Deregistering
<1> HIDE DEF z
<1>4. StacksSound' /\ thread' \in [Threads -> Seq(Calls)] /\ role' = [role EXCEPT ![t] = z]
  BY <1>1, <1>2, <1>3, Goes
<1>5. /\ UNCHANGED <<flag, listed, rundown, refs, signalled, shared, held, alive, called, strays>>
      /\ sync' = [sync EXCEPT ![r] = t] /\ phase' = [phase EXCEPT ![r] = "synchronize"]
      /\ sync'[r] = t /\ phase'[r] = "synchronize"
      /\ phase[r] # "called" => z.at = "wait"
      /\ \A q \in Registrations : q # r => phase'[q] = phase[q] /\ sync'[q] = sync[q]
  BY <1>1, <1>2 DEF Exchange, owners, z, TokTypes
<1>6. role'[t] = z /\ \A u \in Threads : u # t => role'[u] = role[u]
  BY <1>1, <1>4
<1>8. FlagSound'
  BY <1>1, <1>3, <1>4, <1>5, InvHas, FlagKeeps DEF FlagSound, Invoking, IsCancelling
<1>9. SignalsSound'
  BY <1>1, <1>3, <1>4, <1>5, SignalsKeep
<1>10. ASSUME NEW q \in Registrations, q # r PROVE RegSound(q)'
  <2>2. (Listed(q)' <=> Listed(q)) /\ ~(In(q, listed) /\ In(q, rundown))'
    BY <1>2, <1>5, <1>10 DEF Listed, In, RegSound, PlaceSound
  <2> QED BY <1>1, <1>3, <1>4, <1>5, <1>10, <2>2, Untouched DEF Unconcerned
<1>11. RegSound(r)'
  <2>1. /\ (Added(r)' <=> Added(r))
        /\ (Ending(r)' <=> Ending(r))
        /\ (Locked(r)' <=> Locked(r))
        /\ (Placed(r)' <=> Placed(r))
    <3>2. Added(r)' <=> Added(r)
      BY <1>1, <1>2, <1>3, <1>5, <1>6 DEF Added, Adds, Deregs, Holds, Places, Runs, Invoking,
         Deregistering
    <3>8. Listed(r)' <=> Listed(r)
      BY <1>5 DEF Listed, In
    <3>9. Placed(r)' <=> Placed(r)
      BY <1>1, <1>2, <1>3, <1>5, <1>6, <3>8 DEF Placed, Adds, Deregs, Holds, Places, Runs,
         Invoking, Deregistering
    <3> QED
      BY <1>1, <1>2, <1>3, <1>5, <1>6, <3>2, <3>9 DEF Ending, Adds, Deregs, Holds, Places, Runs,
         Invoking, Deregistering, Locked
  <2>2. PlaceSound(r)'
    BY <1>1, <1>2, <1>3, <1>5, <1>6, <2>1 DEF RegSound, PlaceSound, Places, Runs, Listed, In,
       Invoking
  <2>3. OwnerSound(r)'
    BY <1>1, <1>2, <1>3, <1>5, <1>6, <2>1 DEF RegSound, OwnerSound, One, Adds, Deregs,
       Deregistering
  <2>5. called'[r] \in 0..1
    BY <1>1, <1>2, <1>3, <1>5, <1>6 DEF RegSound, CallSound, Uncalled
  <2>6. (\E u \in Threads : Uncalled(role'[u], r)) => called'[r] = 0
    BY <1>1, <1>2, <1>3, <1>5, <1>6 DEF RegSound, CallSound, Uncalled, PlaceSound, Places, Runs,
       Invoking
  <2>7. Listed(r)' \/ (\E u \in Threads : Waits(role'[u], r)) =>
            called'[r] = 0 /\ phase'[r] \in {"clear", "defer", "synchronize"}
    BY <1>1, <1>2, <1>3, <1>5, <1>6 DEF RegSound, CallSound, Waits, Listed, In, PlaceSound,
       Places, Runs, Invoking
  <2>8. \A u \in Threads : Busy(role'[u], r) => phase'[r] = u \/ Awaited(r)'
    <3>3. ASSUME NEW u \in Threads, Busy(role'[u], r) PROVE Awaited(r)'
      BY <1>1, <1>2, <1>3, <1>5, <1>6, <3>3, InvHas, TokenAssumption DEF Awaited, RegSound,
         CallSound, Phases, Busy, SignalsSound
    <3> QED BY <3>3
  <2>9. \A u \in Threads :
            role'[u].reg = r /\ role'[u].base = "exit" =>
                phase'[r] = u /\ role'[u].at \in {"lock", "cas", "release"}
    BY <1>1, <1>2, <1>3, <1>5, <1>6, TokenAssumption DEF RegSound, CallSound, PlaceSound, Places,
       Runs, Invoking, OwnerSound, Deregs, Deregistering, Phases
  <2>10. shared'[r] > 0 => phase'[r] \notin {"defer", "synchronize"}
    BY <1>1, <1>2, <1>5 DEF RegSound, OwnerSound, Ending, Deregs, Deregistering
  <2>11. shared'[r] > 0 => called'[r] = 1 \/ Listed(r)' \/ \E u \in Threads : Uncalled(role'[u], r)
    BY <1>1, <1>2, <1>3, <1>5, <1>6 DEF RegSound, CallSound, Uncalled, Listed, In
  <2>13. CallSound(r)'
    BY <2>5, <2>6, <2>7, <2>8, <2>9, <2>10, <2>11 DEF CallSound
  <2>14. StraySound(r)'
    BY <1>1, <1>2, <1>3, <1>5, <1>6 DEF RegSound, StraySound
  <2> QED
    BY <1>1, <1>2, <1>5, <2>1, <2>2, <2>3, <2>13, <2>14 DEF RegSound, NewSound, Phases, RefsSound,
       HandleHeld, OwnerSound, One
<1> QED BY <1>2, <1>4, <1>5, <1>8, <1>9, <1>10, <1>11 DEF TokInv, TokTypes, Once, Phases

LEMMA WaitKeeps ==
    ASSUME TokInv, NEW t \in Threads, NEW r \in Registrations, Wait(t), Of(t) = r
    PROVE  TokInv'
<1> DEFINE x == role[t]
           z == [at |-> "release", reg |-> r, base |-> x.base]
<1>1. /\ x.at = "wait" /\ x.reg = r /\ thread[t] # <<>> /\ x.base \in {"none", "exit"}
      /\ x \in Roles /\ role \in [Threads -> Roles] /\ r \in Owned
  BY InvHas, Tops, RolesAre DEF Wait, At, TokenPoints, Invoking, Deregistering
<1>2. RegSound(r) /\ (\A q \in Registrations : RegSound(q)) /\ TokTypes /\ StacksSound
      /\ Once(listed) /\ Once(rundown) /\ phase[r] # "none" /\ t \notin Phases
      /\ refs[r] \in Int /\ shared[r] \in Int /\ called[r] \in Int
  BY <1>1, TokenAssumption DEF TokInv, TokTypes, RegSound, NewSound
<1>3. /\ z \in Roles /\ z.reg = r /\ z.base = x.base /\ Goto(t, z.at)
      /\ z.at = "release"
  BY <1>1 DEF Wait, Roles, Invoking, Deregistering
<1> HIDE DEF z
<1>4. StacksSound' /\ thread' \in [Threads -> Seq(Calls)] /\ role' = [role EXCEPT ![t] = z]
  BY <1>1, <1>2, <1>3, Goes
<1>5. /\ UNCHANGED <<flag, listed, rundown, phase, refs, sync, shared, held, alive, called, strays>>
      /\ t \in signalled /\ signalled' = signalled \ {t}
  BY <1>1, <1>2 DEF Wait, owners, TokTypes
<1>6. role'[t] = z /\ \A u \in Threads : u # t => role'[u] = role[u]
  BY <1>1, <1>4
<1>8. FlagSound'
  BY <1>1, <1>3, <1>4, <1>5, InvHas, FlagKeeps DEF FlagSound, Invoking, IsCancelling
<1>9. SignalsSound'
  BY <1>1, <1>3, <1>4, <1>5, SignalsKeep
<1>10. ASSUME NEW q \in Registrations, q # r PROVE RegSound(q)'
  <2>2. (Listed(q)' <=> Listed(q)) /\ ~(In(q, listed) /\ In(q, rundown))'
    BY <1>2, <1>5, <1>10 DEF Listed, In, RegSound, PlaceSound
  <2> QED BY <1>1, <1>3, <1>4, <1>5, <1>10, <2>2, Untouched DEF Unconcerned
<1>11. RegSound(r)'
  <2>1. /\ (Added(r)' <=> Added(r))
        /\ (Ending(r)' <=> Ending(r))
        /\ (Locked(r)' <=> Locked(r))
        /\ (Placed(r)' <=> Placed(r))
    <3>2. Added(r)' <=> Added(r)
      BY <1>1, <1>2, <1>3, <1>5, <1>6 DEF Added, Adds, Deregs, Holds, Places, Runs, Invoking,
         Deregistering
    <3>8. Listed(r)' <=> Listed(r)
      BY <1>5 DEF Listed, In
    <3>9. Placed(r)' <=> Placed(r)
      BY <1>1, <1>2, <1>3, <1>5, <1>6, <3>8 DEF Placed, Adds, Deregs, Holds, Places, Runs,
         Invoking, Deregistering
    <3> QED
      BY <1>1, <1>2, <1>3, <1>5, <1>6, <3>2, <3>9 DEF Ending, Adds, Deregs, Holds, Places, Runs,
         Invoking, Deregistering, Locked
  <2>2. PlaceSound(r)'
    BY <1>1, <1>2, <1>3, <1>5, <1>6, <2>1 DEF RegSound, PlaceSound, Places, Runs, Listed, In,
       Invoking
  <2>3. OwnerSound(r)'
    BY <1>1, <1>2, <1>3, <1>5, <1>6, <2>1 DEF RegSound, OwnerSound, One, Adds, Deregs,
       Deregistering
  <2>5. called'[r] \in 0..1
    BY <1>1, <1>2, <1>3, <1>5, <1>6 DEF RegSound, CallSound, Uncalled
  <2>6. (\E u \in Threads : Uncalled(role'[u], r)) => called'[r] = 0
    BY <1>1, <1>2, <1>3, <1>5, <1>6 DEF RegSound, CallSound, Uncalled, PlaceSound, Places, Runs,
       Invoking
  <2>7. Listed(r)' \/ (\E u \in Threads : Waits(role'[u], r)) =>
            called'[r] = 0 /\ phase'[r] \in {"clear", "defer", "synchronize"}
    BY <1>1, <1>2, <1>3, <1>5, <1>6 DEF RegSound, CallSound, Waits, Listed, In, PlaceSound,
       Places, Runs, Invoking
  <2>8. \A u \in Threads : Busy(role'[u], r) => phase'[r] = u \/ Awaited(r)'
    BY <1>1, <1>2, <1>3, <1>5, <1>6, TokenAssumption DEF RegSound, CallSound, Busy, Awaited,
       PlaceSound, Places, Runs, Invoking, Phases
  <2>9. \A u \in Threads :
            role'[u].reg = r /\ role'[u].base = "exit" =>
                phase'[r] = u /\ role'[u].at \in {"lock", "cas", "release"}
    BY <1>1, <1>2, <1>3, <1>5, <1>6, TokenAssumption DEF RegSound, CallSound, PlaceSound, Places,
       Runs, Invoking, OwnerSound, Deregs, Deregistering, Phases
  <2>10. shared'[r] > 0 => phase'[r] \notin {"defer", "synchronize"}
    BY <1>1, <1>2, <1>3, <1>5, <1>6 DEF RegSound, CallSound, OwnerSound, One, Phases
  <2>11. shared'[r] > 0 => called'[r] = 1 \/ Listed(r)' \/ \E u \in Threads : Uncalled(role'[u], r)
    BY <1>1, <1>2, <1>3, <1>5, <1>6 DEF RegSound, CallSound, Uncalled, Listed, In
  <2>13. CallSound(r)'
    BY <2>5, <2>6, <2>7, <2>8, <2>9, <2>10, <2>11 DEF CallSound
  <2>14. StraySound(r)'
    BY <1>1, <1>2, <1>3, <1>5, <1>6 DEF RegSound, StraySound
  <2> QED
    BY <1>1, <1>2, <1>5, <2>1, <2>2, <2>3, <2>13, <2>14 DEF RegSound, NewSound, Phases, RefsSound,
       HandleHeld, OwnerSound, One
<1> QED BY <1>2, <1>4, <1>5, <1>8, <1>9, <1>10, <1>11 DEF TokInv, TokTypes, Once, Phases

LEMMA ReleaseKeeps ==
    ASSUME TokInv, NEW t \in Threads, NEW r \in Registrations, Release(t), Of(t) = r
    PROVE  TokInv'
<1> DEFINE x == role[t]
           z == After(x)
<1>1. /\ x.at = "release" /\ x.reg = r /\ thread[t] # <<>> /\ x.base \in {"none", "exit"}
      /\ x \in Roles /\ role \in [Threads -> Roles] /\ r \in Owned
  BY InvHas, Tops, RolesAre DEF Release, At, TokenPoints, Invoking, Deregistering
<1>2. RegSound(r) /\ (\A q \in Registrations : RegSound(q)) /\ TokTypes /\ StacksSound
      /\ Once(listed) /\ Once(rundown) /\ phase[r] # "none" /\ t \notin Phases
      /\ refs[r] \in Int /\ shared[r] \in Int /\ called[r] \in Int
  BY <1>1, TokenAssumption DEF TokInv, TokTypes, RegSound, NewSound
<1>3. /\ x.base = "none" => z.at = "idle" /\ z.base = "none"
      /\ x.base = "exit" => z.at = "exit" /\ z.reg = r /\ z.base = "run"
  BY <1>1, RolesAre DEF After, NoRole
<1> HIDE DEF z
<1>4. /\ StacksSound' /\ thread' \in [Threads -> Seq(Calls)] /\ role' = [role EXCEPT ![t] = z]
      /\ z \in Roles
  BY <1>1, <1>2, Returns DEF z, Release
<1>5. /\ UNCHANGED <<flag, listed, rundown, phase, sync, signalled, shared, held, alive, called, strays>>
      /\ refs' = [refs EXCEPT ![r] = @ - 1] /\ refs'[r] = refs[r] - 1
      /\ \A q \in Registrations : q # r => refs'[q] = refs[q]
  BY <1>1, <1>2 DEF Release, owners, TokTypes
<1>6. role'[t] = z /\ \A u \in Threads : u # t => role'[u] = role[u]
  BY <1>1, <1>4
<1>8. FlagSound'
  BY <1>1, <1>3, <1>4, <1>5, InvHas, FlagKeeps DEF FlagSound, Invoking, IsCancelling
<1>9. SignalsSound'
  BY <1>1, <1>3, <1>4, <1>5, SignalsKeep
<1>10. ASSUME NEW q \in Registrations, q # r PROVE RegSound(q)'
  <2>2. (Listed(q)' <=> Listed(q)) /\ ~(In(q, listed) /\ In(q, rundown))'
    BY <1>2, <1>5, <1>10 DEF Listed, In, RegSound, PlaceSound
  <2> QED BY <1>1, <1>3, <1>4, <1>5, <1>10, <2>2, Untouched DEF Unconcerned
<1>11. RegSound(r)'
  <2>1. /\ (Added(r)' <=> Added(r))
        /\ Ending(r) /\ ~Ending(r)'
        /\ (Locked(r)' <=> Locked(r))
        /\ (Placed(r)' <=> Placed(r))
    <3>2. Added(r)' <=> Added(r)
      BY <1>1, <1>2, <1>3, <1>5, <1>6 DEF Added, Adds, Deregs, Holds, Places, Runs, Invoking,
         Deregistering
    <3>3. Deregs(role[t], r) /\ \A u \in Threads : ~Deregs(role'[u], r)
      BY <1>1, <1>2, <1>3, <1>5, <1>6 DEF Adds, Deregs, Holds, Places, Runs, Invoking,
         Deregistering, RegSound, OwnerSound
    <3>8. Listed(r)' <=> Listed(r)
      BY <1>5 DEF Listed, In
    <3>9. Placed(r)' <=> Placed(r)
      BY <1>1, <1>2, <1>3, <1>5, <1>6, <3>8 DEF Placed, Adds, Deregs, Holds, Places, Runs,
         Invoking, Deregistering
    <3> QED
      BY <1>1, <1>2, <1>3, <1>5, <1>6, <3>2, <3>3, <3>9 DEF Ending, Locked, Adds, Deregs, Holds,
         Places, Runs, Invoking, Deregistering
  <2>2. PlaceSound(r)'
    BY <1>1, <1>2, <1>3, <1>5, <1>6, <2>1 DEF RegSound, PlaceSound, Places, Runs, Listed, In,
       Invoking
  <2>3. OwnerSound(r)'
    BY <1>1, <1>2, <1>3, <1>5, <1>6, <2>1 DEF RegSound, OwnerSound, One, Adds, Deregs,
       Deregistering
  <2>5. called'[r] \in 0..1
    BY <1>1, <1>2, <1>3, <1>5, <1>6 DEF RegSound, CallSound, Uncalled
  <2>6. (\E u \in Threads : Uncalled(role'[u], r)) => called'[r] = 0
    BY <1>1, <1>2, <1>3, <1>5, <1>6 DEF RegSound, CallSound, Uncalled, PlaceSound, Places, Runs,
       Invoking
  <2>7. Listed(r)' \/ (\E u \in Threads : Waits(role'[u], r)) =>
            called'[r] = 0 /\ phase'[r] \in {"clear", "defer", "synchronize"}
    BY <1>1, <1>2, <1>3, <1>5, <1>6 DEF RegSound, CallSound, Waits, Listed, In, PlaceSound,
       Places, Runs, Invoking
  <2>8. \A u \in Threads : Busy(role'[u], r) => phase'[r] = u \/ Awaited(r)'
    BY <1>1, <1>2, <1>3, <1>5, <1>6, TokenAssumption DEF RegSound, CallSound, Busy, Awaited,
       PlaceSound, Places, Runs, Invoking, Phases
  <2>9. \A u \in Threads :
            role'[u].reg = r /\ role'[u].base = "exit" =>
                phase'[r] = u /\ role'[u].at \in {"lock", "cas", "release"}
    BY <1>1, <1>2, <1>3, <1>5, <1>6, TokenAssumption DEF RegSound, CallSound, PlaceSound, Places,
       Runs, Invoking, OwnerSound, Deregs, Deregistering, Phases
  <2>10. shared'[r] > 0 => phase'[r] \notin {"defer", "synchronize"}
    BY <1>1, <1>2, <1>3, <1>5, <1>6 DEF RegSound, CallSound, OwnerSound, One, Phases
  <2>11. shared'[r] > 0 => called'[r] = 1 \/ Listed(r)' \/ \E u \in Threads : Uncalled(role'[u], r)
    BY <1>1, <1>2, <1>3, <1>5, <1>6 DEF RegSound, CallSound, Uncalled, Listed, In
  <2>13. CallSound(r)'
    BY <2>5, <2>6, <2>7, <2>8, <2>9, <2>10, <2>11 DEF CallSound
  <2>14. StraySound(r)'
    BY <1>1, <1>2, <1>3, <1>5, <1>6 DEF RegSound, StraySound
  <2> QED
    BY <1>1, <1>2, <1>5, <2>1, <2>2, <2>3, <2>13, <2>14 DEF RegSound, NewSound, Phases, RefsSound,
       HandleHeld, OwnerSound, One
<1> QED BY <1>2, <1>4, <1>5, <1>8, <1>9, <1>10, <1>11 DEF TokInv, TokTypes, Once, Phases

LEMMA ExecKeeps ==
    ASSUME TokInv, NEW t \in Threads, NEW r \in Registrations, Exec(t), Of(t) = r
    PROVE  TokInv'
<1> DEFINE x == role[t]
           z == [at |-> IF r \in Owned /\ shared[r] > 0 THEN "body" ELSE "exit", reg |-> r, base |-> x.base]
<1>1. /\ x.at = "exec" /\ x.reg = r /\ thread[t] # <<>> /\ x.base \in {"registered", "run"}
      /\ x \in Roles /\ role \in [Threads -> Roles]
  BY InvHas, Tops, RolesAre DEF Exec, At, TokenPoints, Invoking, Deregistering
<1>2. RegSound(r) /\ (\A q \in Registrations : RegSound(q)) /\ TokTypes /\ StacksSound
      /\ Once(listed) /\ Once(rundown) /\ phase[r] # "none" /\ t \notin Phases
      /\ refs[r] \in Int /\ shared[r] \in Int /\ called[r] \in Int
  BY <1>1, TokenAssumption DEF TokInv, TokTypes, RegSound, NewSound
<1>3. /\ z \in Roles /\ z.reg = r /\ z.base = x.base /\ Goto(t, z.at)
      /\ z.at \in {"body", "exit"}
  BY <1>1 DEF Exec, Roles, Invoking, Deregistering
<1> HIDE DEF z
<1>4. StacksSound' /\ thread' \in [Threads -> Seq(Calls)] /\ role' = [role EXCEPT ![t] = z]
  BY <1>1, <1>2, <1>3, Goes
<1>5. /\ UNCHANGED <<flag, listed, rundown, phase, refs, sync, signalled, held, alive, strays>>
      /\ shared' = [shared EXCEPT ![r] = IF z.at = "body" THEN shared[r] + 1 ELSE shared[r]]
      /\ called' = [called EXCEPT ![r] = IF r \in Owned THEN called[r] ELSE called[r] + 1]
      /\ shared'[r] = IF z.at = "body" THEN shared[r] + 1 ELSE shared[r]
      /\ called'[r] = IF r \in Owned THEN called[r] ELSE called[r] + 1
      /\ z.at = "body" <=> r \in Owned /\ shared[r] > 0
      /\ \A q \in Registrations : q # r => called'[q] = called[q] /\ shared'[q] = shared[q]
  BY <1>1, <1>2 DEF Exec, registration, TokTypes, z
<1>6. role'[t] = z /\ \A u \in Threads : u # t => role'[u] = role[u]
  BY <1>1, <1>4
<1>8. FlagSound'
  BY <1>1, <1>3, <1>4, <1>5, InvHas, FlagKeeps DEF FlagSound, Invoking, IsCancelling
<1>9. SignalsSound'
  BY <1>1, <1>3, <1>4, <1>5, SignalsKeep
<1>10. ASSUME NEW q \in Registrations, q # r PROVE RegSound(q)'
  <2>2. (Listed(q)' <=> Listed(q)) /\ ~(In(q, listed) /\ In(q, rundown))'
    BY <1>2, <1>5, <1>10 DEF Listed, In, RegSound, PlaceSound
  <2> QED BY <1>1, <1>3, <1>4, <1>5, <1>10, <2>2, Untouched DEF Unconcerned
<1>11. RegSound(r)'
  <2>1. /\ (Added(r)' <=> Added(r))
        /\ (Ending(r)' <=> Ending(r))
        /\ (~Locked(r) /\ (Locked(r)' <=> z.at = "body"))
        /\ (Placed(r)' <=> Placed(r))
    <3>2. Added(r)' <=> Added(r)
      BY <1>1, <1>2, <1>3, <1>5, <1>6 DEF Added, Adds, Deregs, Holds, Places, Runs, Invoking,
         Deregistering
    <3>4. Ending(r)' <=> Ending(r)
      BY <1>1, <1>2, <1>3, <1>5, <1>6 DEF Ending, Adds, Deregs, Holds, Places, Runs, Invoking,
         Deregistering
    <3>8. Listed(r)' <=> Listed(r)
      BY <1>5 DEF Listed, In
    <3>9. Placed(r)' <=> Placed(r)
      BY <1>1, <1>2, <1>3, <1>5, <1>6, <3>8 DEF Placed, Adds, Deregs, Holds, Places, Runs,
         Invoking, Deregistering
    <3> QED
      BY <1>1, <1>2, <1>3, <1>5, <1>6, <3>2, <3>4, <3>9 DEF Locked, Holds, Places, Runs, Invoking,
         RegSound, PlaceSound
  <2>2. PlaceSound(r)'
    BY <1>1, <1>2, <1>3, <1>5, <1>6, <2>1 DEF RegSound, PlaceSound, Places, Runs, Listed, In,
       Invoking
  <2>3. OwnerSound(r)'
    BY <1>1, <1>2, <1>3, <1>5, <1>6, <2>1 DEF RegSound, OwnerSound, One, Adds, Deregs,
       Deregistering
  <2>5. called'[r] \in 0..1
    BY <1>1, <1>2, <1>3, <1>5, <1>6 DEF RegSound, CallSound, Uncalled
  <2>6. (\E u \in Threads : Uncalled(role'[u], r)) => called'[r] = 0
    BY <1>1, <1>2, <1>3, <1>5, <1>6 DEF RegSound, CallSound, Uncalled, PlaceSound, Places, Runs,
       Invoking
  <2>7. Listed(r)' \/ (\E u \in Threads : Waits(role'[u], r)) =>
            called'[r] = 0 /\ phase'[r] \in {"clear", "defer", "synchronize"}
    BY <1>1, <1>2, <1>3, <1>5, <1>6 DEF RegSound, CallSound, Waits, Listed, In, PlaceSound,
       Places, Runs, Invoking
  <2>8. \A u \in Threads : Busy(role'[u], r) => phase'[r] = u \/ Awaited(r)'
    BY <1>1, <1>2, <1>3, <1>5, <1>6, TokenAssumption DEF RegSound, CallSound, Busy, Awaited,
       PlaceSound, Places, Runs, Invoking, Phases
  <2>9. \A u \in Threads :
            role'[u].reg = r /\ role'[u].base = "exit" =>
                phase'[r] = u /\ role'[u].at \in {"lock", "cas", "release"}
    BY <1>1, <1>2, <1>3, <1>5, <1>6, TokenAssumption DEF RegSound, CallSound, PlaceSound, Places,
       Runs, Invoking, OwnerSound, Deregs, Deregistering, Phases
  <2>10. shared'[r] > 0 => phase'[r] \notin {"defer", "synchronize"}
    BY <1>1, <1>2, <1>3, <1>5, <1>6 DEF RegSound, CallSound, OwnerSound, One, Phases
  <2>11. shared'[r] > 0 => called'[r] = 1 \/ Listed(r)' \/ \E u \in Threads : Uncalled(role'[u], r)
    BY <1>1, <1>2, <1>3, <1>5, <1>6 DEF RegSound, CallSound, Uncalled, Listed, In
  <2>13. CallSound(r)'
    BY <2>5, <2>6, <2>7, <2>8, <2>9, <2>10, <2>11 DEF CallSound
  <2>14. StraySound(r)'
    BY <1>1, <1>2, <1>3, <1>5, <1>6 DEF RegSound, StraySound
  <2> QED
    BY <1>1, <1>2, <1>5, <2>1, <2>2, <2>3, <2>13, <2>14 DEF RegSound, NewSound, Phases, RefsSound,
       HandleHeld, OwnerSound, One
<1> QED BY <1>2, <1>4, <1>5, <1>8, <1>9, <1>10, <1>11 DEF TokInv, TokTypes, Once, Phases

LEMMA UnlockKeeps ==
    ASSUME TokInv, NEW t \in Threads, NEW r \in Registrations, Unlock(t), Of(t) = r
    PROVE  TokInv'
<1> DEFINE x == role[t]
           z == IF shared[r] = 1 THEN [at |-> "lock", reg |-> r, base |-> "exit"] ELSE [at |-> "exit", reg |-> r, base |-> x.base]
<1>1. /\ x.at = "unlock" /\ x.reg = r /\ thread[t] # <<>> /\ x.base \in {"registered", "run"}
      /\ x \in Roles /\ role \in [Threads -> Roles]
  BY InvHas, Tops, RolesAre DEF Unlock, At, TokenPoints, Invoking, Deregistering
<1>2. RegSound(r) /\ (\A q \in Registrations : RegSound(q)) /\ TokTypes /\ StacksSound
      /\ Once(listed) /\ Once(rundown) /\ phase[r] # "none" /\ t \notin Phases
      /\ refs[r] \in Int /\ shared[r] \in Int /\ called[r] \in Int
  BY <1>1, TokenAssumption DEF TokInv, TokTypes, RegSound, NewSound
<1>3. /\ z \in Roles /\ z.reg = r /\ r \in Owned /\ shared[r] > 0 /\ ~Ending(r)
      /\ shared[r] = 1 => z.at = "lock" /\ z.base = "exit" /\ x.base = "run"
      /\ shared[r] # 1 => z.at = "exit" /\ z.base = x.base
      /\ z.at \in {"lock", "exit"}
  <2>1. Holds(role[t], r) /\ Locked(r)
    BY <1>1 DEF Holds, Locked
  <2> QED
    BY <1>1, <1>2, <2>1 DEF Roles, Invoking, Deregistering, RegSound, OwnerSound, One, Added, Adds
<1>4. StacksSound' /\ thread' \in [Threads -> Seq(Calls)] /\ role' = [role EXCEPT ![t] = z]
  <2>1. CASE shared[r] = 1
    <3>1. Invoke(t, "exit", Frame("lock", Of(t))) /\ z = [at |-> "lock", reg |-> role[t].reg, base |-> "exit"]
      BY <1>1, <2>1 DEF Unlock
    <3> HIDE DEF z
    <3> QED BY <1>1, <1>2, <1>3, <2>1, <3>1, Nests
  <2>2. CASE shared[r] # 1
    <3> HIDE DEF z
    <3> QED BY <1>1, <1>2, <1>3, <2>2, Goes DEF Unlock
  <2> QED BY <2>1, <2>2
<1> HIDE DEF z
<1>5. /\ UNCHANGED <<flag, listed, rundown, phase, refs, sync, signalled, held, alive, called, strays>>
      /\ shared' = [shared EXCEPT ![r] = shared[r] - 1] /\ shared'[r] = shared[r] - 1
      /\ \A q \in Registrations : q # r => shared'[q] = shared[q]
  BY <1>1, <1>2 DEF Unlock, registration, TokTypes
<1>6. role'[t] = z /\ \A u \in Threads : u # t => role'[u] = role[u]
  BY <1>1, <1>4
<1>7. TokTypes' /\ Once(listed)' /\ Once(rundown)'
  BY <1>2, <1>4, <1>5 DEF TokTypes, Once, Phases
<1>8. FlagSound'
  BY <1>1, <1>3, <1>4, <1>5, InvHas, FlagKeeps DEF FlagSound, Invoking, IsCancelling
<1>9. SignalsSound'
  BY <1>1, <1>3, <1>4, <1>5, SignalsKeep
<1>10. ASSUME NEW q \in Registrations, q # r PROVE RegSound(q)'
  <2>2. (Listed(q)' <=> Listed(q)) /\ ~(In(q, listed) /\ In(q, rundown))'
    BY <1>2, <1>5, <1>10 DEF Listed, In, RegSound, PlaceSound
  <2> QED BY <1>1, <1>3, <1>4, <1>5, <1>10, <2>2, Untouched DEF Unconcerned
<1>11. RegSound(r)'
  <2>1. /\ (Added(r)' <=> Added(r))
        /\ (~Ending(r) /\ (Ending(r)' <=> shared[r] = 1))
        /\ Locked(r) /\ ~Locked(r)'
        /\ (Placed(r)' <=> Placed(r))
    <3>2. Added(r)' <=> Added(r)
      BY <1>1, <1>2, <1>3, <1>5, <1>6 DEF Added, Adds, Deregs, Holds, Places, Runs, Invoking,
         Deregistering
    <3>5. Holds(role[t], r) /\ \A u \in Threads : ~Holds(role'[u], r)
      BY <1>1, <1>2, <1>3, <1>5, <1>6 DEF Adds, Deregs, Holds, Places, Runs, Invoking,
         Deregistering, RegSound, PlaceSound
    <3>8. Listed(r)' <=> Listed(r)
      BY <1>5 DEF Listed, In
    <3>9. Placed(r)' <=> Placed(r)
      BY <1>1, <1>2, <1>3, <1>5, <1>6, <3>8 DEF Placed, Adds, Deregs, Holds, Places, Runs,
         Invoking, Deregistering
    <3> QED
      BY <1>1, <1>2, <1>3, <1>5, <1>6, <3>2, <3>5, <3>9 DEF Locked, Ending, Deregs, Deregistering
  <2>2. PlaceSound(r)'
    BY <1>1, <1>2, <1>3, <1>5, <1>6, <2>1 DEF RegSound, PlaceSound, Places, Runs, Listed, In,
       Invoking
  <2>3. OwnerSound(r)'
    <3>1. \A u \in Threads :
            /\ Adds(role'[u], r) => Adds(role[u], r)
            /\ Deregs(role'[u], r) => u = t
      BY <1>1, <1>2, <1>3, <1>5, <1>6 DEF Adds, Deregs, Deregistering, Ending
    <3> QED BY <1>2, <1>5, <2>1, <3>1 DEF OwnerSound, RegSound, One
  <2>5. called'[r] \in 0..1
    BY <1>1, <1>2, <1>3, <1>5, <1>6 DEF RegSound, CallSound, Uncalled
  <2>6. (\E u \in Threads : Uncalled(role'[u], r)) => called'[r] = 0
    BY <1>1, <1>2, <1>3, <1>5, <1>6 DEF RegSound, CallSound, Uncalled, PlaceSound, Places, Runs,
       Invoking
  <2>7. Listed(r)' \/ (\E u \in Threads : Waits(role'[u], r)) =>
            called'[r] = 0 /\ phase'[r] \in {"clear", "defer", "synchronize"}
    BY <1>1, <1>2, <1>3, <1>5, <1>6 DEF RegSound, CallSound, Waits, Listed, In, PlaceSound,
       Places, Runs, Invoking
  <2>8. \A u \in Threads : Busy(role'[u], r) => phase'[r] = u \/ Awaited(r)'
    BY <1>1, <1>2, <1>3, <1>5, <1>6, TokenAssumption DEF RegSound, CallSound, Busy, Awaited,
       PlaceSound, Places, Runs, Invoking, Phases
  <2>9. \A u \in Threads :
            role'[u].reg = r /\ role'[u].base = "exit" =>
                phase'[r] = u /\ role'[u].at \in {"lock", "cas", "release"}
    BY <1>1, <1>2, <1>3, <1>5, <1>6 DEF RegSound, PlaceSound, Places, Runs, Invoking, CallSound,
       Busy, Awaited
  <2>10. shared'[r] > 0 => phase'[r] \notin {"defer", "synchronize"}
    BY <1>1, <1>2, <1>3, <1>5, <1>6 DEF RegSound, CallSound, OwnerSound, One, Phases
  <2>11. shared'[r] > 0 => called'[r] = 1 \/ Listed(r)' \/ \E u \in Threads : Uncalled(role'[u], r)
    BY <1>1, <1>2, <1>3, <1>5 DEF RegSound, CallSound, PlaceSound, Places, Runs, Invoking,
       Uncalled
  <2>13. CallSound(r)'
    BY <2>5, <2>6, <2>7, <2>8, <2>9, <2>10, <2>11 DEF CallSound
  <2>14. StraySound(r)'
    BY <1>1, <1>2, <1>3, <1>5, <1>6 DEF RegSound, StraySound
  <2> QED
    BY <1>1, <1>2, <1>5, <2>1, <2>2, <2>3, <2>13, <2>14 DEF RegSound, NewSound, Phases, RefsSound,
       HandleHeld, OwnerSound, One
<1> QED BY <1>4, <1>7, <1>8, <1>9, <1>10, <1>11 DEF TokInv

LEMMA RemoveKeeps ==
    ASSUME TokInv, NEW t \in Threads, NEW r \in Registrations, Remove(t), Of(t) = r
    PROVE  TokInv'
<1> DEFINE x == role[t]
           z == [at |-> IF listed # <<>> THEN "release" ELSE "cas", reg |-> r, base |-> x.base]
<1>1. /\ x.at = "lock" /\ x.reg = r /\ thread[t] # <<>> /\ x.base \in {"none", "exit"}
      /\ x \in Roles /\ role \in [Threads -> Roles] /\ r \in Owned
  BY InvHas, Tops, RolesAre DEF Remove, At, TokenPoints, Invoking, Deregistering
<1>2. RegSound(r) /\ (\A q \in Registrations : RegSound(q)) /\ TokTypes /\ StacksSound
      /\ Once(listed) /\ Once(rundown) /\ phase[r] # "none" /\ t \notin Phases
      /\ refs[r] \in Int /\ shared[r] \in Int /\ called[r] \in Int
  BY <1>1, TokenAssumption DEF TokInv, TokTypes, RegSound, NewSound
<1>3. /\ z \in Roles /\ z.reg = r /\ z.base = x.base /\ Goto(t, z.at)
      /\ z.at \in {"release", "cas"}
  BY <1>1 DEF Remove, Roles, Invoking, Deregistering
<1> HIDE DEF z
<1>4. StacksSound' /\ thread' \in [Threads -> Seq(Calls)] /\ role' = [role EXCEPT ![t] = z]
  BY <1>1, <1>2, <1>3, Goes
<1>5. /\ UNCHANGED <<flag, rundown, sync, signalled, shared, held, alive, called>>
      /\ listed = <<>> => z.at = "cas" /\ UNCHANGED <<listed, phase, refs, strays>>
      /\ listed # <<>> =>
            /\ z.at = "release" /\ listed' = Without(r, listed)
            /\ listed' \in Seq(Registrations) /\ Once(listed')
            /\ phase' = [phase EXCEPT ![r] = "synchronize"] /\ phase'[r] = "synchronize"
            /\ refs' = [refs EXCEPT ![r] = @ - 1] /\ refs'[r] = refs[r] - 1
            /\ strays' = IF In(r, listed) THEN strays ELSE strays \cup {r}
      /\ \A q \in Registrations :
            /\ In(q, listed') <=> In(q, listed) /\ (q = r => listed = <<>>)
            /\ q # r => phase'[q] = phase[q] /\ refs'[q] = refs[q] /\ (q \in strays' <=> q \in strays)
  <2>1. CASE listed = <<>>
    BY <1>1, <2>1 DEF Remove, z, In, owners
  <2>2. CASE listed # <<>>
    <3>1. /\ listed' = Without(r, listed) /\ z.at = "release"
          /\ phase' = [phase EXCEPT ![r] = "synchronize"] /\ refs' = [refs EXCEPT ![r] = @ - 1]
          /\ strays' = IF In(r, listed) THEN strays ELSE strays \cup {r}
      BY <1>1, <2>2 DEF Remove, z
    <3> QED BY <1>1, <1>2, <2>2, <3>1, Removed DEF TokTypes, Remove, owners
  <2> QED BY <2>1, <2>2
<1>12. listed # <<>> => \A u \in Threads : ~Places(role[u], r)
  <2> SUFFICES ASSUME listed # <<>>, NEW u \in Threads, Places(role[u], r) PROVE FALSE
    OBVIOUS
  <2>1. ~Added(r)
    BY <1>1, <1>2 DEF RegSound, OwnerSound, One, Ending, Deregs, Deregistering
  <2>2. role[u].base \in {"run", "exit"} /\ role[u].at # "swap"
    BY <1>1, <2>1, RolesAre DEF Added, Adds, Places, Runs, Invoking
  <2>4. PICK v \in Threads : role[v].at = "swap"
    BY <2>2, InvHas DEF FlagSound, IsCancelling
  <2> QED BY <2>2, <2>4, InvHas DEF FlagSound, IsCancelling
<1>13. listed # <<>> => ~In(r, rundown)
  <2>1. ASSUME listed # <<>>, rundown # <<>> PROVE FALSE
    <3>1. PICK u \in Threads : IsCancelling(role[u]) /\ role[u].at # "swap"
      BY <2>1, InvHas DEF FlagSound
    <3>2. PICK v \in Threads : role[v].at = "swap"
      BY <2>1, <3>1, InvHas DEF FlagSound
    <3> QED BY <3>1, <3>2, InvHas DEF FlagSound, IsCancelling
  <2> QED BY <2>1 DEF In
<1>14. shared[r] = 0 /\ r \notin strays
  BY <1>1, <1>2 DEF RegSound, OwnerSound, StraySound, Ending, Deregs, Deregistering
<1>6. role'[t] = z /\ \A u \in Threads : u # t => role'[u] = role[u]
  BY <1>1, <1>4
<1>7. TokTypes' /\ Once(listed)' /\ Once(rundown)'
  <2>1. CASE listed = <<>>
    BY <1>2, <1>4, <1>5, <2>1 DEF TokTypes, Once
  <2>2. CASE listed # <<>>
    <3>1. strays' \subseteq Owned
      BY <1>1, <1>2, <1>5, <2>2 DEF TokTypes
    <3>2. phase' \in [Registrations -> Phases \cup Threads] /\ refs' \in [Registrations -> Int]
      <4>1. /\ phase' = [phase EXCEPT ![r] = "synchronize"] /\ refs' = [refs EXCEPT ![r] = @ - 1]
            /\ phase \in [Registrations -> Phases \cup Threads] /\ refs \in [Registrations -> Int]
        BY <1>2, <1>5, <2>2 DEF TokTypes
      <4> QED BY <4>1 DEF Phases
    <3> QED BY <1>2, <1>4, <1>5, <2>2, <3>1, <3>2 DEF TokTypes, Once
  <2> QED BY <2>1, <2>2
<1>8. FlagSound'
  BY <1>1, <1>3, <1>4, <1>5, InvHas, FlagKeeps DEF FlagSound, Invoking, IsCancelling
<1>9. SignalsSound'
  BY <1>1, <1>3, <1>4, <1>5, SignalsKeep
<1>10. ASSUME NEW q \in Registrations, q # r PROVE RegSound(q)'
  <2>1. Unconcerned(x, q) /\ Unconcerned(z, q)
    BY <1>1, <1>3, <1>10 DEF Unconcerned
  <2> QED BY <1>2, <1>3, <1>4, <1>5, <1>10, <2>1, Untouched DEF Listed, RegSound, PlaceSound
<1>11. RegSound(r)'
  <2>1. /\ (Added(r)' <=> Added(r))
        /\ (Ending(r)' <=> Ending(r))
        /\ (Locked(r)' <=> Locked(r))
        /\ ((listed = <<>> => (Placed(r)' <=> Placed(r))) /\ (listed # <<>> => ~Placed(r)' /\ (Placed(r) <=> In(r, listed))))
    <3>2. Added(r)' <=> Added(r)
      BY <1>1, <1>2, <1>3, <1>5, <1>6 DEF Added, Adds, Deregs, Holds, Places, Runs, Invoking,
         Deregistering
    <3>8. (listed = <<>> => (Placed(r)' <=> Placed(r))) /\ (listed # <<>> => ~Placed(r)' /\ (Placed(r) <=> In(r, listed)))
      BY <1>1, <1>3, <1>5, <1>6, <1>12, <1>13 DEF Placed, Listed, In, Places, Runs, Invoking
    <3> QED
      BY <1>1, <1>2, <1>3, <1>5, <1>6, <3>2, <3>8 DEF Ending, Adds, Deregs, Holds, Places, Runs,
         Invoking, Deregistering, Locked
  <2>2. PlaceSound(r)'
    BY <1>1, <1>2, <1>3, <1>5, <1>6, <1>12, <1>13 DEF RegSound, PlaceSound, Places, Runs, Listed,
       Invoking
  <2>3. OwnerSound(r)'
    BY <1>1, <1>2, <1>3, <1>5, <1>6, <2>1 DEF RegSound, OwnerSound, One, Adds, Deregs,
       Deregistering
  <2>5. called'[r] \in 0..1
    BY <1>1, <1>2, <1>3, <1>5, <1>6 DEF RegSound, CallSound, Uncalled
  <2>6. (\E u \in Threads : Uncalled(role'[u], r)) => called'[r] = 0
    BY <1>1, <1>2, <1>3, <1>5, <1>6 DEF RegSound, CallSound, Uncalled, PlaceSound, Places, Runs,
       Invoking
  <2>7. Listed(r)' \/ (\E u \in Threads : Waits(role'[u], r)) =>
            called'[r] = 0 /\ phase'[r] \in {"clear", "defer", "synchronize"}
    BY <1>1, <1>2, <1>3, <1>5, <1>6, <1>12 DEF RegSound, CallSound, Waits, Listed, PlaceSound,
       Places, Runs, Invoking
  <2>8. \A u \in Threads : Busy(role'[u], r) => phase'[r] = u \/ Awaited(r)'
    <3>1. CASE listed = <<>>
      BY <1>1, <1>2, <1>3, <1>5, <1>6, <3>1 DEF RegSound, CallSound, Busy, Awaited
    <3>2. CASE listed # <<>>
      BY <1>1, <1>2, <1>3, <1>5, <1>6, <1>12, <3>2 DEF Busy, Places, Runs, Invoking
    <3> QED BY <3>1, <3>2
  <2>9. \A u \in Threads :
            role'[u].reg = r /\ role'[u].base = "exit" =>
                phase'[r] = u /\ role'[u].at \in {"lock", "cas", "release"}
    <3>1. CASE listed = <<>>
      BY <1>1, <1>2, <1>3, <1>5, <1>6, <3>1 DEF RegSound, CallSound
    <3>2. CASE listed # <<>>
      BY <1>1, <1>2, <1>3, <1>5, <1>6, <1>12, <3>2 DEF Places, Runs, Invoking
    <3> QED BY <3>1, <3>2
  <2>12. RefsSound(r)'
    <3>1. CASE listed = <<>>
      BY <1>2, <1>5, <2>1, <3>1 DEF RegSound, RefsSound, HandleHeld, One
    <3>2. CASE listed # <<>>
      BY <1>2, <1>5, <1>14, <2>1, <3>2 DEF RegSound, RefsSound, HandleHeld, One
    <3> QED BY <3>1, <3>2
  <2>13. CallSound(r)'
    BY <1>5, <1>14, <2>5, <2>6, <2>7, <2>8, <2>9 DEF CallSound
  <2>14. StraySound(r)'
    <3>1. ASSUME listed # <<>>, NEW u \in Threads, role'[u].reg = r, role'[u].at = "lock" PROVE FALSE
      BY <1>1, <1>2, <1>5, <1>6, <3>1 DEF RegSound, OwnerSound, Deregs, Deregistering
    <3> QED BY <1>5, <1>14, <3>1 DEF StraySound
  <2> QED BY <1>1, <1>2, <1>5, <2>2, <2>3, <2>12, <2>13, <2>14 DEF RegSound, NewSound, Phases
<1> QED BY <1>4, <1>7, <1>8, <1>9, <1>10, <1>11 DEF TokInv

LEMMA RegisterKeeps ==
    ASSUME TokInv, NEW t \in Threads, NEW r \in Registrations, Register(t, r)
    PROVE  TokInv'
<1> DEFINE x == role[t]
           z == IF flag = 0 THEN [at |-> "push", reg |-> r, base |-> "none"]
                ELSE [at |-> "enter", reg |-> r, base |-> "registered"]
<1>1. /\ x = NoRole /\ x.at = "idle" /\ x.reg = "all" /\ x.base = "none"
      /\ x \in Roles /\ role \in [Threads -> Roles] /\ phase[r] = "none"
  BY InvHas, Tops, RolesAre DEF Register, NoRole
<1>2. RegSound(r) /\ (\A q \in Registrations : RegSound(q)) /\ TokTypes /\ StacksSound
      /\ Once(listed) /\ Once(rundown)
      /\ refs[r] \in Int /\ shared[r] \in Int /\ called[r] \in Int
      /\ (\A u \in Threads : Unconcerned(role[u], r)) /\ r \notin strays /\ ~Listed(r) /\ r \notin held /\ called[r] = 0
  BY <1>1 DEF TokInv, TokTypes, RegSound, NewSound, Unconcerned
<1>3. /\ z \in Roles /\ z.reg = r
      /\ flag = 0 => z.at = "push" /\ z.base = "none"
      /\ flag # 0 => z.at = "enter" /\ z.base = "registered"
      /\ \A u \in Threads :
            /\ ~Adds(role[u], r) /\ ~Places(role[u], r) /\ ~Deregs(role[u], r) /\ ~Holds(role[u], r)
            /\ ~Busy(role[u], r) /\ ~Waits(role[u], r) /\ ~Uncalled(role[u], r)
            /\ ~(role[u].reg = r /\ role[u].base = "exit")
  BY <1>1, <1>2, UnconcernedMeans DEF Roles, Invoking
<1>4. StacksSound' /\ thread' \in [Threads -> Seq(Calls)] /\ role' = [role EXCEPT ![t] = z]
  <2>1. CASE flag = 0
    <3> HIDE DEF z
    <3> QED BY <1>2, <1>3, <2>1, Begins DEF Register
  <2>2. CASE flag # 0
    <3> HIDE DEF z
    <3> QED BY <1>2, <1>3, <2>2, RoleStep DEF Register, StackOf
  <2> QED BY <2>1, <2>2
<1> HIDE DEF z
<1>5. /\ UNCHANGED <<flag, listed, rundown, sync, signalled, held, alive, called, strays>>
      /\ phase' = [phase EXCEPT ![r] = "clear"] /\ phase'[r] = "clear"
      /\ refs' = [refs EXCEPT ![r] = 2] /\ refs'[r] = 2
      /\ shared' = [shared EXCEPT ![r] = One(r \in Owned)] /\ shared'[r] = One(r \in Owned)
      /\ \A q \in Registrations : q # r => phase'[q] = phase[q] /\ refs'[q] = refs[q] /\ shared'[q] = shared[q]
  BY <1>1, <1>2 DEF Register, TokTypes, One
<1>6. role'[t] = z /\ \A u \in Threads : u # t => role'[u] = role[u]
  BY <1>1, <1>4
<1>8. FlagSound'
  BY <1>1, <1>3, <1>4, <1>5, InvHas, FlagKeeps DEF FlagSound, Invoking, IsCancelling
<1>9. SignalsSound'
  BY <1>1, <1>3, <1>4, <1>5, SignalsKeep
<1>10. ASSUME NEW q \in Registrations, q # r PROVE RegSound(q)'
  <2>2. (Listed(q)' <=> Listed(q)) /\ ~(In(q, listed) /\ In(q, rundown))'
    BY <1>2, <1>5, <1>10 DEF Listed, In, RegSound, PlaceSound
  <2> QED BY <1>1, <1>3, <1>4, <1>5, <1>10, <2>2, Untouched DEF Unconcerned
<1>11. RegSound(r)'
  <2>1. /\ Added(r)'
        /\ ~Ending(r)'
        /\ ~Locked(r)'
        /\ Placed(r)'
    <3>2. Added(r)'
      BY <1>3, <1>6 DEF Added, Adds
    <3>6. ~Locked(r)'
      BY <1>3, <1>6 DEF Locked, Adds, Deregs, Holds, Places, Runs, Invoking, Deregistering
    <3> QED
      BY <1>3, <1>6, <3>2, <3>6 DEF Placed, Places, Runs, Invoking, Ending, Adds, Deregs, Holds,
         Deregistering
  <2>4. NewSound(r)'
    BY <1>5 DEF NewSound
  <2>5. called'[r] \in 0..1
    BY <1>2, <1>5
  <2>6. (\E u \in Threads : Uncalled(role'[u], r)) => called'[r] = 0
    BY <1>2, <1>5
  <2>10. shared'[r] > 0 => phase'[r] \notin {"defer", "synchronize"}
    BY <1>5
  <2>13. CallSound(r)'
    BY <1>2, <1>3, <1>5, <1>6, <2>5, <2>6, <2>10 DEF CallSound, Uncalled, Busy
  <2> QED
    BY <1>2, <1>3, <1>5, <1>6, <2>1, <2>4, <2>13 DEF RegSound, StraySound, RefsSound, One,
       HandleHeld, OwnerSound, PlaceSound, Listed, In
<1> QED BY <1>2, <1>4, <1>5, <1>8, <1>9, <1>10, <1>11 DEF TokInv, TokTypes, Once, Phases, One

LEMMA DropKeeps ==
    ASSUME TokInv, NEW t \in Threads, NEW r \in Registrations, Drop(t, r)
    PROVE  TokInv'
<1> DEFINE x == role[t]
           z == IF shared[r] = 1 THEN [at |-> "lock", reg |-> r, base |-> "none"] ELSE NoRole
<1>1. /\ x = NoRole /\ x.at = "idle" /\ x.reg = "all" /\ x.base = "none"
      /\ x \in Roles /\ role \in [Threads -> Roles] /\ r \in held
  BY InvHas, Tops, RolesAre DEF Drop, NoRole
<1>2. RegSound(r) /\ (\A q \in Registrations : RegSound(q)) /\ TokTypes /\ StacksSound
      /\ Once(listed) /\ Once(rundown) /\ phase[r] # "none"
      /\ refs[r] \in Int /\ shared[r] \in Int /\ called[r] \in Int
      /\ r \in Owned /\ shared[r] > 0 /\ ~Added(r) /\ ~Ending(r) /\ r \notin strays
  <2>1. RegSound(r)
    BY DEF TokInv
  <2> QED BY <1>1, <2>1 DEF TokInv, TokTypes, RegSound, NewSound, StraySound, OwnerSound, One
<1>3. /\ z \in Roles
      /\ shared[r] = 1 => z.at = "lock" /\ z.reg = r /\ z.base = "none"
      /\ shared[r] # 1 => z = x
  BY <1>1, <1>2 DEF Roles, Deregistering
<1>4. StacksSound' /\ thread' \in [Threads -> Seq(Calls)] /\ role' = [role EXCEPT ![t] = z]
  <2>1. CASE shared[r] = 1
    <3> HIDE DEF z
    <3> QED BY <1>2, <1>3, <2>1, Begins DEF Drop
  <2>2. CASE shared[r] # 1
    <3>2. StackOf(z) = <<>>
      BY <2>2 DEF StackOf, NoRole
    <3> HIDE DEF z
    <3> QED BY <1>2, <1>3, <2>2, <3>2, RoleStep DEF Drop
  <2> QED BY <2>1, <2>2
<1> HIDE DEF z
<1>5. /\ UNCHANGED <<flag, listed, rundown, phase, refs, sync, signalled, alive, called, strays>>
      /\ held' = held \ {r}
      /\ shared' = [shared EXCEPT ![r] = @ - 1] /\ shared'[r] = shared[r] - 1
      /\ \A q \in Registrations : q # r => shared'[q] = shared[q]
  BY <1>1, <1>2 DEF Drop, registration, TokTypes
<1>6. role'[t] = z /\ \A u \in Threads : u # t => role'[u] = role[u]
  BY <1>1, <1>4
<1>8. FlagSound'
  BY <1>1, <1>3, <1>4, <1>5, InvHas, FlagKeeps DEF FlagSound, Invoking, IsCancelling
<1>9. SignalsSound'
  BY <1>1, <1>3, <1>4, <1>5, SignalsKeep
<1>10. ASSUME NEW q \in Registrations, q # r PROVE RegSound(q)'
  <2>2. (Listed(q)' <=> Listed(q)) /\ ~(In(q, listed) /\ In(q, rundown))'
    BY <1>2, <1>5, <1>10 DEF Listed, In, RegSound, PlaceSound
  <2> QED BY <1>1, <1>3, <1>4, <1>5, <1>10, <2>2, Untouched DEF Unconcerned, NoRole
<1>11. RegSound(r)'
  <2>1. /\ (Added(r)' <=> Added(r))
        /\ (Ending(r)' <=> shared[r] = 1)
        /\ (Locked(r)' <=> Locked(r))
        /\ (Placed(r)' <=> Placed(r))
    <3>2. Added(r)' <=> Added(r)
      BY <1>1, <1>3, <1>6 DEF Added, Adds, Deregs, Holds, Places, Runs, Invoking, Deregistering
    <3>6. Locked(r)' <=> Locked(r)
      BY <1>1, <1>3, <1>6 DEF Locked, Adds, Deregs, Holds, Places, Runs, Invoking, Deregistering
    <3>8. Listed(r)' <=> Listed(r)
      BY <1>5 DEF Listed, In
    <3> QED
      BY <1>1, <1>2, <1>3, <1>5, <1>6, <3>2, <3>6, <3>8 DEF Ending, Deregs, Deregistering, Placed,
         Adds, Holds, Places, Runs, Invoking
  <2>2. PlaceSound(r)'
    BY <1>1, <1>2, <1>3, <1>5, <1>6, <2>1 DEF RegSound, PlaceSound, Places, Runs, Listed, In,
       Invoking
  <2>3. OwnerSound(r)'
    BY <1>1, <1>2, <1>3, <1>5, <1>6, <2>1 DEF RegSound, OwnerSound, One, Adds, Deregs,
       Deregistering, Ending
  <2>5. called'[r] \in 0..1
    BY <1>1, <1>2, <1>3, <1>5, <1>6 DEF RegSound, CallSound, Uncalled
  <2>6. (\E u \in Threads : Uncalled(role'[u], r)) => called'[r] = 0
    BY <1>1, <1>2, <1>3, <1>5, <1>6 DEF RegSound, CallSound, Uncalled, PlaceSound, Places, Runs,
       Invoking
  <2>7. Listed(r)' \/ (\E u \in Threads : Waits(role'[u], r)) =>
            called'[r] = 0 /\ phase'[r] \in {"clear", "defer", "synchronize"}
    BY <1>1, <1>2, <1>3, <1>5, <1>6 DEF RegSound, CallSound, Waits, Listed, In, PlaceSound,
       Places, Runs, Invoking
  <2>8. \A u \in Threads : Busy(role'[u], r) => phase'[r] = u \/ Awaited(r)'
    BY <1>1, <1>2, <1>3, <1>5, <1>6, TokenAssumption DEF RegSound, CallSound, Busy, Awaited,
       PlaceSound, Places, Runs, Invoking, Phases
  <2>9. \A u \in Threads :
            role'[u].reg = r /\ role'[u].base = "exit" =>
                phase'[r] = u /\ role'[u].at \in {"lock", "cas", "release"}
    BY <1>1, <1>2, <1>3, <1>5, <1>6, TokenAssumption DEF RegSound, CallSound, PlaceSound, Places,
       Runs, Invoking, OwnerSound, Deregs, Deregistering, Phases
  <2>10. shared'[r] > 0 => phase'[r] \notin {"defer", "synchronize"}
    BY <1>1, <1>2, <1>3, <1>5, <1>6 DEF RegSound, CallSound, OwnerSound, One, Phases
  <2>11. shared'[r] > 0 => called'[r] = 1 \/ Listed(r)' \/ \E u \in Threads : Uncalled(role'[u], r)
    BY <1>1, <1>2, <1>3, <1>5, <1>6 DEF RegSound, CallSound, Uncalled, Listed, In
  <2>13. CallSound(r)'
    BY <2>5, <2>6, <2>7, <2>8, <2>9, <2>10, <2>11 DEF CallSound
  <2>14. StraySound(r)'
    BY <1>1, <1>2, <1>3, <1>5, <1>6 DEF RegSound, StraySound
  <2> QED
    BY <1>1, <1>2, <1>5, <2>1, <2>2, <2>3, <2>13, <2>14 DEF RegSound, NewSound, Phases, RefsSound,
       HandleHeld, OwnerSound, One
<1> QED BY <1>2, <1>4, <1>5, <1>8, <1>9, <1>10, <1>11 DEF TokInv, TokTypes, Once, Phases

LEMMA CancelKeeps ==
    ASSUME TokInv, NEW t \in Threads, Cancel(t)
    PROVE  TokInv'
<1> DEFINE x == role[t]
           z == [at |-> "swap", reg |-> "all", base |-> "none"]
<1>1. x = NoRole /\ x.at = "idle" /\ x.base = "none" /\ role \in [Threads -> Roles] /\ flag = 0
  BY InvHas, Tops, RolesAre DEF Cancel, NoRole
<1>2. /\ TokTypes /\ StacksSound /\ FlagSound /\ SignalsSound
      /\ Once(listed) /\ Once(rundown) /\ \A q \in Registrations : RegSound(q)
  BY DEF TokInv
<1>3. z \in Roles /\ z.at = "swap" /\ z.reg = "all" /\ z.base = "none"
  BY DEF Roles
<1>4. StacksSound' /\ thread' \in [Threads -> Seq(Calls)] /\ role' = [role EXCEPT ![t] = z]
  <2> HIDE DEF z
  <2> QED BY <1>2, <1>3, Begins DEF Cancel
<1> HIDE DEF z
<1>5. flag' = 1 /\ UNCHANGED <<listed, rundown, phase, refs, sync, signalled, shared, held, alive, called, strays>>
  BY DEF Cancel, registration, owners
<1>8. FlagSound'
  BY <1>1, <1>2, <1>3, <1>4, <1>5 DEF FlagSound
<1>10. ASSUME NEW q \in Registrations PROVE RegSound(q)'
  <2>1. Unconcerned(x, q) /\ Unconcerned(z, q)
    BY <1>1, <1>3 DEF Unconcerned
  <2> QED BY <1>2, <1>3, <1>4, <1>5, <2>1, Untouched DEF Listed, In, RegSound, PlaceSound
<1> QED BY <1>1, <1>2, <1>4, <1>5, <1>8, <1>10 DEF TokInv, TokTypes, Once, SignalsSound

LEMMA SwapKeeps ==
    ASSUME TokInv, NEW t \in Threads, Swap(t)
    PROVE  TokInv'
<1> DEFINE x == role[t]
           z == [at |-> "run", reg |-> "all", base |-> "none"]
<1>1. /\ x.at = "swap" /\ x.reg = "all" /\ x.base = "none" /\ thread[t] # <<>>
      /\ role \in [Threads -> Roles]
  BY InvHas, Tops, RolesAre DEF Swap, At
<1>2. /\ TokTypes /\ StacksSound /\ FlagSound /\ SignalsSound
      /\ Once(listed) /\ Once(rundown) /\ \A q \in Registrations : RegSound(q)
  BY DEF TokInv
<1>3. z \in Roles /\ z.at = "run" /\ z.reg = "all" /\ z.base = "none"
  BY DEF Roles
<1>4. StacksSound' /\ thread' \in [Threads -> Seq(Calls)] /\ role' = [role EXCEPT ![t] = z]
  <2> HIDE DEF z
  <2> QED BY <1>1, <1>2, <1>3, Goes DEF Swap
<1> HIDE DEF z
<1>5. /\ rundown' = listed /\ listed' = <<>>
      /\ UNCHANGED <<flag, phase, refs, sync, signalled, shared, held, alive, called, strays>>
  BY DEF Swap, registration, owners
<1>9. FlagSound'
  BY <1>1, <1>2, <1>3, <1>4, <1>5 DEF FlagSound, IsCancelling
<1>11. ASSUME NEW q \in Registrations PROVE RegSound(q)'
  <2>2. ~In(q, <<>>)
    BY DEF In
  <2> QED
    BY <1>1, <1>2, <1>3, <1>4, <1>5, <2>2, Untouched DEF Listed, FlagSound, IsCancelling,
       Unconcerned
<1> QED BY <1>1, <1>2, <1>4, <1>5, <1>9, <1>11 DEF TokInv, TokTypes, Once, SignalsSound

\* _Cancel() has called them all.
LEMMA LastKeeps ==
    ASSUME TokInv, NEW t \in Threads, RunNext(t), rundown = <<>>
    PROVE  TokInv'
<1> DEFINE x == role[t]
           z == After(x)
<1>1. /\ x.at = "run" /\ x.reg = "all" /\ x.base = "none" /\ thread[t] # <<>>
      /\ role \in [Threads -> Roles]
  BY InvHas, Tops, RolesAre DEF RunNext, At
<1>2. /\ TokTypes /\ StacksSound /\ FlagSound /\ SignalsSound
      /\ Once(listed) /\ Once(rundown) /\ \A q \in Registrations : RegSound(q)
  BY DEF TokInv
<1>3. z = NoRole /\ z \in Roles /\ z.at = "idle" /\ z.base = "none"
  BY <1>1 DEF After, NoRole, Roles
<1>4. StacksSound' /\ thread' \in [Threads -> Seq(Calls)] /\ role' = [role EXCEPT ![t] = z]
  BY <1>1, <1>2, Returns DEF RunNext
<1> HIDE DEF z
<1>5. flag' = 2 /\ UNCHANGED <<listed, rundown, phase, refs, sync, signalled, shared, held, alive, called, strays>>
  BY DEF RunNext, registration, owners
<1>9. FlagSound'
  BY <1>1, <1>2, <1>3, <1>4, <1>5 DEF FlagSound, IsCancelling
<1>11. ASSUME NEW q \in Registrations PROVE RegSound(q)'
  <2>2. (Listed(q)' <=> Listed(q)) /\ ~(In(q, listed) /\ In(q, rundown))'
    BY <1>2, <1>5 DEF Listed, In, RegSound, PlaceSound
  <2> QED BY <1>1, <1>3, <1>4, <1>5, <2>2, Untouched DEF Unconcerned
<1> QED BY <1>1, <1>2, <1>4, <1>5, <1>9, <1>11 DEF TokInv, TokTypes, Once, SignalsSound

\* ~_CancellationTokenState(): nobody uses what is still listed.
LEMMA DestroyKeeps ==
    ASSUME TokInv, Destroy
    PROVE  TokInv'
<1>1. /\ TokTypes /\ StacksSound /\ FlagSound /\ SignalsSound
      /\ Once(listed) /\ Once(rundown) /\ \A q \in Registrations : RegSound(q)
  BY DEF TokInv
<1>2. /\ listed' = <<>>
      /\ UNCHANGED <<flag, rundown, sync, signalled, shared, held, thread, called, strays>>
      /\ held = {} /\ alive' = FALSE
      /\ phase' = [r \in Registrations |-> IF In(r, listed) THEN "synchronize" ELSE phase[r]]
      /\ refs' = [r \in Registrations |-> IF In(r, listed) THEN refs[r] - 1 ELSE refs[r]]
  BY DEF Destroy, owners
<1>3. role' = role
  BY <1>2 DEF role
<1>5. TokTypes' /\ Once(listed)' /\ Once(rundown)' /\ StacksSound'
  <2>2. refs' \in [Registrations -> Int]
    BY <1>1, <1>2 DEF TokTypes
  <2>4. TokTypes'
    BY <1>1, <1>2, <2>2, EmptySeq DEF TokTypes, Phases
  <2> QED BY <1>1, <1>2, <1>3, <2>4 DEF Once, StacksSound
<1>7. ASSUME NEW q \in Registrations PROVE RegSound(q)'
  <2>1. RegSound(q) /\ \A t \in Threads : Unconcerned(role[t], q)
    BY <1>1, Tops, RolesAre DEF Unconcerned, Destroy, NoRole
  <2>2. \A t \in Threads :
            /\ ~Adds(role[t], q) /\ ~Places(role[t], q) /\ ~Deregs(role[t], q) /\ ~Holds(role[t], q)
            /\ ~Busy(role[t], q) /\ ~Waits(role[t], q) /\ ~Uncalled(role[t], q)
            /\ ~(role[t].reg = q /\ role[t].base = "exit")
    BY <1>1, <2>1, Tops, RolesAre, UnconcernedMeans DEF Destroy, NoRole
  <2>3. ~Added(q) /\ ~Ending(q) /\ ~Locked(q) /\ (Placed(q) <=> Listed(q))
    BY <2>2 DEF Added, Ending, Locked, Placed
  <2>4. ~Added(q)' /\ ~Ending(q)' /\ ~Locked(q)' /\ (Placed(q)' <=> Listed(q)')
    BY <1>3, <2>2 DEF Added, Ending, Locked, Placed
  <2>5. ~In(q, listed') /\ (In(q, rundown') <=> In(q, rundown))
    BY <1>2 DEF In
  <2>6. shared[q] = 0 /\ shared'[q] = 0
    BY <1>2, <2>1, <2>3 DEF RegSound, OwnerSound, One
  <2>8. OwnerSound(q)'
    BY <1>2, <1>3, <2>2, <2>4, <2>6 DEF OwnerSound, One
  <2>10. CallSound(q)'
    BY <1>2, <1>3, <2>1, <2>2, <2>5, <2>6 DEF CallSound, RegSound, Listed
  <2>11. RefsSound(q)'
    <3>2. CASE In(q, listed)
      BY <1>1, <1>2, <2>1, <2>3, <2>4, <2>5, <2>6, <3>2 DEF RegSound, RefsSound, One, NewSound,
         PlaceSound, Listed, TokTypes, HandleHeld
    <3>3. CASE ~In(q, listed)
      BY <1>2, <2>1, <2>3, <2>4, <2>5, <2>6, <3>3 DEF RegSound, RefsSound, One, Listed, HandleHeld
    <3> QED BY <3>2, <3>3
  <2> QED
    BY <1>2, <1>3, <2>1, <2>2, <2>5, <2>8, <2>10, <2>11 DEF RegSound, StraySound, NewSound,
       Listed, PlaceSound
<1> QED BY <1>1, <1>2, <1>3, <1>5, <1>7 DEF TokInv, FlagSound, SignalsSound

LEMMA NextKeeps ==
    ASSUME TokInv, NEW t \in Threads, NEW r \in Registrations, RunNext(t),
           rundown # <<>>, r = Head(rundown)
    PROVE  TokInv'
<1> DEFINE x == role[t]
           z == [at |-> "enter", reg |-> r, base |-> "run"]
<1>1. /\ x.at = "run" /\ x.reg = "all" /\ x.base = "none" /\ thread[t] # <<>>
      /\ x \in Roles /\ role \in [Threads -> Roles]
  BY InvHas, Tops, RolesAre DEF RunNext, At
<1>2. RegSound(r) /\ (\A q \in Registrations : RegSound(q)) /\ TokTypes /\ StacksSound
      /\ Once(listed) /\ Once(rundown) /\ phase[r] # "none"
      /\ refs[r] \in Int /\ shared[r] \in Int /\ called[r] \in Int
      /\ In(r, rundown) /\ Listed(r) /\ ~In(r, listed) /\ \A u \in Threads : ~Places(role[u], r)
  BY Headed DEF TokInv, TokTypes, RegSound, NewSound, PlaceSound, Listed
<1>3. z \in Roles /\ z.at = "enter" /\ z.reg = r /\ z.base = "run"
  BY DEF Roles, Invoking
<1>4. StacksSound' /\ thread' \in [Threads -> Seq(Calls)] /\ role' = [role EXCEPT ![t] = z]
  <2> HIDE DEF z
  <2> QED BY <1>1, <1>2, <1>3, Invokes DEF RunNext
<1> HIDE DEF z
<1>5. /\ UNCHANGED <<flag, listed, phase, refs, sync, signalled, shared, held, alive, called, strays>>
      /\ rundown' = Tail(rundown) /\ rundown' \in Seq(Registrations) /\ Once(rundown')
      /\ \A q : In(q, rundown') <=> In(q, rundown) /\ q # r
      /\ ~Listed(r)'
  <2>1. /\ UNCHANGED <<flag, listed, phase, refs, sync, signalled, shared, held, alive, called, strays>>
        /\ rundown' = Tail(rundown)
    BY DEF RunNext, registration, owners
  <2> QED BY <1>2, <2>1, Headed DEF TokTypes, Listed
<1>6. role'[t] = z /\ \A u \in Threads : u # t => role'[u] = role[u]
  BY <1>1, <1>4
<1>8. FlagSound'
  <2>1. FlagSound
    BY InvHas
  <2> QED BY <1>1, <1>3, <1>5, <1>6, <2>1 DEF FlagSound, IsCancelling
<1>9. SignalsSound'
  BY <1>1, <1>3, <1>4, <1>5, SignalsKeep
<1>10. ASSUME NEW q \in Registrations, q # r PROVE RegSound(q)'
  BY <1>1, <1>2, <1>3, <1>4, <1>5, <1>10, Untouched DEF Unconcerned, Listed, RegSound, PlaceSound
<1>11. RegSound(r)'
  <2>1. /\ (Added(r)' <=> Added(r))
        /\ (Ending(r)' <=> Ending(r))
        /\ (Locked(r)' <=> Locked(r))
        /\ Placed(r) /\ Placed(r)'
    <3>2. Added(r)' <=> Added(r)
      BY <1>1, <1>3, <1>6 DEF Added, Adds, Deregs, Holds, Places, Runs, Invoking, Deregistering
    <3>6. Locked(r)' <=> Locked(r)
      BY <1>1, <1>3, <1>6 DEF Locked, Adds, Deregs, Holds, Places, Runs, Invoking, Deregistering
    <3> QED
      BY <1>1, <1>2, <1>3, <1>6, <3>2, <3>6 DEF Placed, Places, Runs, Invoking, Ending, Adds,
         Deregs, Holds, Deregistering
  <2>3. OwnerSound(r)'
    <3>1. \A u \in Threads :
            /\ Adds(role'[u], r) => Adds(role[u], r)
            /\ Deregs(role'[u], r) => Deregs(role[u], r)
      BY <1>1, <1>2, <1>3, <1>5, <1>6 DEF Adds, Deregs, Deregistering
    <3> QED BY <1>1, <1>2, <1>3, <1>5, <1>6, <2>1, <3>1 DEF RegSound, OwnerSound, One
  <2>5. called'[r] \in 0..1
    BY <1>2, <1>5 DEF RegSound, CallSound
  <2>8. \A u \in Threads : Busy(role'[u], r) => phase'[r] = u \/ Awaited(r)'
    BY <1>1, <1>2, <1>3, <1>5, <1>6 DEF Busy, Places, Runs, Invoking
  <2>10. shared'[r] > 0 => phase'[r] \notin {"defer", "synchronize"}
    BY <1>1, <1>2, <1>3, <1>5, <1>6 DEF RegSound, CallSound, OwnerSound, One, Phases
  <2>13. CallSound(r)'
    BY <1>1, <1>2, <1>3, <1>5, <1>6, <2>5, <2>8, <2>10 DEF CallSound, RegSound, Uncalled, Places,
       Runs
  <2>14. StraySound(r)'
    BY <1>1, <1>2, <1>3, <1>5, <1>6 DEF RegSound, StraySound
  <2> QED
    BY <1>1, <1>2, <1>5, <1>6, <2>1, <2>3, <2>13, <2>14 DEF RegSound, NewSound, Phases, RefsSound,
       HandleHeld, OwnerSound, One, PlaceSound
<1> QED BY <1>2, <1>4, <1>5, <1>8, <1>9, <1>10, <1>11 DEF TokInv, TokTypes, Once

-----------------------------------------------------------------------------
LEMMA InitIsSound == TokenInit => TokInv
<1> SUFFICES ASSUME TokenInit PROVE TokInv
  OBVIOUS
<1>3. StacksSound
  BY DEF StacksSound, StackOf, NoRole, Roles, TokenInit, role, Role
<1>4. \A t \in Threads : role[t].at = "idle" /\ role[t].base = "none" /\ role[t] \in Roles
  BY <1>3 DEF NoRole, StacksSound, TokenInit, role, Role
<1>6. Once(listed) /\ Once(rundown) /\ \A q : ~In(q, listed) /\ ~In(q, rundown)
  BY DEF TokenInit, Once, In
<1>7. ASSUME NEW r \in Registrations PROVE RegSound(r)
  <2>2. \A t \in Threads :
            /\ ~Adds(role[t], r) /\ ~Places(role[t], r) /\ ~Deregs(role[t], r) /\ ~Holds(role[t], r)
            /\ ~Busy(role[t], r) /\ ~Waits(role[t], r) /\ ~Uncalled(role[t], r)
            /\ ~(role[t].reg = r /\ role[t].base = "exit")
    BY <1>4, UnconcernedMeans DEF Unconcerned
  <2>3. ~Added(r) /\ ~Ending(r) /\ ~Locked(r) /\ ~Listed(r)
    BY <1>6, <2>2 DEF Added, Ending, Locked, Listed
  <2> QED
    BY <1>4, <1>6, <2>2, <2>3 DEF RegSound, PlaceSound, NewSound, RefsSound, StraySound,
       OwnerSound, One, TokenInit, CallSound
<1> QED
  BY <1>3, <1>4, <1>6, <1>7 DEF TokInv, FlagSound, SignalsSound, TokenInit, IsCancelling,
     Invoking, TokTypes, Phases

LEMMA StepKeeps == TokInv /\ [TokenNext]_tokenVars => TokInv'
<1> SUFFICES ASSUME TokInv, [TokenNext]_tokenVars PROVE TokInv'
  OBVIOUS
<1>1. ASSUME NEW t \in Threads, Step(t) PROVE TokInv'
  <2>1. role[t] \in Roles /\ Owned \subseteq Registrations
    BY InvHas, TokenAssumption
  <2>2. ASSUME NEW p \in TokenPoints, At(t, p) PROVE Of(t) \in Registrations
    BY <2>1, <2>2, Tops, InvHas, RolesAre DEF TokenPoints, Invoking, Deregistering
  <2>3. CASE Push(t)
    BY <2>2, <2>3, PushKeeps DEF Push, TokenPoints
  <2>4. CASE Registered(t)
    BY <2>2, <2>4, RegisteredKeeps DEF Registered, TokenPoints
  <2>5. CASE Enter(t)
    BY <2>2, <2>5, EnterKeeps DEF Enter, TokenPoints
  <2>6. CASE Exec(t)
    BY <2>2, <2>6, ExecKeeps DEF Exec, TokenPoints
  <2>7. CASE Body(t)
    BY <2>2, <2>7, BodyKeeps DEF Body, TokenPoints
  <2>8. CASE Unlock(t)
    BY <2>2, <2>8, UnlockKeeps DEF Unlock, TokenPoints
  <2>9. CASE Exit(t)
    BY <2>2, <2>9, ExitKeeps DEF Exit, TokenPoints
  <2>10. CASE Leave(t)
    BY <2>2, <2>10, LeaveKeeps DEF Leave, TokenPoints
  <2>11. CASE Remove(t)
    BY <2>2, <2>11, RemoveKeeps DEF Remove, TokenPoints
  <2>12. CASE Defer(t)
    BY <2>2, <2>12, DeferKeeps DEF Defer, TokenPoints
  <2>13. CASE Exchange(t)
    BY <2>2, <2>13, ExchangeKeeps DEF Exchange, TokenPoints
  <2>14. CASE Wait(t)
    BY <2>2, <2>14, WaitKeeps DEF Wait, TokenPoints
  <2>15. CASE Release(t)
    BY <2>2, <2>15, ReleaseKeeps DEF Release, TokenPoints
  <2>16. CASE Swap(t)
    BY <2>16, SwapKeeps
  <2>17. CASE RunNext(t)
    <3>1. CASE rundown = <<>>
      BY <2>17, <3>1, LastKeeps
    <3>2. CASE rundown # <<>>
      BY <2>17, <3>2, InvHas, Headed, NextKeeps DEF TokTypes
    <3> QED BY <3>1, <3>2
  <2> QED
    BY <1>1, <2>3, <2>4, <2>5, <2>6, <2>7, <2>8, <2>9, <2>10, <2>11, <2>12, <2>13, <2>14, <2>15,
       <2>16, <2>17 DEF Step
<1>2. ASSUME UNCHANGED tokenVars PROVE TokInv'
  <2>1. /\ UNCHANGED <<flag, listed, rundown, phase, refs, sync, signalled, shared, held, thread>>
        /\ UNCHANGED <<alive, called, strays>>
    BY <1>2 DEF tokenVars, registration, owners
  <2>2. role' = role
    BY <2>1 DEF role
  <2>4. ASSUME NEW q \in Registrations PROVE RegSound(q)'
    <3>1. /\ Added(q)' = Added(q) /\ Ending(q)' = Ending(q) /\ Locked(q)' = Locked(q)
          /\ Placed(q)' = Placed(q) /\ Listed(q)' = Listed(q) /\ Awaited(q)' = Awaited(q)
      BY <2>1, <2>2 DEF Added, Ending, Locked, Placed, Listed, In, Awaited
    <3>2. RegSound(q)
      BY DEF TokInv
    <3> QED
      BY <2>1, <2>2, <3>1, <3>2 DEF RegSound, PlaceSound, OwnerSound, NewSound, In, RefsSound,
         StraySound, HandleHeld, CallSound
  <2> QED
    BY <2>1, <2>2, <2>4, InvHas DEF TokInv, TokTypes, StacksSound, FlagSound, SignalsSound, Once
<1> QED BY <1>1, <1>2, CancelKeeps, RegisterKeeps, DropKeeps, DestroyKeeps DEF TokenNext

-----------------------------------------------------------------------------
(* The destructor of the owner, while it deregisters and afterwards.  These   *)
(* parts of the invariant rest on the others and disturb none of them.        *)

\* Before the token is cancelled, a registration to be removed is in the list.
LockSound(r) ==
    flag = 0 => \A t \in Threads : role[t].reg = r /\ role[t].at = "lock" => In(r, listed)

\* Once _DeregisterCallback() has decided, nobody can begin the callback.
Decides(x, r) == x.reg = r /\ x.at \in {"lock", "cas", "exchange"}
Decided(r) ==
    /\ r \in Owned /\ phase[r] # "none" /\ shared[r] = 0
    /\ \A t \in Threads : ~Decides(role[t], r)
BarrierSound(r) ==
    Decided(r) =>
        /\ phase[r] # "clear"
        /\ \A t \in Threads : role[t].reg = r /\ role[t].at = "exec" => phase[r] # t

EndSound(r) == LockSound(r) /\ BarrierSound(r)

LEMMA GoesTo ==
    ASSUME TokInv, NEW t \in Threads, thread[t] # <<>>, NEW p, Goto(t, p)
    PROVE  /\ role'[t].at = p /\ role'[t].reg = role[t].reg
           /\ \A u \in Threads : u # t => role'[u] = role[u]
<1>1. thread \in [Threads -> Seq(Calls)] /\ StacksSound
  BY DEF TokInv, TokTypes
<1>3. thread[t] \in Seq(Calls) /\ Len(thread[t]) \in Nat \ {0} /\ thread[t][1] = Frame(role[t].at, role[t].reg)
  BY <1>1, EmptySeq, Tops
<1>4. thread'[t] # <<>> /\ thread'[t][1].at = p /\ thread'[t][1].reg = role[t].reg
  BY <1>1, <1>3 DEF Frame, Goto
<1> QED BY <1>1, <1>4 DEF role, Role, Goto

LEMMA ReturnsTo ==
    ASSUME TokInv, NEW t \in Threads, thread[t] # <<>>, Return(t)
    PROVE  /\ role'[t].at \in {"idle", "registered", "run", "exit"}
           /\ \A u \in Threads : u # t => role'[u] = role[u]
<1>2. After(role[t]).at \in {"idle", "registered", "run", "exit"}
  BY InvHas, Returns, RolesAre DEF After, NoRole
<1> QED BY <1>2, InvHas, Returns

LEMMA InvokesTo ==
    ASSUME TokInv, NEW t \in Threads, thread[t] # <<>>, NEW p, NEW f, Invoke(t, p, f)
    PROVE  /\ role'[t].at = f.at /\ role'[t].reg = f.reg
           /\ \A u \in Threads : u # t => role'[u] = role[u]
<1> DEFINE g == Frame(p, Of(t))
           S == Calls \cup {f, g}
<1>2. /\ thread'[t] = <<f, g>> \o Tail(thread[t])
      /\ \A u \in Threads : u # t => thread'[u] = thread[u]
  BY DEF Invoke, Caller, TokInv, TokTypes
<1>3. <<f, g>> \in Seq(S) /\ Len(<<f, g>>) = 2 /\ Tail(thread[t]) \in Seq(S)
  <2>1. Tail(thread[t]) \in Seq(Calls) /\ Calls \subseteq S
    BY HeadTailProperties DEF TokInv, TokTypes
  <2>2. <<f, g>> \in Seq(S)
    OBVIOUS
  <2> HIDE DEF S
  <2> QED BY <2>1, <2>2
<1> HIDE DEF S, g
<1> QED BY <1>2, <1>3, ConcatProperties DEF role, Role

\* A step of t that neither begins nor ends the decision about r.
LEMMA EndKeeps ==
    ASSUME TokInv, NEW t \in Threads, NEW r \in Registrations, EndSound(r),
           \A u \in Threads : u # t => role'[u] = role[u],
           ~Decides(role[t], r),
           ~(role'[t].reg = r /\ role'[t].at \in {"lock", "exec"}),
           flag' = 0 => flag = 0 /\ (In(r, listed) => In(r, listed')),
           phase'[r] = phase[r] \/ phase'[r] \in {"called", "defer", "synchronize"},
           phase[r] = "none" => phase'[r] = "none",
           shared'[r] = 0 => shared[r] = 0
    PROVE  EndSound(r)'
<1>2. ASSUME Decided(r)' PROVE Decided(r)
  BY <1>2 DEF Decided
<1>4. BarrierSound(r)'
  <2> SUFFICES ASSUME Decided(r)'
               PROVE  /\ phase'[r] # "clear"
                      /\ \A u \in Threads : role'[u].reg = r /\ role'[u].at = "exec" => phase'[r] # u
    BY DEF BarrierSound
  <2>2. CASE phase'[r] = phase[r]
    BY <1>2, <2>2 DEF EndSound, BarrierSound
  <2>3. CASE phase'[r] \in {"called", "defer", "synchronize"}
    BY <2>3, TokenAssumption DEF Phases
  <2> QED BY <2>2, <2>3
<1> QED BY <1>4 DEF EndSound, LockSound

\* A step of t that leaves the decision about r to be made, or makes it.
LEMMA EndDecides ==
    ASSUME TokInv, NEW t \in Threads, NEW r \in Registrations, EndSound(r),
           \A u \in Threads : u # t => role'[u] = role[u],
           Decides(role[t], r),
           role'[t].reg = r, role'[t].at \in {"cas", "exchange", "wait", "release"},
           \/ role'[t].at \in {"cas", "exchange"}
           \/ phase'[r] \in {"called", "defer", "synchronize", t}
    PROVE  EndSound(r)'
<1>2. LockSound(r)'
  BY DEF LockSound, Deregs, Deregistering, TokInv, RegSound, OwnerSound, Decides
<1>4. CASE role'[t].at \in {"cas", "exchange"}
  BY <1>2, <1>4 DEF EndSound, BarrierSound, Decided, Decides
<1>5. CASE phase'[r] \in {"called", "defer", "synchronize", t} /\ role'[t].at # "exec"
  BY <1>2, <1>5, TokenAssumption DEF EndSound, BarrierSound, Phases
<1> QED BY <1>4, <1>5

LEMMA StepEnds ==
    ASSUME TokInv, NEW t \in Threads, Step(t), NEW r \in Registrations, EndSound(r)
    PROVE  EndSound(r)'
<1> DEFINE x == role[t]
           o == Of(t)
           Others == \A u \in Threads : u # t => role'[u] = role[u]
<1>1. /\ TokTypes /\ StacksSound /\ FlagSound /\ RegSound(r) /\ Once(listed)
      /\ shared[r] \in Int /\ x \in Roles /\ x.at \in TokenPoints \cup {"swap", "run", "idle"}
      /\ t \notin Phases
  BY InvHas, RolesAre, TokenAssumption DEF TokTypes
<1>2. ASSUME NEW p \in TokenPoints \cup {"swap", "run"}, At(t, p)
      PROVE  x.at = p /\ x.reg = o /\ thread[t] # <<>> /\ (p \in TokenPoints => o \in Registrations)
  BY <1>1, <1>2, Tops, RolesAre, TokenAssumption DEF TokenPoints, Invoking, Deregistering, At
<1>3. CASE Push(t)
  <2>1. x.at = "push" /\ x.reg = o /\ thread[t] # <<>> /\ o \in Registrations
    BY <1>2, <1>3 DEF Push, TokenPoints
  <2>2. role'[t].at \in {"registered", "enter"} /\ Others
    <3>1. CASE flag = 0
      BY <1>3, <2>1, <3>1, GoesTo DEF Push
    <3>2. CASE flag # 0
      BY <1>3, <2>1, <3>2, InvokesTo DEF Push, Frame
    <3> QED BY <3>1, <3>2
  <2>4. In(r, listed) => In(r, listed')
    <3>2. In(r, listed) => In(r, Append(listed, o))
      BY <1>1, <2>1, Appended DEF TokTypes
    <3> QED BY <1>3, <3>2 DEF Push, registration, owners
  <2> QED BY <1>3, <2>1, <2>2, <2>4, EndKeeps DEF Decides, Push, registration, owners
<1>4. CASE Registered(t)
  BY <1>2, <1>4, ReturnsTo, EndKeeps DEF Decides, Registered, TokenPoints
<1>5. CASE Enter(t)
  <2>1. x.at = "enter" /\ x.reg = o /\ thread[t] # <<>> /\ o \in Registrations
    BY <1>2, <1>5 DEF Enter, TokenPoints
  <2>2. UNCHANGED <<flag, listed, shared>>
    BY <1>5 DEF Enter, owners
  <2>3. CASE phase[o] = "clear"
    <3>1. role'[t].at = "exec" /\ role'[t].reg = o /\ Others /\ phase' = [phase EXCEPT ![o] = t]
      BY <1>5, <2>1, <2>3, GoesTo DEF Enter
    <3>2. CASE r # o
      BY <2>1, <2>2, <3>1, <3>2, EndKeeps DEF Decides
    <3>3. CASE r = o
      <4>1. ~Decided(r)' /\ LockSound(r)'
        BY <2>1, <2>2, <2>3, <3>1, <3>3 DEF Decided, EndSound, LockSound, Decides, BarrierSound
      <4> QED BY <4>1 DEF EndSound, BarrierSound
    <3> QED BY <3>2, <3>3
  <2>4. CASE phase[o] # "clear"
    BY <1>5, <2>1, <2>2, <2>4, GoesTo, EndKeeps DEF Decides, Enter
  <2> QED BY <2>3, <2>4
<1>6. CASE Exec(t)
  <2>1. x.at = "exec" /\ x.reg = o /\ thread[t] # <<>> /\ o \in Registrations
    BY <1>2, <1>6 DEF Exec, TokenPoints
  <2>4. shared'[r] = 0 => shared[r] = 0
    BY <1>1, <1>6, <2>1 DEF Exec, TokTypes
  <2> QED BY <1>6, <2>1, <2>4, GoesTo, EndKeeps DEF Decides, Exec, registration
<1>7. CASE Body(t)
  BY <1>2, <1>7, GoesTo, EndKeeps DEF Decides, Body, registration, owners, TokenPoints
<1>8. CASE Unlock(t)
  <2>1. x.at = "unlock" /\ x.reg = o /\ thread[t] # <<>> /\ o \in Registrations
    BY <1>2, <1>8 DEF Unlock, TokenPoints
  <2>2. UNCHANGED <<flag, listed, phase>> /\ shared' = [shared EXCEPT ![o] = @ - 1] /\ flag # 0
    BY <1>1, <1>8, <2>1 DEF Unlock, registration, FlagSound, Invoking
  <2>3. CASE shared[o] = 1
    <3>2. CASE r # o
      BY <1>8, <2>1, <2>2, <2>3, <3>2, InvokesTo, EndKeeps DEF Decides, Unlock, Frame
    <3>3. CASE r = o
      BY <1>8, <2>1, <2>2, <2>3, <3>3, InvokesTo DEF EndSound, LockSound, BarrierSound, Decided,
         Decides, Unlock, Frame
    <3> QED BY <3>2, <3>3
  <2>4. CASE shared[o] # 1
    <3>2. shared'[r] = 0 => shared[r] = 0
      BY <1>1, <2>1, <2>2, <2>4 DEF TokTypes
    <3> QED BY <1>8, <2>1, <2>2, <2>4, <3>2, GoesTo, EndKeeps DEF Decides, Unlock
  <2> QED BY <2>3, <2>4
<1>9. CASE Exit(t)
  <2>4. /\ phase'[r] = phase[r] \/ phase'[r] = "called"
        /\ phase[r] = "none" => phase'[r] = "none"
    BY <1>1, <1>2, <1>9 DEF Phases, Exit, TokTypes, TokenPoints
  <2> QED BY <1>2, <1>9, <2>4, GoesTo, EndKeeps DEF Decides, Exit, TokenPoints, owners
<1>10. CASE Leave(t)
  BY <1>2, <1>10, ReturnsTo, EndKeeps DEF Decides, Leave, owners, TokenPoints
<1>11. CASE Remove(t)
  <2>1. x.at = "lock" /\ x.reg = o /\ thread[t] # <<>> /\ o \in Registrations
    BY <1>2, <1>11 DEF Remove, TokenPoints
  <2>3. CASE listed # <<>>
    <3>1. /\ role'[t].at = "release" /\ role'[t].reg = o /\ Others
          /\ phase' = [phase EXCEPT ![o] = "synchronize"] /\ listed' = Without(o, listed)
      BY <1>11, <2>1, <2>3, GoesTo DEF Remove
    <3>2. CASE r # o
      BY <1>1, <1>11, <2>1, <3>1, <3>2, Removed, EndKeeps DEF Decides, TokTypes, Remove, owners
    <3>3. CASE r = o
      BY <1>1, <2>1, <3>1, <3>3, EndDecides DEF Decides, TokTypes
    <3> QED BY <3>2, <3>3
  <2>4. CASE listed = <<>>
    <3>2. CASE r # o
      BY <1>11, <2>1, <2>4, <3>2, GoesTo, EndKeeps DEF Decides, Remove, owners
    <3>3. CASE r = o
      BY <1>11, <2>1, <2>4, <3>3, GoesTo, EndDecides DEF Decides, Remove
    <3> QED BY <3>2, <3>3
  <2> QED BY <2>3, <2>4
<1>12. CASE Defer(t)
  <2>1. x.at = "cas" /\ x.reg = o /\ thread[t] # <<>> /\ o \in Registrations
    BY <1>2, <1>12 DEF Defer, TokenPoints
  <2>3. phase' = [phase EXCEPT ![o] = IF @ = "clear" THEN "defer" ELSE @] /\ phase \in [Registrations -> Phases \cup Threads]
    BY <1>1, <1>12 DEF Defer, TokTypes
  <2>5. CASE r # o
    BY <1>12, <2>1, <2>3, <2>5, GoesTo, EndKeeps DEF Decides, Defer, owners
  <2>6. CASE r = o
    BY <1>1, <1>12, <2>1, <2>3, <2>6, GoesTo, EndDecides DEF Decides, Phases, Defer, RegSound,
       NewSound
  <2> QED BY <2>5, <2>6
<1>13. CASE Exchange(t)
  <2>1. x.at = "exchange" /\ x.reg = o /\ thread[t] # <<>> /\ o \in Registrations
    BY <1>2, <1>13 DEF Exchange, TokenPoints
  <2>4. CASE r # o
    BY <1>13, <2>1, <2>4, GoesTo, EndKeeps DEF Decides, Exchange, owners
  <2>5. CASE r = o
    <3>1. phase'[r] = "synchronize"
      BY <1>1, <1>13, <2>1, <2>5 DEF TokTypes, Exchange, owners
    <3> QED BY <1>13, <2>1, <2>5, <3>1, GoesTo, EndDecides DEF Decides, Exchange
  <2> QED BY <2>4, <2>5
<1>14. CASE Wait(t)
  BY <1>2, <1>14, GoesTo, EndKeeps DEF Decides, Wait, owners, TokenPoints
<1>15. CASE Release(t)
  BY <1>2, <1>15, ReturnsTo, EndKeeps DEF Decides, Release, owners, TokenPoints
<1>16. CASE Swap(t)
  BY <1>1, <1>2, <1>16, GoesTo, EndKeeps DEF Decides, Swap, registration, owners, FlagSound,
     IsCancelling
<1>17. CASE RunNext(t)
  <2>1. x.at = "run" /\ thread[t] # <<>>
    BY <1>2, <1>17 DEF RunNext
  <2>2. role'[t].at \in {"idle", "registered", "run", "exit", "enter"} /\ Others
    <3>1. CASE rundown = <<>>
      BY <1>17, <2>1, <3>1, ReturnsTo DEF RunNext
    <3>2. CASE rundown # <<>>
      BY <1>17, <2>1, <3>2, InvokesTo DEF RunNext, Frame
    <3> QED BY <3>1, <3>2
  <2> QED
    BY <1>1, <1>17, <2>1, <2>2, EndKeeps DEF Decides, RunNext, registration, owners, FlagSound,
       IsCancelling
<1> QED
  BY <1>3, <1>4, <1>5, <1>6, <1>7, <1>8, <1>9, <1>10, <1>11, <1>12, <1>13, <1>14, <1>15, <1>16,
     <1>17 DEF Step

LEMMA RegisterEnds ==
    ASSUME TokInv, NEW t \in Threads, NEW o \in Registrations, Register(t, o),
           NEW r \in Registrations, EndSound(r)
    PROVE  EndSound(r)'
<1>1. TokTypes /\ role[t].at = "idle"
  BY InvHas, Tops DEF Register
<1>2. /\ UNCHANGED <<flag, listed>> /\ phase[o] = "none"
      /\ phase' = [phase EXCEPT ![o] = "clear"]
      /\ shared' = [shared EXCEPT ![o] = IF o \in Owned THEN 1 ELSE 0]
  BY DEF Register
<1>3. /\ role'[t].at \in {"push", "enter"} /\ role'[t].reg = o
      /\ \A u \in Threads : u # t => role'[u] = role[u]
  <2>4. CASE thread'[t] = <<Frame("push", o)>>
    BY <1>1, <2>4 DEF Role, Frame, role, TokTypes, Register
  <2>5. CASE thread'[t] = <<Frame("enter", o), Frame("registered", o)>>
    BY <1>1, <2>5 DEF Role, Frame, role, TokTypes, Register
  <2> QED BY <1>1, <2>4, <2>5 DEF TokTypes, Register
<1>4. CASE r # o
  BY <1>1, <1>2, <1>3, <1>4, EndKeeps DEF Decides
<1>5. CASE r = o
  <2>2. LockSound(r)'
    BY <1>2, <1>3, <1>5 DEF LockSound, TokInv, RegSound, NewSound
  <2> QED BY <1>1, <1>2, <1>5, <2>2 DEF EndSound, BarrierSound, Decided, TokTypes
<1> QED BY <1>4, <1>5

LEMMA DropEnds ==
    ASSUME TokInv, NEW t \in Threads, NEW o \in Registrations, Drop(t, o),
           NEW r \in Registrations, EndSound(r)
    PROVE  EndSound(r)'
<1>1. TokTypes /\ FlagSound /\ RegSound(o) /\ role[t].at = "idle" /\ o \in held
      /\ \A u \in Threads : role[u] \in Roles
  BY InvHas, Tops DEF Drop
<1>2. UNCHANGED <<flag, listed, phase>> /\ shared' = [shared EXCEPT ![o] = @ - 1]
  BY DEF Drop, registration
<1>3. /\ \A u \in Threads : u # t => role'[u] = role[u]
      /\ shared[o] = 1 => role'[t].at = "lock" /\ role'[t].reg = o
      /\ shared[o] # 1 => role'[t].at = "idle"
  <2>2. /\ thread'[t] = IF shared[o] = 1 THEN <<Frame("lock", o)>> ELSE <<>>
        /\ \A u \in Threads : u # t => thread'[u] = thread[u]
    BY <1>1 DEF TokTypes, Drop
  <2>3. role'[t] = Role(thread'[t]) /\ \A u \in Threads : u # t => role'[u] = role[u]
    BY <2>2 DEF role
  <2>4. CASE shared[o] = 1
    BY <2>2, <2>3, <2>4 DEF Role, Frame
  <2>5. CASE shared[o] # 1
    BY <2>2, <2>3, <2>5 DEF Role, NoRole
  <2> QED BY <2>3, <2>4, <2>5
<1>4. CASE r # o
  BY <1>1, <1>2, <1>3, <1>4, EndKeeps DEF Decides
<1>5. CASE r = o /\ shared[o] # 1
  <2>1. shared'[r] = 0 => shared[r] = 0
    BY <1>1, <1>2, <1>5 DEF TokTypes
  <2> QED BY <1>1, <1>2, <1>3, <1>5, <2>1, EndKeeps DEF Decides
<1>6. CASE r = o /\ shared[o] = 1
  <2>1. ~Added(r) /\ ~Ending(r)
    BY <1>1, <1>6 DEF RegSound, OwnerSound, One
  <2>2. flag = 0 => In(r, listed)
    BY <1>1, <1>6, <2>1, EmptySeq DEF RegSound, CallSound, Listed, Uncalled, Invoking, Added,
       Adds, FlagSound, In
  <2> QED BY <1>2, <1>3, <1>6, <2>2 DEF EndSound, BarrierSound, LockSound, Decided, Decides
<1> QED BY <1>4, <1>5, <1>6

LEMMA CancelEnds ==
    ASSUME TokInv, NEW t \in Threads, Cancel(t), NEW r \in Registrations, EndSound(r)
    PROVE  EndSound(r)'
  BY InvHas, Tops, EndKeeps DEF Decides, Cancel, registration, owners, role, Role, Frame, TokTypes

LEMMA DestroyEnds ==
    ASSUME TokInv, Destroy, NEW r \in Registrations, EndSound(r)
    PROVE  EndSound(r)'
<1>2. role' = role /\ shared' = shared
  BY DEF Destroy, owners, role
<1> QED
  BY <1>2, Tops DEF EndSound, LockSound, TokInv, Destroy, BarrierSound, Decided, RegSound,
     NewSound, Listed

\* The invariant.
Inv == TokInv /\ \A r \in Registrations : EndSound(r)

LEMMA InvInit == TokenInit => Inv
<1> SUFFICES ASSUME TokenInit PROVE Inv
  OBVIOUS
<1> QED
  BY InitIsSound DEF Inv, EndSound, LockSound, BarrierSound, Decided, TokenInit, role, Role,
     NoRole

LEMMA InvStep == Inv /\ [TokenNext]_tokenVars => Inv'
<1> SUFFICES ASSUME Inv, [TokenNext]_tokenVars PROVE Inv'
  OBVIOUS
<1>1. TokInv /\ TokInv' /\ \A r \in Registrations : EndSound(r)
  BY StepKeeps DEF Inv
<1>2. ASSUME NEW r \in Registrations PROVE EndSound(r)'
  <2>1. ASSUME UNCHANGED tokenVars PROVE EndSound(r)'
    BY <1>1, <2>1 DEF EndSound, LockSound, BarrierSound, Decided, In, role, tokenVars,
       registration, owners
  <2> QED BY <1>1, <2>1, StepEnds, RegisterEnds, DropEnds, CancelEnds, DestroyEnds DEF TokenNext
<1> QED BY <1>1, <1>2 DEF Inv

-----------------------------------------------------------------------------
(* What the invariant says of the calls on the stacks.                        *)

LEMMA DepthOf ==
    ASSUME NEW x \in Roles
    PROVE  /\ x.at = "idle" => Len(StackOf(x)) = 0
           /\ x.at # "idle" /\ x.base = "none" => Len(StackOf(x)) = 1
           /\ x.base \in {"registered", "run"} => Len(StackOf(x)) = 2
           /\ x.base = "exit" => Len(StackOf(x)) = 3
           /\ x.at # "idle" => StackOf(x)[1].at = x.at /\ StackOf(x)[1].reg = x.reg
           /\ x.base \in {"registered", "exit"} => StackOf(x)[2].at = x.base /\ StackOf(x)[2].reg = x.reg
           /\ x.base = "run" => StackOf(x)[2].at = "run"
           /\ x.base = "exit" => StackOf(x)[3].at = "run"
<1>1. /\ x.base \in {"none", "registered", "run", "exit"}
      /\ x.at = "idle" => x.base = "none"
  BY RolesAre DEF NoRole
<1>2. CASE x.at = "idle"
  BY <1>1, <1>2 DEF StackOf
<1>3. CASE x.at # "idle" /\ x.base = "none"
  BY <1>1, <1>3 DEF StackOf, Frame
<1>4. CASE x.at # "idle" /\ x.base = "registered"
  BY <1>1, <1>4 DEF StackOf, Frame
<1>5. CASE x.at # "idle" /\ x.base = "run"
  BY <1>1, <1>5 DEF StackOf, Frame
<1>6. CASE x.at # "idle" /\ x.base = "exit"
  BY <1>1, <1>6 DEF StackOf, Frame
<1> QED BY <1>1, <1>2, <1>3, <1>4, <1>5, <1>6

LEMMA FramesAre ==
    ASSUME StacksSound, NEW r, NEW points, "run" \notin points, "idle" \notin points, "none" \notin points
    PROVE  Frames(r, points) =
                {f \in Threads \X (1..4) :
                    /\ role[f[1]].reg = r
                    /\ \/ f[2] = 1 /\ role[f[1]].at \in points
                       \/ f[2] = 2 /\ role[f[1]].base \in points}
<1>1. ASSUME NEW t \in Threads, NEW i \in 1..4
      PROVE  /\ i <= Len(thread[t])
             /\ thread[t][i].reg = r /\ thread[t][i].at \in points
             <=>
             /\ role[t].reg = r
             /\ \/ i = 1 /\ role[t].at \in points
                \/ i = 2 /\ role[t].base \in points
  <2> DEFINE x == role[t]
             s == thread[t]
  <2>1. /\ x.base \in {"none", "registered", "run", "exit"}
        /\ x.at = "idle" => x.base = "none"
    BY RolesAre DEF StacksSound, NoRole
  <2>2. /\ x.at = "idle" => Len(s) = 0
        /\ x.at # "idle" /\ x.base = "none" => Len(s) = 1
        /\ x.base \in {"registered", "run"} => Len(s) = 2
        /\ x.base = "exit" => Len(s) = 3
        /\ x.at # "idle" => s[1].at = x.at /\ s[1].reg = x.reg
        /\ x.base \in {"registered", "exit"} => s[2].at = x.base /\ s[2].reg = x.reg
        /\ x.base = "run" => s[2].at = "run"
        /\ x.base = "exit" => s[3].at = "run"
    <3>1. x \in Roles /\ s = StackOf(x)
      BY DEF StacksSound
    <3> HIDE DEF x, s
    <3> QED BY <3>1, DepthOf
  <2> HIDE DEF x, s
  <2>3. CASE x.at = "idle"
    BY <2>1, <2>2, <2>3 DEF x, s
  <2>4. CASE x.at # "idle" /\ x.base = "none"
    BY <2>2, <2>4 DEF x, s
  <2>5. CASE x.at # "idle" /\ x.base = "registered"
    BY <2>2, <2>5 DEF x, s
  <2>6. CASE x.at # "idle" /\ x.base = "run"
    BY <2>2, <2>6 DEF x, s
  <2>7. CASE x.at # "idle" /\ x.base = "exit"
    BY <2>2, <2>7 DEF x, s
  <2> QED BY <2>1, <2>3, <2>4, <2>5, <2>6, <2>7
<1> QED BY <1>1 DEF Frames

LEMMA AddFrames ==
    ASSUME StacksSound, NEW r
    PROVE  Frames(r, {"push", "registered"}) # {} <=> Added(r)
<1>1. Frames(r, {"push", "registered"}) =
        {f \in Threads \X (1..4) :
            /\ role[f[1]].reg = r
            /\ \/ f[2] = 1 /\ role[f[1]].at \in {"push", "registered"}
               \/ f[2] = 2 /\ role[f[1]].base \in {"push", "registered"}}
  BY FramesAre
<1>2. ASSUME NEW t \in Threads, Adds(role[t], r) PROVE Frames(r, {"push", "registered"}) # {}
  <2>1. CASE role[t].at \in {"push", "registered"}
    <3>1. <<t, 1>> \in Frames(r, {"push", "registered"})
      BY <1>1, <1>2, <2>1 DEF Adds
    <3> QED BY <3>1
  <2>2. CASE role[t].base = "registered"
    <3>1. <<t, 2>> \in Frames(r, {"push", "registered"})
      BY <1>1, <1>2, <2>2 DEF Adds
    <3> QED BY <3>1
  <2> QED BY <1>2, <2>1, <2>2 DEF Adds
<1>3. ASSUME NEW f \in Frames(r, {"push", "registered"}) PROVE Added(r)
  BY <1>1, RolesAre DEF Added, Adds, StacksSound
<1> QED BY <1>2, <1>3 DEF Added

LEMMA DropFrames ==
    ASSUME StacksSound, NEW r
    PROVE  Frames(r, Deregistering) # {} <=> Ending(r)
<1>2. ASSUME NEW t \in Threads, Deregs(role[t], r) PROVE Frames(r, Deregistering) # {}
  <2>1. <<t, 1>> \in Frames(r, Deregistering)
    BY <1>2, FramesAre DEF Deregs, Deregistering
  <2> QED BY <2>1
<1>3. ASSUME NEW f \in Frames(r, Deregistering) PROVE Ending(r)
  BY FramesAre, RolesAre DEF Ending, Deregs, StacksSound, Deregistering
<1> QED BY <1>2, <1>3 DEF Ending

\* A registration that is in no list is in at most one invocation.
LEMMA PlaceFrames ==
    ASSUME StacksSound, NEW r, PlaceSound(r)
    PROVE  Cardinality(Frames(r, Invoking \cup {"push"})) = One(\E t \in Threads : Places(role[t], r))
<1> DEFINE F == Frames(r, Invoking \cup {"push"})
<1>1. F = {f \in Threads \X (1..4) :
            /\ role[f[1]].reg = r
            /\ \/ f[2] = 1 /\ role[f[1]].at \in Invoking \cup {"push"}
               \/ f[2] = 2 /\ role[f[1]].base \in Invoking \cup {"push"}}
  BY FramesAre DEF Invoking
<1>2. \A t \in Threads :
        /\ role[t].base \in Invoking \cup {"push"} <=> role[t].base = "exit"
        /\ role[t].base = "exit" => role[t].at \notin Invoking \cup {"push"}
  <2> TAKE t \in Threads
  <2> QED BY RolesAre DEF Invoking, StacksSound
<1> HIDE DEF F
<1>3. ASSUME NEW f \in F
      PROVE  /\ f[1] \in Threads /\ Places(role[f[1]], r)
             /\ f = <<f[1], IF role[f[1]].base = "exit" THEN 2 ELSE 1>>
  BY <1>1, <1>2 DEF Places, Runs
<1>4. CASE \E t \in Threads : Places(role[t], r)
  <2>1. PICK t \in Threads : Places(role[t], r)
    BY <1>4
  <2> DEFINE k == IF role[t].base = "exit" THEN 2 ELSE 1
  <2>2. <<t, k>> \in F
    <3>3. \/ k = 1 /\ role[t].at \in Invoking \cup {"push"}
          \/ k = 2 /\ role[t].base \in Invoking \cup {"push"}
      BY <1>2, <2>1 DEF Places, Runs
    <3> HIDE DEF k
    <3> QED BY <1>1, <2>1, <3>3 DEF Places, Runs
  <2>4. F = {<<t, k>>}
    BY <1>3, <2>1, <2>2 DEF PlaceSound
  <2> QED BY <1>4, <2>4, FS_Singleton DEF One, F
<1>5. CASE ~ \E t \in Threads : Places(role[t], r)
  BY <1>3, <1>5, FS_EmptySet DEF One, F
<1> QED BY <1>4, <1>5

-----------------------------------------------------------------------------
(* The theorems.                                                              *)

\* The calls of every thread nest in one of few ways, each registration is in
\* one place, its owner's pointers and its references are counted by who uses
\* them, and a callback that runs is marked or waited for: the invariant of
\* pplxcancellation_token.h that the others follow from.
THEOREM TokenInvariant == TokenSpec => []Inv
  BY InvInit, InvStep, PTL DEF TokenSpec

\* A callback is made at most once and not before cancel(); when cancel() has
\* returned it was made to all that are still registered.
LEMMA Calling == Inv => CallbackOnce
<1> SUFFICES ASSUME Inv PROVE CallbackOnce
  OBVIOUS
<1>1. TokTypes /\ StacksSound /\ FlagSound /\ \A r \in Registrations : RegSound(r)
  BY DEF Inv, TokInv
<1>2. ASSUME NEW r \in Registrations PROVE called[r] <= 1 /\ (called[r] = 1 => flag # 0)
  BY <1>1 DEF FlagSound, RegSound, CallSound
<1>3. ASSUME flag = 2, NEW r \in held PROVE called[r] = 1
  <2>2. ~Added(r) /\ shared[r] > 0
    BY <1>1, <1>3, TokenAssumption DEF RegSound, OwnerSound, One, TokTypes
  <2>5. ~Listed(r)
    BY <1>1, <1>3, EmptySeq DEF Listed, In, FlagSound, IsCancelling
  <2>6. ASSUME NEW t \in Threads PROVE ~Uncalled(role[t], r)
    BY <1>1, <1>3, <2>2, RolesAre DEF Uncalled, Added, Adds, IsCancelling, Invoking, FlagSound,
       StacksSound
  <2> QED BY <1>1, <1>3, <2>2, <2>5, <2>6, TokenAssumption DEF RegSound, CallSound, TokTypes
<1> QED BY <1>2, <1>3 DEF CallbackOnce

\* When _DeregisterCallback() has returned, the callback does not run and will
\* not: who runs it under its own mark began before the decision.
LEMMA Deregistered == Inv => DeregisterIsBarrier
<1> SUFFICES ASSUME Inv, NEW r \in Gone PROVE Frames(r, {"exec", "body", "unlock"}) = {}
  BY DEF DeregisterIsBarrier
<1>1. /\ TokTypes /\ StacksSound
      /\ r \in Registrations /\ r \in Owned /\ phase[r] # "none" /\ shared[r] = 0
      /\ RegSound(r) /\ EndSound(r)
  BY DEF Inv, TokInv, Gone, Created
<1>2. ~Ending(r)
  BY <1>1, DropFrames DEF Gone, Frames
<1>4. /\ phase[r] # "clear"
      /\ \A t \in Threads : role[t].reg = r /\ role[t].at = "exec" => phase[r] # t
  BY <1>1, <1>2 DEF EndSound, BarrierSound, Decided, Ending, Deregs, Decides, Deregistering
<1>5. \A t \in Threads : ~(role[t].reg = r /\ role[t].at \in {"exec", "body", "unlock"})
  <2> SUFFICES ASSUME NEW t \in Threads, role[t].reg = r, role[t].at \in {"exec", "body", "unlock"}
               PROVE  FALSE
    OBVIOUS
  <2>2. ~Awaited(r)
    BY <1>2 DEF Awaited, Ending, Deregs, Deregistering
  <2> QED BY <1>1, <1>4, <2>2 DEF RegSound, CallSound, Busy, Locked, Holds, OwnerSound, One
<1> QED BY <1>1, <1>5, RolesAre, FramesAre DEF StacksSound

\* The references are those of the handle and of the list or the invocation,
\* and the list holds a stranger only between the two steps of _Cancel().
LEMMA Counting == Inv => RefsExact
<1> SUFFICES ASSUME Inv PROVE RefsExact
  OBVIOUS
<1>1. /\ TokTypes /\ StacksSound /\ FlagSound
      /\ \A r \in Registrations : RegSound(r) /\ EndSound(r)
  BY DEF Inv, TokInv
<1>2. ASSUME NEW r \in Created \ strays PROVE refs[r] = HandleRefs(r) + ListRefs(r)
  <2>5. ListRefs(r) = One(Placed(r))
    BY <1>1, PlaceFrames DEF One, Placed, RegSound, PlaceSound, ListRefs, Listed, Created
  <2> QED
    BY <1>1, <2>5, AddFrames, DropFrames DEF RegSound, RefsSound, One, HandleRefs, HandleHeld,
       Created
<1>3. ASSUME NEW t \in Threads, At(t, "lock"), listed # <<>>, ~In(Of(t), listed)
      PROVE  \E s \in Threads : At(s, "swap")
  <2>4. PICK s \in Threads : role[s].at = "swap"
    BY <1>1, <1>3, Tops, RolesAre, TokenAssumption DEF FlagSound, EndSound, LockSound,
       TokenPoints, Deregistering
  <2>5. thread[s] # <<>> /\ thread[s][1] = Frame("swap", role[s].reg)
    BY <1>1, <2>4, Tops
  <2> QED BY <2>5 DEF At, Frame
<1> QED BY <1>2, <1>3 DEF RefsExact

\* A token is sound: callbacks are made once (_Invoke, _Cancel), deregistering
\* is a barrier (_DeregisterCallback), and no reference is lost or used twice.
THEOREM TokenIsSound == TokenSpec => []TokenSound
<1>1. Inv => TokenSound
  BY Calling, Deregistered, Counting DEF TokenSound
<1> QED BY <1>1, TokenInvariant, PTL

\* Nobody refers to a registration before it is created.
Unused(r) == phase[r] = "none" => refs[r] = 0

LEMMA UnusedStep ==
    ASSUME TokInv, NEW r \in Registrations, Unused(r), [TokenNext]_tokenVars
    PROVE  Unused(r)'
<1>1. TokTypes /\ StacksSound /\ RegSound(r) /\ phase[r] \in Phases \cup Threads
  BY DEF TokInv, TokTypes
<1>2. ASSUME NEW t \in Threads, Step(t) PROVE Unused(r)'
  <2> DEFINE o == Of(t)
  <2>1. CASE Swap(t) \/ RunNext(t)
    BY <2>1 DEF Swap, RunNext, registration, Unused
  <2>2. ASSUME NEW p \in TokenPoints, At(t, p), o = r PROVE phase[r] # "none"
    BY <1>1, <2>2, Tops DEF RegSound, NewSound, TokenPoints
  <2>3. CASE Push(t) \/ Body(t) \/ Unlock(t) \/ Exec(t)
    BY <2>3 DEF Push, Body, Unlock, Exec, registration, Unused
  <2>4. CASE Registered(t) \/ Leave(t) \/ Wait(t) \/ Release(t)
    BY <1>1, <2>2, <2>4 DEF Unused, TokTypes, Registered, Leave, Wait, Release, TokenPoints
  <2>5. CASE Enter(t)
    BY <1>1, <2>5, TokenAssumption DEF Unused, TokTypes, Enter, Phases
  <2>6. CASE Exit(t)
    BY <1>1, <2>6 DEF Unused, TokTypes, Exit
  <2>7. CASE Defer(t)
    BY <1>1, <2>7 DEF Unused, TokTypes, Defer
  <2>8. CASE Exchange(t)
    BY <1>1, <2>8 DEF Unused, TokTypes, Exchange
  <2>9. CASE Remove(t)
    BY <1>1, <2>2, <2>9 DEF Unused, TokTypes, Remove, TokenPoints
  <2> QED BY <1>2, <2>1, <2>3, <2>4, <2>5, <2>6, <2>7, <2>8, <2>9 DEF Step
<1>3. ASSUME NEW t \in Threads, Cancel(t) PROVE Unused(r)'
  BY <1>3 DEF Cancel, registration, Unused
<1>4. ASSUME NEW t \in Threads, NEW o \in Registrations, Register(t, o) PROVE Unused(r)'
  BY <1>1, <1>4 DEF Register, Unused, TokTypes
<1>5. ASSUME NEW t \in Threads, NEW o \in Registrations, Drop(t, o) PROVE Unused(r)'
  BY <1>5 DEF Drop, registration, Unused
<1>6. ASSUME Destroy PROVE Unused(r)'
  BY <1>6 DEF Destroy, Unused
<1>7. ASSUME UNCHANGED tokenVars PROVE Unused(r)'
  BY <1>7 DEF tokenVars, registration, Unused
<1> QED BY <1>2, <1>3, <1>4, <1>5, <1>6, <1>7 DEF TokenNext

TokTyped == TokInv /\ \A r \in Registrations : Unused(r)

LEMMA TokensBegin == TokenInit => TokTyped
  BY InitIsSound DEF TokenInit, Unused, TokTyped

LEMMA TokensStay == TokTyped /\ [TokenNext]_tokenVars => TokTyped'
  BY StepKeeps, UnusedStep DEF TokTyped

LEMMA TokensTyped == TokTyped => TokenTypeOK
<1> SUFFICES ASSUME TokTyped PROVE TokenTypeOK
  OBVIOUS
<1>2. ASSUME NEW r \in Registrations
      PROVE  refs[r] \in -2..2 /\ shared[r] \in 0..2 /\ called[r] \in 0..2
  BY DEF RegSound, OwnerSound, CallSound, One, RefsSound, Unused, TokInv, TokTyped
<1> QED BY <1>2 DEF TokTypes, TokenTypeOK, TokInv, TokTyped

\* Every variable has its type: at most two pointers to an owner, one call of a
\* callback, and never more than two references to a registration.
THEOREM TokenTypeCorrect == TokenSpec => []TokenTypeOK
  BY TokensBegin, TokensStay, TokensTyped, PTL DEF TokenSpec
-----------------------------------------------------------------------------
(* What MCPplx checks: the tasks of any program beside any token, whichever   *)
(* of them steps.                                                             *)

PplxInv == TasksInv /\ EventInv /\ JointInv /\ AssertionsHold

LEMMA PplxBegins == PplxInit => PplxInv
  BY TasksInit, EventsInit, JointInit DEF PplxInv, PplxInit, AssertionsHold

LEMMA PplxStays == PplxInv /\ [PplxNext]_pplxVars => PplxInv'
<1> SUFFICES ASSUME PplxInv, [PplxNext]_pplxVars
             PROVE  PplxInv'
  OBVIOUS
<1> QED BY TasksStays, EventsStay, JointStays, AssertionsStay DEF PplxInv

\* The types follow: an event is won at most twice, once by a value and once by
\* a cancellation, and no more tasks are counted than when_all was given.
LEMMA PplxTyped == PplxInv => PplxTypeOK
<1> SUFFICES ASSUME PplxInv
             PROVE  PplxTypeOK
  OBVIOUS
<1>1. TasksInv /\ EventInv /\ JointInv /\ TasksTyped /\ FieldsTyped
  BY DEF PplxInv, TasksInv, TasksTyped
<1>3. wins \in [Events -> 0..2]
  <2>1. ASSUME NEW e \in Events
        PROVE  wins[e] \in 0..2
    BY <1>1 DEF EventInv, Settled, One
  <2> QED BY <1>1, <2>1 DEF EventInv
<1>5. ASSUME NEW f \in AnyCall
      PROVE  f.at \in Points /\ f.of \in Tasks \cup Events
  BY DEF AnyCall
<1>6. ASSUME NEW f \in pool \cup UNION {{stack[a][i] : i \in 1..Len(stack[a])} : a \in Actors}
      PROVE  f \in AnyCall
  <2>1. CASE f \in pool
    BY <1>1, <2>1 DEF TasksTyped
  <2>2. ASSUME NEW a \in Actors, NEW i \in 1..Len(stack[a])
        PROVE  stack[a][i] \in AnyCall
    BY <1>1, <2>2, ElementOfSeq DEF TasksTyped, StacksTyped
  <2> QED BY <1>6, <2>1, <2>2
<1> QED
  BY <1>1, <1>3, <1>5, <1>6, CountBound DEF PplxTypeOK, TasksTyped, FieldsTyped, JointInv,
     DeleteSound, TasksInv, StatesSound, DoneSound

LEMMA PplxSound == PplxInv => TasksSound
  BY TasksPropagate, NobodyIsForgotten, OneWinner DEF PplxInv, TasksSound

\* A step of both is a step of each, or leaves it alone.
LEMMA OneSteps == [MCNext]_allVars => [PplxNext]_pplxVars /\ [TokenNext]_tokenVars
  BY DEF MCNext, allVars

\* In every program that is well formed, whoever calls when: a continuation by
\* value runs after its antecedent completed and fails as it failed
\* (_RunContinuation, _ScheduleContinuation); when everything rests, every task
\* is finished whose event could be set (_RunTaskContinuations, when_all,
\* when_any, _RegisterTask); no assertion of the library fails, the noted one
\* excepted; and the first to set an event decides for its tasks (set,
\* _CancelInternal).
THEOREM TasksAreSound == MCSpec => []TasksSound
<1>1. MCInit => PplxInv
  BY PplxBegins DEF MCInit
<1>2. PplxInv /\ [MCNext]_allVars => PplxInv'
  BY PplxStays, OneSteps
<1>3. PplxInv => TasksSound
  BY PplxSound
<1> QED BY <1>1, <1>2, <1>3, PTL DEF MCSpec

\* Every variable of the tasks and of the token has its type: an event has at
\* most a value and a cancellation (set, _Cancel), when_all counts each task
\* once and deletes what they share once (_WhenAllContinuationWrapper), and a
\* registration has two references at most (_RegisterCallback).
THEOREM PplxTypesCorrect == MCSpec => []TypeOK
<1>1. MCInit => PplxInv /\ TokTyped
  BY PplxBegins, TokensBegin DEF MCInit
<1>2. PplxInv /\ TokTyped /\ [MCNext]_allVars => (PplxInv /\ TokTyped)'
  BY PplxStays, TokensStay, OneSteps
<1>3. PplxInv /\ TokTyped => TypeOK
  BY PplxTyped, TokensTyped DEF TypeOK
<1> QED BY <1>1, <1>2, <1>3, PTL DEF MCSpec
=============================================================================
