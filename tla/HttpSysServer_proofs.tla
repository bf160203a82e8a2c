------------------------- MODULE HttpSysServer_proofs -------------------------
(* Proofs about HttpSysServer for every set of requests and every bound on    *)
(* the chunks of a response.  What a request and its context go through is    *)
(* independent of the other requests, but for the count: the inductive        *)
(* invariant, ServerInv, has a part for each context (ContextInv), one for    *)
(* the receiving loop and one for the count.                                  *)
EXTENDS HttpSysServer, FiniteSetTheorems, TLAPS

\* A context that was not started refers to nothing.
Untouched(x) ==
    /\ x.refs = {} /\ ~x.initiated /\ x.response = "none" /\ x.body = "none"
    /\ x.content = "none" /\ x.proxy = "none" /\ x.sender = "none"
    /\ x.completed = "none" /\ x.io = {} /\ x.thread = "none" /\ ~x.reading

Unstarted(x) == x.ctx \in {"none", "made"}
Dead(x) == x.ctx \in {"destroy", "signal", "gone"}

\* Who refers to the request: the context until its body is there or failed,
\* the continuation of content_ready() until it ends, the dispatching thread.
RefsInv(x) ==
    /\ x.content \in {"none", "armed"} => "context" \in x.refs
    /\ x.content \in {"armed", "release"} => "content" \in x.refs
    /\ x.thread \in {"lookup", "handler", "thrown", "return"} =>
            "dispatch" \in x.refs /\ x.content # "none"
    /\ "user" \in x.refs => x.content # "none"
    /\ x.thread \in {"dispatch", "bad"} => x.content = "none"
    /\ x.content = "none" => ~x.initiated

\* A request that nobody replied to lives as long as it is referred to; one
\* that was replied to as long as its response is not sent.
LifetimeInv(x) ==
    /\ x.initiated <=> x.response = "set"
    /\ ~x.initiated => /\ x.response = "canceled" <=> x.refs = {}
                       /\ Dead(x) <=> x.refs = {}
    /\ x.initiated /\ Dead(x) => x.completed # "none" /\ x.sender \in {"waiting", "done"}

\* The two continuations, and the body they wait for.
SequenceInv(x) ==
    /\ x.content \in {"none", "armed"} <=> x.proxy = "none"
    /\ x.content = "none" <=> x.sender = "none"
    /\ x.sender \in {"waiting", "thrown"} => x.initiated
    /\ x.sender = "thrown" => x.proxy = "set"
    /\ x.sender = "done" => x.proxy # "none" /\ x.response # "none"
    /\ x.proxy = "set" => x.body = "complete"
    /\ x.proxy = "failed" => x.body = "failed"

\* One operation at a time.
Idle(x) == x.io = {} /\ ~x.reading
Sending(x) ==
    \/ x.io \in {{"response"}, {"chunk"}, {"cancel"}} /\ ~x.reading /\ x.completed = "none"
    \/ x.io = {} /\ x.reading /\ x.completed = "none"
    \/ Idle(x) /\ x.completed # "none"
UseInv(x) ==
    /\ x.proxy = "none" =>
        /\ ~x.reading /\ x.completed = "none"
        /\ \/ x.io = {} /\ x.body # "reading"
           \/ x.io = {"body"} /\ x.body = "reading"
           \/ /\ x.io = {"headers"} /\ x.body = "none" /\ x.thread = "none"
              /\ x.content = "none" /\ x.ctx = "live"
    /\ x.proxy = "failed" =>
        \/ x.io = {"cancel"} /\ ~x.reading /\ x.completed = "none"
        \/ Idle(x) /\ x.completed = "failed"
    /\ x.proxy = "set" =>
        IF x.sender = "done" /\ x.initiated THEN Sending(x)
                                            ELSE Idle(x) /\ x.completed = "none"

ContextInv(x) ==
    IF Unstarted(x) THEN Untouched(x)
    ELSE RefsInv(x) /\ LifetimeInv(x) /\ SequenceInv(x) /\ UseInv(x)

\* The request the receiving loop is at.
LoopInv ==
    /\ receiver.pc \in {"receive", "ended"} <=> receiver.q = "none"
    /\ receiver.pc = "count" => req[receiver.q].ctx = "none"
    /\ receiver.pc \in {"reset", "start"} => req[receiver.q].ctx = "made"
    /\ receiver.pc \in {"release", "drop"} => ~Unstarted(req[receiver.q])
    /\ \A q \in Requests : req[q].ctx = "made" => receiver.q = q

CountedRequests == {q \in Requests : req[q].ctx \in {"made", "live", "destroy"}}
CountInv == IsFiniteSet(CountedRequests) /\ CountExact

ServerInv ==
    /\ TypeOK /\ LoopInv /\ CountInv
    /\ \A q \in Requests : ContextInv(req[q])
-----------------------------------------------------------------------------
(* The pieces of the code that the handlers share, field by field.            *)

Ctxs == {"none", "made", "live", "destroy", "signal", "gone"}
RefSets == SUBSET {"loop", "context", "dispatch", "content", "user"}
Responses == {"none", "set", "canceled"}
Bodies == {"none", "reading", "complete", "failed"}
Contents == {"none", "armed", "release", "done"}
Proxies == {"none", "set", "failed"}
Senders == {"none", "armed", "waiting", "thrown", "done"}
Completions == {"none", "ok", "failed"}
PendingOps == SUBSET {"headers", "body", "response", "chunk", "cancel"}
ThreadPoints == {"none", "dispatch", "bad", "lookup", "handler", "thrown", "return"}
Sendings == {"none", "chunks", "encoding"}
Lefts == 0..MaxChunks

LEMMA ContextType ==
    Context = [ctx : Ctxs, refs : RefSets, initiated : BOOLEAN, response : Responses,
               body : Bodies, content : Contents, proxy : Proxies, sender : Senders,
               completed : Completions, io : PendingOps, thread : ThreadPoints, sending : Sendings,
               left : Lefts, reading : BOOLEAN]
  BY DEF Context, Ctxs, RefSets, Responses, Bodies, Contents, Proxies, Senders, Completions,
     PendingOps, ThreadPoints, Sendings, Lefts

LEMMA DropFields ==
    ASSUME NEW x \in Context, NEW ref
    PROVE  /\ Drop(x, ref) \in Context
           /\ Drop(x, ref).refs = x.refs \ {ref}
           /\ x.refs # {ref} => Drop(x, ref).ctx = x.ctx /\ Drop(x, ref).response = x.response
           /\ x.refs = {ref} =>
                /\ Drop(x, ref).response = IF x.response = "none" THEN "canceled" ELSE x.response
                /\ Drop(x, ref).ctx = IF x.initiated THEN x.ctx ELSE "destroy"
           /\ Drop(x, ref).initiated = x.initiated
           /\ Drop(x, ref).body = x.body
           /\ Drop(x, ref).content = x.content
           /\ Drop(x, ref).proxy = x.proxy
           /\ Drop(x, ref).sender = x.sender
           /\ Drop(x, ref).completed = x.completed
           /\ Drop(x, ref).io = x.io
           /\ Drop(x, ref).thread = x.thread
           /\ Drop(x, ref).reading = x.reading
<1>1. CASE x.refs # {ref}
  BY <1>1, ContextType DEF Drop, RefSets
<1>2. CASE x.refs = {ref}
  BY <1>2, ContextType DEF Drop, Responses, Ctxs, RefSets
<1> QED BY <1>1, <1>2

LEMMA RepliedFields ==
    ASSUME NEW x \in Context
    PROVE  /\ Replied(x) \in Context
           /\ Replied(x).initiated = TRUE /\ Replied(x).response = "set"
           /\ Replied(x).ctx = x.ctx
           /\ Replied(x).refs = x.refs
           /\ Replied(x).body = x.body
           /\ Replied(x).content = x.content
           /\ Replied(x).proxy = x.proxy
           /\ Replied(x).sender = x.sender
           /\ Replied(x).completed = x.completed
           /\ Replied(x).io = x.io
           /\ Replied(x).thread = x.thread
           /\ Replied(x).reading = x.reading
  BY ContextType DEF Replied, Responses


LEMMA InitCallbacksFields ==
    ASSUME NEW x \in Context
    PROVE  /\ InitCallbacks(x) \in Context
           /\ InitCallbacks(x).content = "armed" /\ InitCallbacks(x).sender = "armed"
           /\ InitCallbacks(x).refs = x.refs \cup {"content"}
           /\ InitCallbacks(x).ctx = x.ctx
           /\ InitCallbacks(x).initiated = x.initiated
           /\ InitCallbacks(x).response = x.response
           /\ InitCallbacks(x).body = x.body
           /\ InitCallbacks(x).proxy = x.proxy
           /\ InitCallbacks(x).completed = x.completed
           /\ InitCallbacks(x).io = x.io
           /\ InitCallbacks(x).thread = x.thread
           /\ InitCallbacks(x).reading = x.reading
  BY ContextType DEF InitCallbacks, Contents, Senders, RefSets

\* The context goes on as y: its invariant holds, and it may have begun to die.
GoesOn(x, y) ==
    /\ y \in Context /\ ContextInv(y)
    /\ y.ctx = x.ctx \/ (x.ctx = "live" /\ y.ctx = "destroy")


LEMMA DropLives ==
    ASSUME NEW x \in Context, NEW ref, ~Unstarted(x), LifetimeInv(x)
    PROVE  /\ LifetimeInv(Drop(x, ref)) /\ ~Unstarted(Drop(x, ref))
           /\ Drop(x, ref).ctx = x.ctx \/ (x.ctx = "live" /\ Drop(x, ref).ctx = "destroy")
<1> DEFINE d == Drop(x, ref)
<1>2. CASE x.refs = {ref}
  <2> HIDE DEF d
  <2>5. CASE x.initiated
    BY <1>2, <2>5, DropFields DEF LifetimeInv, Dead, Unstarted, d
  <2>6. CASE ~x.initiated
    BY <1>2, <2>6, DropFields, ContextType DEF LifetimeInv, Dead, Unstarted, d, Ctxs, Responses
  <2> QED BY <2>5, <2>6
<1>3. CASE x.refs # {ref}
  <2> HIDE DEF d
  <2> QED BY <1>3, DropFields DEF LifetimeInv, Dead, Unstarted, d
<1> QED BY <1>2, <1>3

\* An invariant tells apart nothing of a context but these.
Same(x, y) ==
    /\ y.ctx = x.ctx /\ y.refs = x.refs /\ y.initiated = x.initiated
    /\ y.response = x.response /\ y.body = x.body /\ y.content = x.content
    /\ y.proxy = x.proxy /\ y.sender = x.sender /\ y.completed = x.completed
    /\ y.io = x.io /\ y.reading = x.reading

LEMMA DispatchReturnGoesOn ==
    ASSUME NEW x \in Context, ContextInv(x), x.thread = "return"
    PROVE  GoesOn(x, [Drop(x, "dispatch") EXCEPT !.thread = "none"])
<1> DEFINE d == Drop(x, "dispatch")
           y == [d EXCEPT !.thread = "none"]
<1>1. "none" \in ThreadPoints /\ d \in Context
  BY DropFields DEF ThreadPoints
<1>2. ~Unstarted(x)
  BY DEF ContextInv, Untouched
<1>4. /\ d.refs = x.refs \ {"dispatch"} /\ d.initiated = x.initiated
      /\ d.body = x.body /\ d.content = x.content /\ d.proxy = x.proxy /\ d.sender = x.sender
      /\ d.completed = x.completed /\ d.io = x.io /\ d.reading = x.reading
      /\ d.response = x.response \/ d.response = "canceled"
  BY DropFields
<1> HIDE DEF d
<1>5. y \in Context /\ Same(d, y) /\ y.thread = "none"
  BY <1>1, ContextType DEF Same
<1> HIDE DEF y
<1>6. RefsInv(y)
  BY <1>2, <1>4, <1>5 DEF ContextInv, RefsInv, Same
<1>9. UseInv(y)
  BY <1>2, <1>4, <1>5, DropLives DEF ContextInv, UseInv, Sending, Idle, Same
<1> QED
  BY <1>2, <1>4, <1>5, <1>6, <1>9, DropLives DEF GoesOn, ContextInv, Same, d, y, LifetimeInv,
     Dead, Unstarted, SequenceInv

LEMMA ThreadGoesOn ==
    ASSUME NEW x \in Context, NEW y \in Context, ContextInv(x), Same(x, y),
           x.thread # "none",
           y.thread \in {"lookup", "handler", "thrown", "return"} =>
                x.thread \in {"lookup", "handler", "thrown", "return"},
           y.thread \in {"dispatch", "bad"} => x.content = "none"
    PROVE  GoesOn(x, y)
<1>4. UseInv(y)
  BY DEF ContextInv, UseInv, Sending, Idle, Same, Untouched, Unstarted
<1> QED
  BY <1>4 DEF GoesOn, ContextInv, Same, LifetimeInv, Dead, SequenceInv, RefsInv, Untouched,
     Unstarted

LEMMA HandlerMovesGoesOn ==
    ASSUME NEW x \in Context, ContextInv(x), NEW c \in {"handler", "thrown", "return"},
           x.thread \in {"lookup", "handler"}
    PROVE  GoesOn(x, [x EXCEPT !.thread = c])
<1> DEFINE y == [x EXCEPT !.thread = c]
<1>2. y \in Context /\ Same(x, y) /\ y.thread = c
  BY ContextType DEF Same, ThreadPoints
<1> HIDE DEF y
<1> QED BY <1>2, ThreadGoesOn DEF y

\* A reply is the first one, or another by a thread that still has the request.
LEMMA ReplyGoesOn ==
    ASSUME NEW x \in Context, ContextInv(x), x.refs # {}, x.content # "none"
    PROVE  GoesOn(x, Replied(x))
<1> DEFINE y == Replied(x)
<1>1. ~Unstarted(x)
  BY DEF ContextInv, Untouched
<1>2. /\ y \in Context /\ y.initiated /\ y.response = "set" /\ y.ctx = x.ctx /\ y.refs = x.refs
      /\ y.body = x.body /\ y.content = x.content /\ y.proxy = x.proxy /\ y.sender = x.sender
      /\ y.completed = x.completed /\ y.io = x.io /\ y.thread = x.thread
      /\ y.reading = x.reading
  BY RepliedFields
<1> HIDE DEF y
<1>6. UseInv(y)
  <2>2. CASE x.proxy = "set"
    <3>1. CASE x.initiated
      BY <1>1, <1>2, <2>2, <3>1 DEF ContextInv, UseInv, Sending, Idle
    <3>2. CASE ~x.initiated
      BY <1>1, <1>2, <2>2, <3>2, ContextType DEF ContextInv, UseInv, Sending, Idle, SequenceInv,
         LifetimeInv, Responses
    <3> QED BY <3>1, <3>2
  <2>3. CASE x.proxy # "set"
    BY <1>1, <1>2, <2>3 DEF ContextInv, UseInv, Idle
  <2> QED BY <2>2, <2>3
<1> QED
  BY <1>1, <1>2, <1>6 DEF GoesOn, ContextInv, y, RefsInv, Unstarted, LifetimeInv, Dead,
     SequenceInv

LEMMA ReplyAndReturnGoesOn ==
    ASSUME NEW x \in Context, ContextInv(x), x.thread \in {"lookup", "thrown"}
    PROVE  /\ GoesOn(x, [Replied(x) EXCEPT !.thread = "return"])
           /\ GoesOn(x, [ReplyIfNotAlready(x) EXCEPT !.thread = "return"])
<1>2. ASSUME NEW d \in {x, Replied(x)} PROVE GoesOn(x, [d EXCEPT !.thread = "return"])
  <2> DEFINE y == [d EXCEPT !.thread = "return"]
  <2>1. GoesOn(x, d) /\ d.thread = x.thread
    <3>1. CASE d = x
      BY <3>1 DEF GoesOn
    <3>2. CASE d = Replied(x)
      BY <3>2, ReplyGoesOn, RepliedFields DEF ContextInv, RefsInv, Untouched
    <3> QED BY <3>1, <3>2
  <2>3. y \in Context /\ Same(d, y) /\ y.thread = "return"
    BY <2>1, ContextType DEF Same, GoesOn, ThreadPoints
  <2> HIDE DEF y
  <2>4. GoesOn(d, y)
    BY <2>1, <2>3, ThreadGoesOn DEF GoesOn, ThreadPoints
  <2> QED BY <2>1, <2>3, <2>4 DEF y, GoesOn, Same
<1> QED BY <1>2 DEF ReplyIfNotAlready

LEMMA KeepGoesOn ==
    ASSUME NEW x \in Context, ContextInv(x), x.thread = "handler"
    PROVE  GoesOn(x, [x EXCEPT !.refs = @ \cup {"user"}])
<1> DEFINE y == [x EXCEPT !.refs = @ \cup {"user"}]
<1>1. ~Unstarted(x) /\ x.refs # {} /\ x.refs \cup {"user"} \in RefSets
  BY ContextType DEF ContextInv, Untouched, RefsInv, RefSets
<1>2. /\ y \in Context /\ y.refs = x.refs \cup {"user"} /\ y.initiated = x.initiated
      /\ y.response = x.response /\ y.ctx = x.ctx
      /\ y.body = x.body /\ y.content = x.content /\ y.proxy = x.proxy /\ y.sender = x.sender
      /\ y.completed = x.completed /\ y.io = x.io /\ y.thread = x.thread
      /\ y.reading = x.reading
  BY <1>1, ContextType
<1> HIDE DEF y
<1>4. LifetimeInv(y)
  BY <1>1, <1>2 DEF ContextInv, LifetimeInv, Dead
<1> QED
  BY <1>1, <1>2, <1>4 DEF GoesOn, ContextInv, y, RefsInv, Unstarted, SequenceInv, UseInv, Sending,
     Idle

\* The loop or the handler lets go of the request.
LEMMA DropGoesOn ==
    ASSUME NEW x \in Context, ContextInv(x), ~Unstarted(x), NEW ref \in {"loop", "user"}
    PROVE  GoesOn(x, Drop(x, ref))
<1> DEFINE d == Drop(x, ref)
<1>2. /\ d \in Context /\ d.refs = x.refs \ {ref} /\ d.initiated = x.initiated
      /\ d.body = x.body /\ d.content = x.content /\ d.proxy = x.proxy /\ d.sender = x.sender
      /\ d.completed = x.completed /\ d.io = x.io /\ d.reading = x.reading
      /\ d.thread = x.thread
      /\ d.response = x.response \/ d.response = "canceled"
  BY DropFields
<1>3. "context" \in x.refs => d.ctx = x.ctx
  BY DropFields
<1> HIDE DEF d
<1> QED
  BY <1>2, <1>3, DropLives DEF GoesOn, ContextInv, d, SequenceInv, RefsInv, UseInv, Sending, Idle

LEMMA AnsweredFields ==
    ASSUME NEW x \in Context
    PROVE  LET d == InitCallbacks(Replied(x)) IN
           /\ d \in Context /\ d.content = "armed" /\ d.sender = "armed"
           /\ d.refs = x.refs \cup {"content"} /\ d.initiated /\ d.response = "set"
           /\ d.ctx = x.ctx /\ d.body = x.body /\ d.proxy = x.proxy /\ d.thread = x.thread
           /\ d.completed = x.completed /\ d.io = x.io /\ d.reading = x.reading
<1> DEFINE e == Replied(x)
<1>1. /\ e \in Context /\ e.refs = x.refs /\ e.initiated /\ e.response = "set"
      /\ e.ctx = x.ctx /\ e.body = x.body /\ e.proxy = x.proxy /\ e.thread = x.thread
      /\ e.completed = x.completed /\ e.io = x.io /\ e.reading = x.reading
  BY RepliedFields
<1> HIDE DEF e
<1> DEFINE d == InitCallbacks(e)
<1>2. /\ d \in Context /\ d.content = "armed" /\ d.sender = "armed"
      /\ d.refs = e.refs \cup {"content"} /\ d.initiated = e.initiated
      /\ d.response = e.response
      /\ d.ctx = e.ctx /\ d.body = e.body /\ d.proxy = e.proxy /\ d.thread = e.thread
      /\ d.completed = e.completed /\ d.io = e.io /\ d.reading = e.reading
  BY <1>1, InitCallbacksFields
<1> HIDE DEF d
<1> QED BY <1>1, <1>2 DEF d, e

\* The callbacks are registered by the thread that completed the headers.
LEMMA BadRequestGoesOn ==
    ASSUME NEW x \in Context, ContextInv(x), x.thread = "bad"
    PROVE  GoesOn(x, [InitCallbacks(Replied(x)) EXCEPT !.thread = "none"])
<1> DEFINE d == InitCallbacks(Replied(x))
           y == [d EXCEPT !.thread = "none"]
<1>1. ~Unstarted(x) /\ x.content = "none"
  BY DEF ContextInv, Untouched, RefsInv
<1>2. /\ d \in Context /\ "none" \in ThreadPoints /\ d.content = "armed" /\ d.sender = "armed"
      /\ d.refs = x.refs \cup {"content"} /\ d.initiated /\ d.response = "set"
      /\ d.ctx = x.ctx /\ d.body = x.body /\ d.proxy = x.proxy
      /\ d.completed = x.completed /\ d.io = x.io /\ d.reading = x.reading
  BY AnsweredFields DEF ThreadPoints
<1> HIDE DEF d
<1>3. y \in Context /\ Same(d, y) /\ y.thread = "none"
  BY <1>2, ContextType DEF Same
<1> HIDE DEF y
<1>6. SequenceInv(y) /\ UseInv(y)
  BY <1>1, <1>2, <1>3 DEF ContextInv, SequenceInv, UseInv, Idle, Same
<1> QED
  BY <1>1, <1>2, <1>3, <1>6 DEF GoesOn, ContextInv, Same, d, y, RefsInv, Unstarted, LifetimeInv,
     Dead

LEMMA DispatchGoesOn ==
    ASSUME NEW x \in Context, ContextInv(x), x.thread = "dispatch"
    PROVE  GoesOn(x, [InitCallbacks(x) EXCEPT !.thread = "lookup",
                                              !.refs = @ \cup {"dispatch", "content"}])
<1> DEFINE d == InitCallbacks(x)
           y == [d EXCEPT !.thread = "lookup", !.refs = @ \cup {"dispatch", "content"}]
<1>2. /\ d \in Context /\ "lookup" \in ThreadPoints /\ d.content = "armed" /\ d.sender = "armed"
      /\ d.refs = x.refs \cup {"content"} /\ d.initiated = x.initiated
      /\ d.response = x.response
      /\ d.ctx = x.ctx /\ d.body = x.body /\ d.proxy = x.proxy
      /\ d.completed = x.completed /\ d.io = x.io /\ d.reading = x.reading
  BY InitCallbacksFields DEF ThreadPoints
<1> HIDE DEF d
<1>4. /\ y \in Context /\ y.thread = "lookup" /\ y.refs = d.refs \cup {"dispatch", "content"}
      /\ y.ctx = d.ctx /\ y.initiated = d.initiated /\ y.response = d.response
      /\ y.body = d.body /\ y.content = d.content /\ y.proxy = d.proxy /\ y.sender = d.sender
      /\ y.completed = d.completed /\ y.io = d.io /\ y.reading = d.reading
  BY <1>2, ContextType DEF RefSets
<1> HIDE DEF y
<1>7. SequenceInv(y) /\ UseInv(y)
  BY <1>2, <1>4 DEF ContextInv, SequenceInv, UseInv, Idle, Untouched, RefsInv
<1> QED
  BY <1>2, <1>4, <1>7 DEF GoesOn, ContextInv, d, y, RefsInv, Unstarted, LifetimeInv, Dead,
     Untouched

-----------------------------------------------------------------------------
(* The body of the request, and the two continuations.                        *)

LEMMA BodyChunkFields ==
    ASSUME NEW x \in Context, NEW outcome \in {"pending", "complete", "failed"}
    PROVE  /\ BodyChunk(x, outcome) \in Context
           /\ outcome = "pending" => /\ BodyChunk(x, outcome).body = "reading"
                                     /\ BodyChunk(x, outcome).io = x.io \cup {"body"}
           /\ outcome # "pending" => /\ BodyChunk(x, outcome).body = outcome
                                     /\ BodyChunk(x, outcome).io = x.io
           /\ BodyChunk(x, outcome).ctx = x.ctx
           /\ BodyChunk(x, outcome).refs = x.refs
           /\ BodyChunk(x, outcome).initiated = x.initiated
           /\ BodyChunk(x, outcome).response = x.response
           /\ BodyChunk(x, outcome).content = x.content
           /\ BodyChunk(x, outcome).proxy = x.proxy
           /\ BodyChunk(x, outcome).sender = x.sender
           /\ BodyChunk(x, outcome).completed = x.completed
           /\ BodyChunk(x, outcome).thread = x.thread
           /\ BodyChunk(x, outcome).reading = x.reading
<1>2. CASE outcome = "pending"
  BY <1>2, ContextType DEF BodyChunk, Bodies, PendingOps
<1>3. CASE outcome # "pending"
  BY <1>3, ContextType DEF BodyChunk, Bodies, PendingOps
<1> QED BY <1>2, <1>3

\* An operation completes.
Finished(x, op) == [x EXCEPT !.io = @ \ {op}]

LEMMA FinishedFields ==
    ASSUME NEW x \in Context, NEW op
    PROVE  /\ Finished(x, op) \in Context
           /\ Finished(x, op).io = x.io \ {op}
           /\ Finished(x, op).ctx = x.ctx
           /\ Finished(x, op).refs = x.refs
           /\ Finished(x, op).initiated = x.initiated
           /\ Finished(x, op).response = x.response
           /\ Finished(x, op).body = x.body
           /\ Finished(x, op).content = x.content
           /\ Finished(x, op).proxy = x.proxy
           /\ Finished(x, op).sender = x.sender
           /\ Finished(x, op).completed = x.completed
           /\ Finished(x, op).thread = x.thread
           /\ Finished(x, op).reading = x.reading
  BY ContextType DEF Finished, PendingOps

\* An operation that is pending tells where the request is.
LEMMA PendingOperation ==
    ASSUME NEW x \in Context, ContextInv(x)
    PROVE  /\ "headers" \in x.io =>
                /\ ~Unstarted(x) /\ x.proxy = "none" /\ x.io = {"headers"}
                /\ x.content = "none" /\ x.ctx = "live" /\ x.sender = "none" /\ ~x.reading
                /\ x.completed = "none" /\ x.thread = "none" /\ "context" \in x.refs
           /\ "body" \in x.io =>
                /\ ~Unstarted(x) /\ x.proxy = "none" /\ x.io = {"body"} /\ x.body = "reading"
                /\ ~x.reading
           /\ x.io \cap {"response", "chunk"} # {} \/ x.reading =>
                /\ ~Unstarted(x) /\ x.proxy = "set" /\ x.sender = "done" /\ x.initiated
                /\ x.completed = "none" /\ ~(x.reading /\ x.io # {})
                /\ \A op \in x.io : x.io = {op}
           /\ "cancel" \in x.io =>
                /\ ~Unstarted(x) /\ x.completed = "none" /\ x.io = {"cancel"} /\ ~x.reading
                /\ \/ x.proxy = "failed"
                   \/ x.proxy = "set" /\ x.sender = "done" /\ x.initiated
<1>2. CASE Unstarted(x)
  BY <1>2 DEF ContextInv, Untouched
<1>3. CASE ~Unstarted(x) /\ x.proxy = "none"
  BY <1>3 DEF ContextInv, UseInv, SequenceInv, RefsInv
<1>4. CASE ~Unstarted(x) /\ x.proxy = "failed"
  BY <1>4 DEF ContextInv, UseInv, Idle
<1>5. CASE ~Unstarted(x) /\ x.proxy = "set"
  BY <1>5 DEF ContextInv, UseInv, Sending, Idle
<1> QED BY <1>2, <1>3, <1>4, <1>5, ContextType DEF Proxies

LEMMA ChunkFields ==
    ASSUME NEW x \in Context, NEW op, NEW outcome \in {"pending", "complete", "failed"}
    PROVE  LET d == BodyChunk(Finished(x, op), outcome) IN
           /\ d \in Context
           /\ d.io = (x.io \ {op}) \cup (IF outcome = "pending" THEN {"body"} ELSE {})
           /\ d.body = (IF outcome = "pending" THEN "reading" ELSE outcome)
           /\ d.ctx = x.ctx /\ d.refs = x.refs
           /\ d.initiated = x.initiated /\ d.response = x.response /\ d.content = x.content
           /\ d.proxy = x.proxy /\ d.sender = x.sender /\ d.completed = x.completed
           /\ d.thread = x.thread /\ d.reading = x.reading
<1> DEFINE e == Finished(x, op)
<1> HIDE DEF e
<1> DEFINE d == BodyChunk(e, outcome)
<1> HIDE DEF d
<1> QED BY FinishedFields, BodyChunkFields DEF d, e

LEMMA BodyReadGoesOn ==
    ASSUME NEW x \in Context, ContextInv(x), "body" \in x.io, NEW outcome \in {"complete", "failed"}
    PROVE  GoesOn(x, BodyChunk(Finished(x, "body"), outcome))
<1> DEFINE y == BodyChunk(Finished(x, "body"), outcome)
<1>1. /\ ~Unstarted(x) /\ x.proxy = "none" /\ x.io = {"body"} /\ x.body = "reading"
  BY PendingOperation
<1>2. /\ y \in Context /\ y.io = {} /\ y.body = outcome /\ y.ctx = x.ctx /\ y.refs = x.refs
      /\ y.initiated = x.initiated /\ y.response = x.response /\ y.content = x.content
      /\ y.proxy = x.proxy /\ y.sender = x.sender /\ y.completed = x.completed
      /\ y.thread = x.thread /\ y.reading = x.reading
  BY <1>1, ChunkFields
<1> HIDE DEF y
<1>4. SequenceInv(y) /\ UseInv(y)
  BY <1>1, <1>2 DEF ContextInv, SequenceInv, UseInv, Idle
<1> QED BY <1>1, <1>2, <1>4 DEF GoesOn, ContextInv, y, RefsInv, LifetimeInv, Dead, Unstarted

LEMMA HeadersReadGoesOn ==
    ASSUME NEW x \in Context, ContextInv(x), "headers" \in x.io, NEW c \in {"dispatch", "bad"},
           NEW outcome \in {"pending", "complete", "failed"}
    PROVE  GoesOn(x, [BodyChunk(Finished(x, "headers"), outcome) EXCEPT !.thread = c])
<1> DEFINE d == BodyChunk(Finished(x, "headers"), outcome)
           y == [d EXCEPT !.thread = c]
<1>1. /\ ~Unstarted(x) /\ x.proxy = "none" /\ x.io = {"headers"} /\ x.content = "none"
      /\ x.ctx = "live"
  BY PendingOperation
<1>2. /\ d \in Context /\ d.io = (IF outcome = "pending" THEN {"body"} ELSE {})
      /\ d.body = (IF outcome = "pending" THEN "reading" ELSE outcome)
      /\ d.ctx = x.ctx /\ d.refs = x.refs
      /\ d.initiated = x.initiated /\ d.response = x.response /\ d.content = x.content
      /\ d.proxy = x.proxy /\ d.sender = x.sender /\ d.completed = x.completed
      /\ d.reading = x.reading
  <2> DEFINE e == (x.io \ {"headers"}) \cup (IF outcome = "pending" THEN {"body"} ELSE {})
  <2>1. e = (IF outcome = "pending" THEN {"body"} ELSE {})
    BY <1>1
  <2>2. d.io = e
    BY ChunkFields
  <2> HIDE DEF e
  <2>3. /\ d \in Context /\ d.body = (IF outcome = "pending" THEN "reading" ELSE outcome)
        /\ d.ctx = x.ctx /\ d.refs = x.refs
        /\ d.initiated = x.initiated /\ d.response = x.response /\ d.content = x.content
        /\ d.proxy = x.proxy /\ d.sender = x.sender /\ d.completed = x.completed
        /\ d.reading = x.reading
    BY ChunkFields
  <2> HIDE DEF d
  <2> QED BY <2>1, <2>2, <2>3
<1> HIDE DEF d
<1>3. y \in Context /\ Same(d, y) /\ y.thread = c
  BY <1>2, ContextType DEF Same, ThreadPoints
<1> HIDE DEF y
<1>5. SequenceInv(y)
  BY <1>1, <1>2, <1>3 DEF ContextInv, SequenceInv, Same
<1>6. UseInv(y)
  BY <1>1, <1>2, <1>3 DEF ContextInv, UseInv, Idle, Same
<1> QED
  BY <1>1, <1>2, <1>3, <1>5, <1>6 DEF GoesOn, ContextInv, Same, d, y, RefsInv, LifetimeInv, Dead,
     Unstarted

\* Refused: replied to, and its body is said to be complete.
LEMMA RefuseGoesOn ==
    ASSUME NEW x \in Context, x.content = "none", x.sender = "none", x.proxy = "none",
           x.io = {}, ~x.reading, x.completed = "none", x.thread = "none", x.ctx = "live",
           "context" \in x.refs
    PROVE  GoesOn(x, Refuse(x))
<1> DEFINE d == InitCallbacks(Replied(x))
           y == [d EXCEPT !.body = "complete"]
<1>1. /\ d \in Context /\ "complete" \in Bodies /\ d.content = "armed" /\ d.sender = "armed"
      /\ d.refs = x.refs \cup {"content"} /\ d.initiated /\ d.response = "set"
      /\ d.ctx = x.ctx /\ d.proxy = x.proxy /\ d.thread = x.thread
      /\ d.completed = x.completed /\ d.io = x.io /\ d.reading = x.reading
  BY AnsweredFields DEF Bodies
<1> HIDE DEF d
<1>2. /\ y \in Context /\ y.body = "complete" /\ y.ctx = d.ctx /\ y.refs = d.refs
      /\ y.initiated = d.initiated /\ y.response = d.response /\ y.content = d.content
      /\ y.proxy = d.proxy /\ y.sender = d.sender /\ y.completed = d.completed
      /\ y.io = d.io /\ y.thread = d.thread /\ y.reading = d.reading
  BY <1>1, ContextType
<1> HIDE DEF y
<1>4. SequenceInv(y) /\ UseInv(y)
  BY <1>1, <1>2 DEF SequenceInv, UseInv, Idle
<1> QED
  BY <1>1, <1>2, <1>4 DEF GoesOn, ContextInv, RefsInv, LifetimeInv, Dead, Unstarted, Refuse, d, y

LEMMA HeadersFailedGoesOn ==
    ASSUME NEW x \in Context, ContextInv(x), "headers" \in x.io
    PROVE  GoesOn(x, Refuse(Finished(x, "headers")))
  BY PendingOperation, FinishedFields, RefuseGoesOn DEF GoesOn

LEMMA ContentReadyGoesOn ==
    ASSUME NEW x \in Context, ContextInv(x), x.content = "armed", x.body = "complete"
    PROVE  GoesOn(x, [Drop(Drop(x, "context"), "content")
                      EXCEPT !.proxy = "set", !.content = "done"])
<1> DEFINE c == Drop(x, "context")
           d == Drop(c, "content")
           y == [d EXCEPT !.proxy = "set", !.content = "done"]
<1>1. /\ ~Unstarted(x) /\ x.proxy = "none" /\ {"context", "content"} \subseteq x.refs
      /\ x.io = {} /\ ~x.reading /\ x.completed = "none" /\ x.sender \in {"armed", "waiting"}
  BY ContextType DEF ContextInv, Untouched, RefsInv, SequenceInv, UseInv, Senders
<1>2. /\ c \in Context /\ LifetimeInv(c) /\ ~Unstarted(c) /\ c.ctx = x.ctx /\ c.response = x.response
      /\ c.refs = x.refs \ {"context"} /\ c.initiated = x.initiated
      /\ c.body = x.body /\ c.content = x.content /\ c.proxy = x.proxy /\ c.sender = x.sender
      /\ c.completed = x.completed /\ c.io = x.io /\ c.reading = x.reading
      /\ c.thread = x.thread
  BY <1>1, DropFields, DropLives DEF ContextInv
<1> HIDE DEF c
<1>3. /\ d \in Context /\ LifetimeInv(d) /\ ~Unstarted(d)
      /\ d.ctx = c.ctx \/ (c.ctx = "live" /\ d.ctx = "destroy")
      /\ d.response = c.response \/ d.response = "canceled"
      /\ d.refs = c.refs \ {"content"} /\ d.initiated = c.initiated
      /\ d.body = c.body /\ d.sender = c.sender
      /\ d.completed = c.completed /\ d.io = c.io /\ d.reading = c.reading
      /\ d.thread = c.thread
  BY <1>2, DropLives, DropFields
<1> HIDE DEF d
<1>4. /\ y \in Context /\ y.proxy = "set" /\ y.content = "done" /\ y.ctx = d.ctx
      /\ y.refs = d.refs /\ y.initiated = d.initiated /\ y.response = d.response
      /\ y.body = d.body /\ y.sender = d.sender /\ y.completed = d.completed
      /\ y.io = d.io /\ y.thread = d.thread /\ y.reading = d.reading
  BY <1>3, ContextType DEF Proxies, Contents
<1> HIDE DEF y
<1>6. LifetimeInv(y) /\ ~Unstarted(y)
  BY <1>3, <1>4 DEF LifetimeInv, Dead, Unstarted
<1> QED
  BY <1>1, <1>2, <1>3, <1>4, <1>6 DEF GoesOn, ContextInv, c, d, y, SequenceInv, UseInv, Idle,
     RefsInv

LEMMA CancelFields ==
    ASSUME NEW x \in Context, NEW started \in BOOLEAN
    PROVE  LET y == CancelRequest(x, started) IN
           /\ y \in Context
           /\ \/ y.io = x.io \cup {"cancel"} /\ y.completed = x.completed
              \/ y.io = x.io /\ y.completed = "failed"
           /\ y.ctx = x.ctx /\ y.refs = x.refs /\ y.initiated = x.initiated
           /\ y.response = x.response /\ y.body = x.body /\ y.content = x.content
           /\ y.proxy = x.proxy /\ y.sender = x.sender /\ y.thread = x.thread
           /\ y.reading = x.reading
<1>2. CASE started
  BY <1>2, ContextType DEF CancelRequest, PendingOps, Completions
<1>3. CASE ~started
  BY <1>3, ContextType DEF CancelRequest, PendingOps, Completions
<1> QED BY <1>2, <1>3

LEMMA ContentFailedGoesOn ==
    ASSUME NEW x \in Context, ContextInv(x), x.content = "armed", x.body = "failed",
           NEW started \in BOOLEAN
    PROVE  GoesOn(x, CancelRequest([Drop(x, "context")
                                    EXCEPT !.proxy = "failed", !.content = "release"], started))
<1> DEFINE c == Drop(x, "context")
           d == [c EXCEPT !.proxy = "failed", !.content = "release"]
           y == CancelRequest(d, started)
<1>1. /\ ~Unstarted(x) /\ x.proxy = "none" /\ {"context", "content"} \subseteq x.refs
      /\ x.io = {} /\ ~x.reading /\ x.completed = "none" /\ x.sender \in {"armed", "waiting"}
  BY ContextType DEF ContextInv, Untouched, RefsInv, SequenceInv, UseInv, Senders
<1>2. /\ c \in Context /\ LifetimeInv(c) /\ ~Unstarted(c) /\ c.ctx = x.ctx /\ c.response = x.response
      /\ c.refs = x.refs \ {"context"} /\ c.initiated = x.initiated
      /\ c.body = x.body /\ c.sender = x.sender
      /\ c.completed = x.completed /\ c.io = x.io /\ c.reading = x.reading
      /\ c.thread = x.thread
  BY <1>1, DropFields, DropLives DEF ContextInv
<1> HIDE DEF c
<1>3. /\ d \in Context /\ d.proxy = "failed" /\ d.content = "release" /\ d.ctx = c.ctx
      /\ d.refs = c.refs /\ d.initiated = c.initiated /\ d.response = c.response
      /\ d.body = c.body /\ d.sender = c.sender /\ d.completed = c.completed
      /\ d.io = c.io /\ d.thread = c.thread /\ d.reading = c.reading
  BY <1>2, ContextType DEF Proxies, Contents
<1> HIDE DEF d
<1>4. /\ y \in Context
      /\ \/ y.io = d.io \cup {"cancel"} /\ y.completed = d.completed
         \/ y.io = d.io /\ y.completed = "failed"
      /\ y.ctx = d.ctx /\ y.refs = d.refs /\ y.initiated = d.initiated
      /\ y.response = d.response /\ y.body = d.body /\ y.content = d.content
      /\ y.proxy = d.proxy /\ y.sender = d.sender /\ y.thread = d.thread
      /\ y.reading = d.reading
  BY <1>3, CancelFields
<1> HIDE DEF y
<1>6. LifetimeInv(y) /\ ~Unstarted(y)
  BY <1>1, <1>2, <1>3, <1>4 DEF LifetimeInv, Dead, Unstarted
<1> QED
  BY <1>1, <1>2, <1>3, <1>4, <1>6 DEF GoesOn, ContextInv, c, d, y, SequenceInv, UseInv, Idle,
     RefsInv

LEMMA ContentReleaseGoesOn ==
    ASSUME NEW x \in Context, ContextInv(x), x.content = "release"
    PROVE  GoesOn(x, [Drop(x, "content") EXCEPT !.content = "done"])
<1> DEFINE d == Drop(x, "content")
           y == [d EXCEPT !.content = "done"]
<1>1. ~Unstarted(x) /\ "done" \in Contents /\ x.proxy # "none"
  BY DEF ContextInv, Untouched, Contents, SequenceInv
<1>2. LifetimeInv(d) /\ ~Unstarted(d) /\ (d.ctx = x.ctx \/ (x.ctx = "live" /\ d.ctx = "destroy"))
  BY <1>1, DropLives DEF ContextInv
<1>3. /\ d \in Context /\ d.refs = x.refs \ {"content"} /\ d.initiated = x.initiated
      /\ d.body = x.body /\ d.proxy = x.proxy /\ d.sender = x.sender
      /\ d.completed = x.completed /\ d.io = x.io /\ d.reading = x.reading
      /\ d.thread = x.thread /\ (d.response = x.response \/ d.response = "canceled")
  BY DropFields
<1> HIDE DEF d
<1>4. /\ y \in Context /\ y.content = "done" /\ y.ctx = d.ctx /\ y.proxy = d.proxy
      /\ y.refs = d.refs /\ y.initiated = d.initiated /\ y.response = d.response
      /\ y.body = d.body /\ y.sender = d.sender /\ y.completed = d.completed
      /\ y.io = d.io /\ y.thread = d.thread /\ y.reading = d.reading
  BY <1>1, <1>3, ContextType
<1> HIDE DEF y
<1>8. UseInv(y)
  BY <1>1, <1>3, <1>4 DEF ContextInv, UseInv, Sending, Idle
<1> QED
  BY <1>1, <1>2, <1>3, <1>4, <1>8 DEF GoesOn, ContextInv, d, y, SequenceInv, RefsInv, LifetimeInv,
     Dead, Unstarted

\* The continuation of get_response() waits, or ends without a response.
LEMMA SenderGoesOn ==
    ASSUME NEW x \in Context, ContextInv(x), NEW c \in {"waiting", "thrown", "done"},
           c = "waiting" => x.sender = "armed" /\ x.response = "set",
           c = "done" => \/ x.sender = "armed" /\ x.response = "canceled"
                         \/ x.sender = "waiting" /\ x.proxy = "failed",
           c = "thrown" => x.sender = "waiting" /\ x.proxy = "set"
    PROVE  GoesOn(x, [x EXCEPT !.sender = c])
<1> DEFINE y == [x EXCEPT !.sender = c]
<1>1. ~Unstarted(x) /\ x.sender \in {"armed", "waiting"} /\ c \in Senders
  BY DEF ContextInv, Untouched, Senders
<1>2. /\ y \in Context /\ y.content = x.content /\ y.ctx = x.ctx /\ y.proxy = x.proxy
      /\ y.refs = x.refs /\ y.initiated = x.initiated /\ y.response = x.response
      /\ y.body = x.body /\ y.sender = c /\ y.completed = x.completed
      /\ y.io = x.io /\ y.thread = x.thread /\ y.reading = x.reading
  BY <1>1, ContextType
<1> HIDE DEF y
<1>3. SequenceInv(y) /\ RefsInv(y)
  BY <1>1, <1>2 DEF ContextInv, SequenceInv, RefsInv, LifetimeInv
<1>4. LifetimeInv(y)
  <2>1. c = "thrown" => x.completed = "none"
    BY <1>1 DEF ContextInv, UseInv
  <2> QED BY <1>1, <1>2, <2>1 DEF ContextInv, LifetimeInv, Dead
<1>5. UseInv(y)
  BY <1>1, <1>2 DEF ContextInv, UseInv, Idle, Sending, SequenceInv, LifetimeInv
<1> QED
  BY <1>1, <1>2, <1>3, <1>4, <1>5 DEF GoesOn, ContextInv, y, Unstarted

-----------------------------------------------------------------------------
(* The response on the wire.                                                  *)

\* Nothing changes but the operation, the stream and the completion.
OnTheWire(x, y) ==
    /\ y.ctx = x.ctx /\ y.refs = x.refs /\ y.initiated = x.initiated
    /\ y.response = x.response /\ y.body = x.body /\ y.content = x.content
    /\ y.proxy = x.proxy /\ y.thread = x.thread /\ y.sender = "done"

LEMMA SendingGoesOn ==
    ASSUME NEW x \in Context, NEW y \in Context, ContextInv(x), ~Unstarted(x), x.proxy = "set",
           x.initiated, x.completed = "none", x.sender \in {"waiting", "done"},
           OnTheWire(x, y), Sending(y)
    PROVE  GoesOn(x, y)
  BY DEF GoesOn, ContextInv, OnTheWire, LifetimeInv, Unstarted, Dead, SequenceInv, RefsInv, UseInv

\* An operation of the response is started, or the cancellation, or nothing.
LEMMA StartSendSends ==
    ASSUME NEW x \in Context, NEW z \in Context, OnTheWire(x, z), Idle(z), z.completed = "none",
           NEW op \in {"response", "chunk"}, NEW started \in BOOLEAN, NEW canceled \in BOOLEAN
    PROVE  /\ StartSend(z, op, started, canceled) \in Context
           /\ OnTheWire(x, StartSend(z, op, started, canceled))
           /\ Sending(StartSend(z, op, started, canceled))
           /\ CancelRequest(z, canceled) \in Context
           /\ OnTheWire(x, CancelRequest(z, canceled))
           /\ Sending(CancelRequest(z, canceled))
<1> DEFINE y == [z EXCEPT !.io = @ \cup {op}]
           c == CancelRequest(z, canceled)
<1>3. /\ y \in Context /\ y.io = z.io \cup {op} /\ y.completed = z.completed
      /\ y.ctx = z.ctx /\ y.refs = z.refs /\ y.initiated = z.initiated
      /\ y.response = z.response /\ y.body = z.body /\ y.content = z.content
      /\ y.proxy = z.proxy /\ y.sender = z.sender /\ y.thread = z.thread
      /\ y.reading = z.reading
  BY ContextType DEF PendingOps
<1>4. StartSend(z, op, started, canceled) \in {y, c}
  BY DEF StartSend
<1> HIDE DEF y
<1> HIDE DEF c
<1> QED BY <1>3, <1>4, CancelFields DEF c, OnTheWire, Idle, Sending

LEMMA SendResponseGoesOn ==
    ASSUME NEW x \in Context, ContextInv(x), x.sender = "waiting", x.proxy = "set",
           NEW sending \in Sendings, NEW n \in Lefts,
           NEW started \in BOOLEAN, NEW canceled \in BOOLEAN
    PROVE  GoesOn(x, StartSend([x EXCEPT !.sender = "done", !.sending = sending, !.left = n],
                               "response", started, canceled))
<1> DEFINE z == [x EXCEPT !.sender = "done", !.sending = sending, !.left = n]
           y == StartSend(z, "response", started, canceled)
<1>3. z \in Context /\ OnTheWire(x, z) /\ Idle(z) /\ z.completed = "none"
  BY ContextType DEF OnTheWire, Idle, Senders, ContextInv, Untouched, SequenceInv, UseInv
<1> HIDE DEF z
<1> HIDE DEF y
<1> QED
  BY <1>3, StartSendSends, SendingGoesOn DEF y, z, ContextInv, Untouched, SequenceInv, UseInv

LEMMA StreamGoesOn ==
    ASSUME NEW x \in Context, ContextInv(x), x.reading,
           NEW sending \in Sendings, NEW n \in Lefts,
           NEW started \in BOOLEAN, NEW canceled \in BOOLEAN
    PROVE  /\ GoesOn(x, StartSend([x EXCEPT !.reading = FALSE, !.left = n, !.sending = sending],
                                  "chunk", started, canceled))
           /\ GoesOn(x, StartSend([x EXCEPT !.reading = FALSE, !.sending = sending],
                                  "chunk", started, canceled))
           /\ GoesOn(x, CancelRequest([x EXCEPT !.reading = FALSE], canceled))
<1>1. /\ ~Unstarted(x) /\ x.initiated /\ x.io = {} /\ x.completed = "none"
      /\ x.proxy = "set" /\ x.sender = "done"
  BY PendingOperation
<1>2. ASSUME NEW z \in Context, OnTheWire(x, z), Idle(z), z.completed = "none"
      PROVE  /\ GoesOn(x, StartSend(z, "chunk", started, canceled))
             /\ GoesOn(x, CancelRequest(z, canceled))
  <2> DEFINE y == StartSend(z, "chunk", started, canceled)
             c == CancelRequest(z, canceled)
  <2>1. /\ y \in Context /\ OnTheWire(x, y) /\ Sending(y)
        /\ c \in Context /\ OnTheWire(x, c) /\ Sending(c)
    BY <1>2, StartSendSends
  <2> HIDE DEF y, c
  <2> QED BY <1>1, <2>1, SendingGoesOn DEF y, c
<1>3. ASSUME NEW z \in {[x EXCEPT !.reading = FALSE, !.left = n, !.sending = sending],
                        [x EXCEPT !.reading = FALSE, !.sending = sending],
                        [x EXCEPT !.reading = FALSE]}
      PROVE  z \in Context /\ OnTheWire(x, z) /\ Idle(z) /\ z.completed = "none"
  BY <1>1, <1>3, ContextType DEF OnTheWire, Idle
<1> QED BY <1>2, <1>3

LEMMA SentGoesOn ==
    ASSUME NEW x \in Context, ContextInv(x), NEW op \in {"response", "chunk"}, op \in x.io,
           NEW canceled \in BOOLEAN
    PROVE  /\ GoesOn(x, TransmitBody(Finished(x, op)))
           /\ GoesOn(x, CancelRequest(Finished(x, op), canceled))
<1> DEFINE z == Finished(x, op)
           y == TransmitBody(z)
           c == CancelRequest(z, canceled)
<1>1. /\ ~Unstarted(x) /\ x.initiated /\ x.io = {op} /\ x.completed = "none" /\ ~x.reading
      /\ x.proxy = "set" /\ x.sender = "done"
  BY PendingOperation
<1>2. z \in Context /\ OnTheWire(x, z) /\ Idle(z) /\ z.completed = "none"
  <2>3. OnTheWire(x, z)
    BY <1>1, FinishedFields DEF OnTheWire
  <2> QED BY <1>1, <2>3, FinishedFields DEF Idle
<1> HIDE DEF z
<1>3. y \in Context /\ OnTheWire(x, y) /\ Sending(y)
  <2>2. CASE z.sending = "none"
    BY <1>2, <2>2, ContextType DEF TransmitBody, OnTheWire, Idle, Sending, Completions
  <2>3. CASE z.sending # "none"
    BY <1>2, <2>3, ContextType DEF TransmitBody, OnTheWire, Idle, Sending
  <2> QED BY <2>2, <2>3
<1>4. c \in Context /\ OnTheWire(x, c) /\ Sending(c)
  BY <1>2, CancelFields DEF OnTheWire, Idle, Sending
<1> HIDE DEF y, c
<1> QED BY <1>1, <1>3, <1>4, SendingGoesOn DEF y, c, z

LEMMA CancelCompletedGoesOn ==
    ASSUME NEW x \in Context, ContextInv(x), "cancel" \in x.io
    PROVE  GoesOn(x, [x EXCEPT !.io = @ \ {"cancel"}, !.completed = "failed"])
<1> DEFINE y == [x EXCEPT !.io = @ \ {"cancel"}, !.completed = "failed"]
<1>1. /\ ~Unstarted(x) /\ x.completed = "none" /\ x.io = {"cancel"} /\ ~x.reading
      /\ \/ x.proxy = "failed"
         \/ x.proxy = "set" /\ x.sender = "done" /\ x.initiated
  BY PendingOperation
<1>3. /\ y \in Context /\ y.io = {} /\ y.completed = "failed" /\ y.ctx = x.ctx
      /\ y.refs = x.refs /\ y.initiated = x.initiated /\ y.response = x.response
      /\ y.body = x.body /\ y.content = x.content /\ y.proxy = x.proxy
      /\ y.thread = x.thread /\ y.sender = x.sender /\ y.reading = x.reading
  BY <1>1, ContextType DEF Completions, PendingOps
<1> HIDE DEF y
<1>6. UseInv(y)
  BY <1>1, <1>3 DEF ContextInv, UseInv, Idle, Sending
<1> QED
  BY <1>1, <1>3, <1>6 DEF GoesOn, ContextInv, y, LifetimeInv, Dead, SequenceInv, RefsInv,
     Unstarted

\* The destructor begins, counts the context out and sets the event.
LEMMA DestructorGoesOn ==
    ASSUME NEW x \in Context, ContextInv(x), ~Unstarted(x),
           NEW c \in {"destroy", "signal", "gone"},
           \/ Dead(x)
           \/ /\ x.sender \in {"waiting", "done"} /\ x.response = "set" /\ x.completed # "none"
              /\ x.ctx = "live"
    PROVE  [x EXCEPT !.ctx = c] \in Context /\ ContextInv([x EXCEPT !.ctx = c])
           /\ [x EXCEPT !.ctx = c].ctx = c
<1> DEFINE y == [x EXCEPT !.ctx = c]
<1>2. /\ y \in Context /\ y.ctx = c /\ y.io = x.io /\ y.completed = x.completed
      /\ y.refs = x.refs /\ y.initiated = x.initiated /\ y.response = x.response
      /\ y.body = x.body /\ y.content = x.content /\ y.proxy = x.proxy
      /\ y.thread = x.thread /\ y.sender = x.sender /\ y.reading = x.reading
  BY ContextType DEF Ctxs
<1> HIDE DEF y
<1>6. UseInv(y)
  BY <1>2 DEF ContextInv, UseInv, Idle, Sending, LifetimeInv, Dead, RefsInv, SequenceInv
<1> QED BY <1>2, <1>6 DEF ContextInv, y, RefsInv, Unstarted, SequenceInv, LifetimeInv, Dead

-----------------------------------------------------------------------------
(* The steps of the server.                                                   *)

\* A step takes the context of q, and nothing but the receiving loop, on.
Moves(q) == \E y : req' = [req EXCEPT ![q] = y] /\ GoesOn(req[q], y)

LEMMA MovesKeep ==
    ASSUME ServerInv, NEW q \in Requests, Moves(q), UNCHANGED count
    PROVE  /\ req' \in [Requests -> Context]
           /\ \A r \in Requests : ContextInv(req[r])'
           /\ CountInv'
           /\ \A r \in Requests : /\ Unstarted(req[r])' <=> Unstarted(req[r])
                                  /\ req'[r].ctx = "none" <=> req[r].ctx = "none"
                                  /\ req'[r].ctx = "made" <=> req[r].ctx = "made"
<1>1. PICK y : req' = [req EXCEPT ![q] = y] /\ GoesOn(req[q], y)
  BY DEF Moves
<1> QED
  BY <1>1 DEF Unstarted, GoesOn, ServerInv, TypeOK, CountInv, CountExact, CountedRequests, count

LEMMA UpdateKeeps ==
    ASSUME ServerInv, NEW q \in Requests, Moves(q), UNCHANGED <<receiver, gates, count>>
    PROVE  ServerInv'
  BY MovesKeep DEF ServerInv, TypeOK, gates, count, LoopInv, Receiver

LEMMA DispatchMoves ==
    ASSUME ServerInv, NEW q \in Requests, DispatchStep(q) \/ HandlerStep(q) \/ UserDrop(q)
    PROVE  Moves(q) /\ UNCHANGED <<receiver, gates, count>>
<1> USE DEF Update, Moves
<1>1. req[q] \in Context /\ ContextInv(req[q])
  BY DEF ServerInv, TypeOK
<1>2. ASSUME "user" \in req[q].refs PROVE ~Unstarted(req[q]) /\ req[q].content # "none"
  BY <1>1, <1>2 DEF ContextInv, Untouched, RefsInv
<1>3. CASE BadRequest(q)
  BY <1>1, <1>3, BadRequestGoesOn DEF BadRequest
<1>4. CASE Dispatch(q)
  BY <1>1, <1>4, DispatchGoesOn DEF Dispatch
<1>5. CASE Lookup(q)
  BY <1>1, <1>5, HandlerMovesGoesOn, ReplyAndReturnGoesOn DEF Lookup
<1>6. CASE HandlerReturn(q) \/ HandlerThrow(q)
  BY <1>1, <1>6, HandlerMovesGoesOn DEF HandlerReturn, HandlerThrow
<1>7. CASE ReplyForHandler(q)
  BY <1>1, <1>7, ReplyAndReturnGoesOn DEF ReplyForHandler
<1>8. CASE DispatchReturn(q)
  BY <1>1, <1>8, DispatchReturnGoesOn DEF DispatchReturn
<1>9. CASE HandlerReply(q)
  BY <1>1, <1>9, ReplyGoesOn DEF HandlerReply, ContextInv, Untouched, RefsInv
<1>10. CASE UserReply(q)
  BY <1>1, <1>2, <1>10, ReplyGoesOn DEF UserReply
<1>11. CASE HandlerKeep(q)
  BY <1>1, <1>11, KeepGoesOn DEF HandlerKeep
<1>12. CASE UserDrop(q)
  BY <1>1, <1>2, <1>12, DropGoesOn DEF UserDrop
<1> QED
  BY <1>3, <1>4, <1>5, <1>6, <1>7, <1>8, <1>9, <1>10, <1>11, <1>12 DEF DispatchStep, HandlerStep

LEMMA ResponseMoves ==
    ASSUME ServerInv, NEW q \in Requests, ResponseStep(q)
    PROVE  Moves(q) /\ UNCHANGED <<receiver, gates, count>>
<1>1. /\ req[q] \in Context /\ ContextInv(req[q]) /\ MaxChunks \in Nat \ {0}
      /\ req[q].left \in Lefts /\ req[q].sending \in Sendings
  BY ServerAssumption, ContextType DEF ServerInv, TypeOK
<1>2. /\ "none" \in Sendings /\ "chunks" \in Sendings /\ "encoding" \in Sendings
      /\ 0 \in Lefts /\ 1..MaxChunks \subseteq Lefts
  BY <1>1 DEF Sendings, Lefts
<1>3. PICK started \in BOOLEAN, canceled \in BOOLEAN :
        \/ \E sending \in Sendings, n \in Lefts : SendResponse(q, sending, n, started, canceled)
        \/ ChunkRead(q, started, canceled) \/ EncodingEnds(q, started, canceled)
  BY <1>2 DEF ResponseStep, Works
<1>4. CASE \E sending \in Sendings, n \in Lefts : SendResponse(q, sending, n, started, canceled)
  <2>1. PICK sending \in Sendings, n \in Lefts : SendResponse(q, sending, n, started, canceled)
    BY <1>4
  <2> DEFINE y == StartSend([req[q] EXCEPT !.sender = "done", !.sending = sending, !.left = n],
                            "response", started, canceled)
  <2>2. req[q].sender = "waiting" /\ req[q].proxy = "set" /\ Update(q, y)
    BY <2>1 DEF SendResponse
  <2>3. GoesOn(req[q], y)
    BY <1>1, <2>2, SendResponseGoesOn
  <2> HIDE DEF y
  <2> QED BY <2>2, <2>3 DEF Update, Moves
<1>5. CASE ChunkRead(q, started, canceled)
  <2> DEFINE n == req[q].left - 1
             sending == IF req[q].sending = "chunks" /\ req[q].left = 1 THEN "none"
                                                                  ELSE req[q].sending
  <2>1. n \in Lefts /\ sending \in Sendings
    BY <1>1, <1>2, <1>5 DEF ChunkRead, Lefts
  <2>2. Update(q, StartSend([req[q] EXCEPT !.reading = FALSE, !.left = n, !.sending = sending],
                            "chunk", started, canceled))
    BY <1>5 DEF ChunkRead
  <2>3. req[q].reading
    BY <1>5 DEF ChunkRead
  <2> HIDE DEF n, sending
  <2> QED BY <1>1, <2>1, <2>2, <2>3, StreamGoesOn DEF Update, Moves
<1>6. CASE EncodingEnds(q, started, canceled)
  BY <1>1, <1>2, <1>6, StreamGoesOn DEF EncodingEnds, Update, Moves
<1> QED BY <1>3, <1>4, <1>5, <1>6

LEMMA FailureMoves ==
    ASSUME ServerInv, NEW q \in Requests, FailureStep(q)
    PROVE  Moves(q) /\ UNCHANGED <<receiver, gates, count>>
<1>1. req[q] \in Context /\ ContextInv(req[q]) /\ req[q].sending \in Sendings /\ req[q].left \in Lefts
  BY ContextType DEF ServerInv, TypeOK
<1>2. CASE HeadersFailed(q)
  BY <1>1, <1>2, HeadersFailedGoesOn DEF HeadersFailed, Finished, Update, Moves
<1>3. ASSUME NEW canceled \in BOOLEAN, ContentFailed(q, canceled) \/ StreamFails(q, canceled)
      PROVE  Moves(q) /\ UNCHANGED <<receiver, gates, count>>
  <2>1. CASE ContentFailed(q, canceled)
    BY <1>1, <2>1, ContentFailedGoesOn DEF ContentFailed, Update, Moves
  <2>2. CASE StreamFails(q, canceled)
    BY <1>1, <2>2, StreamGoesOn DEF StreamFails, Update, Moves
  <2> QED BY <1>3, <2>1, <2>2
<1>4. ASSUME NEW canceled \in BOOLEAN, NEW operation \in {"response", "chunk"},
             SendFailed(q, operation, canceled)
      PROVE  Moves(q) /\ UNCHANGED <<receiver, gates, count>>
  BY <1>1, <1>4, SentGoesOn DEF SendFailed, Finished, Update, Moves
<1> QED BY <1>2, <1>3, <1>4 DEF FailureStep

LEMMA ContextMoves ==
    ASSUME ServerInv, NEW q \in Requests, ContextStep(q), ~CountOut(q), ~SetEvent(q)
    PROVE  Moves(q) /\ UNCHANGED <<receiver, gates, count>>
<1>1. req[q] \in Context /\ ContextInv(req[q])
  BY DEF ServerInv, TypeOK
<1>2. ASSUME NEW good \in BOOLEAN, NEW outcome \in {"pending", "complete", "failed"},
             HeadersRead(q, outcome, good)
      PROVE  Moves(q) /\ UNCHANGED <<receiver, gates, count>>
  <2> DEFINE c == IF good THEN "dispatch" ELSE "bad"
             y == [BodyChunk(Finished(req[q], "headers"), outcome) EXCEPT !.thread = c]
  <2>1. "headers" \in req[q].io /\ Update(q, y)
    BY <1>2 DEF HeadersRead, Finished
  <2>2. c \in {"dispatch", "bad"}
    OBVIOUS
  <2> HIDE DEF c
  <2>3. GoesOn(req[q], y)
    BY <1>1, <2>1, <2>2, HeadersReadGoesOn
  <2> HIDE DEF y
  <2> QED BY <2>1, <2>3 DEF Update, Moves
<1>3. ASSUME NEW outcome \in {"complete", "failed"}, BodyRead(q, outcome)
      PROVE  Moves(q) /\ UNCHANGED <<receiver, gates, count>>
  BY <1>1, <1>3, BodyReadGoesOn DEF BodyRead, Finished, Update, Moves
<1>4. CASE ContentReady(q) \/ ContentRelease(q)
  BY <1>1, <1>4, ContentReadyGoesOn, ContentReleaseGoesOn DEF ContentReady, ContentRelease,
     Update, Moves
<1>5. CASE NoResponse(q) \/ SenderWait(q) \/ SenderAborted(q) \/ ResponseThrows(q)
  BY <1>1, <1>5, SenderGoesOn DEF NoResponse, SenderWait, SenderAborted, ResponseThrows, Update, Moves
<1>6. ASSUME NEW operation \in {"response", "chunk"}, Sent(q, operation)
      PROVE  Moves(q) /\ UNCHANGED <<receiver, gates, count>>
  BY <1>1, <1>6, SentGoesOn DEF Sent, Finished, Update, Moves
<1>7. CASE CancelCompleted(q)
  BY <1>1, <1>7, CancelCompletedGoesOn DEF CancelCompleted, Update, Moves
<1>8. CASE BreakCycle(q)
  <2>1. req[q].sender # "thrown"
    BY <1>1, <1>8 DEF BreakCycle, ContextInv, Unstarted, SequenceInv, UseInv
  <2> QED BY <1>1, <1>8, <2>1, DestructorGoesOn DEF BreakCycle, Update, Moves, GoesOn, Unstarted
<1> QED
  BY <1>2, <1>3, <1>4, <1>5, <1>6, <1>7, <1>8, ResponseMoves, FailureMoves DEF ContextStep, Works,
     BodyOutcomes

\* The destructor counts its context out, and the last sets the event.
LEMMA DestructorKeeps ==
    ASSUME ServerInv, NEW q \in Requests, CountOut(q) \/ SetEvent(q)
    PROVE  ServerInv'
<1> DEFINE c == req'[q].ctx
<1>1. req[q] \in Context /\ ContextInv(req[q]) /\ req \in [Requests -> Context]
  BY DEF ServerInv, TypeOK
<1>2. /\ c \in {"signal", "gone"} /\ Dead(req[q]) /\ req' = [req EXCEPT ![q].ctx = c]
      /\ UNCHANGED <<receiver, gates>>
  <2>1. CASE CountOut(q)
    <3>1. PICK d \in {"signal", "gone"} : req' = [req EXCEPT ![q].ctx = d]
      BY <2>1 DEF CountOut
    <3> QED BY <1>1, <2>1, <3>1, ContextType DEF CountOut, Dead
  <2>2. CASE SetEvent(q)
    BY <1>1, <2>2, ContextType DEF SetEvent, Dead
  <2> QED BY <2>1, <2>2
<1> HIDE DEF c
<1>4. /\ req' \in [Requests -> Context] /\ \A r \in Requests : ContextInv(req'[r])
      /\ \A r \in Requests \ {q} : req'[r] = req[r]
      /\ req'[q].ctx = c
  BY <1>1, <1>2, DestructorGoesOn DEF ServerInv, Unstarted, Dead
<1>6. CountInv' /\ outstanding' \in Nat /\ zeroEvent' \in BOOLEAN
  <2>1. CountedRequests' = CountedRequests \ {q}
    BY <1>2, <1>4 DEF CountedRequests
  <2>2. /\ IsFiniteSet(CountedRequests) /\ outstanding = Cardinality(CountedRequests) /\ outstanding \in Nat
        /\ zeroEvent \in BOOLEAN
        /\ outstanding = 0 /\ (\A r \in Requests : req[r].ctx # "signal") => zeroEvent
    BY DEF ServerInv, CountInv, CountExact, CountedRequests, TypeOK
  <2>3. IsFiniteSet(CountedRequests')
        /\ Cardinality(CountedRequests') = IF q \in CountedRequests THEN outstanding - 1 ELSE outstanding
    BY <2>1, <2>2, FS_RemoveElement
  <2>5. CASE CountOut(q)
    <3>2. outstanding = 1 => c = "signal"
      BY <2>5, <1>1, ContextType DEF CountOut, c
    <3> QED
      BY <1>4, <2>2, <2>3, <2>5, <3>2, FS_EmptySet DEF CountInv, CountExact, CountedRequests,
         CountOut
  <2>6. CASE SetEvent(q)
    BY <2>2, <2>3, <2>6 DEF CountInv, CountExact, CountedRequests, SetEvent
  <2> QED BY <2>5, <2>6
<1> QED BY <1>2, <1>4, <1>6 DEF ServerInv, TypeOK, gates, LoopInv, Unstarted, Dead, Receiver

\* A step of the receiving loop that leaves the contexts alone.
LEMMA LoopAloneKeeps ==
    ASSUME ServerInv, ResetEvent \/ LoopDropped \/ ReceiveFails
                      \/ \E q \in Requests : Receive(q)
    PROVE  ServerInv'
<1>1. receiver.pc \notin {"receive", "ended"} => receiver.q \in Requests
  BY DEF ServerInv, LoopInv, TypeOK, Receiver
<1>2. /\ req' = req /\ outstanding' = outstanding
      /\ urlOpen' = urlOpen /\ queueOpen' = queueOpen /\ registered' = registered
      /\ closer' = closer
      /\ zeroEvent' \in BOOLEAN /\ receiver' \in Receiver
  <2>2. CASE ResetEvent
    BY <1>1, <2>2 DEF Receiver, ResetEvent, At, gates
  <2>3. CASE LoopDropped \/ ReceiveFails \/ \E q \in Requests : Receive(q)
    BY <2>3 DEF gates, count, Receiver, LoopDropped, ReceiveFails, Receive, At, ServerInv, TypeOK
  <2> QED BY <2>2, <2>3
<1>4. LoopInv'
  <2>1. CASE ResetEvent
    BY <1>1, <1>2, <2>1 DEF ServerInv, LoopInv, ResetEvent, At, Unstarted
  <2>2. CASE LoopDropped
    BY <1>1, <1>2, <2>2 DEF ServerInv, LoopInv, LoopDropped, At, Unstarted
  <2>3. CASE ReceiveFails
    BY <1>2, <2>3 DEF ServerInv, LoopInv, ReceiveFails, At, Unstarted
  <2>4. ASSUME NEW q \in Requests, Receive(q) PROVE LoopInv'
    BY <1>2, <2>4, ServerAssumption DEF ServerInv, LoopInv, Receive, At, Unstarted
  <2> QED BY <2>1, <2>2, <2>3, <2>4
<1>5. CountInv'
  <2>2. CASE ResetEvent
    BY <1>1, <1>2, <2>2, FS_EmptySet DEF ServerInv, CountInv, CountExact, CountedRequests,
       ResetEvent, LoopInv
  <2>3. CASE ~ResetEvent
    BY <1>2, <2>3 DEF ServerInv, CountInv, CountExact, CountedRequests, LoopDropped, ReceiveFails,
       Receive, count
  <2> QED BY <2>2, <2>3
<1> QED BY <1>2, <1>4, <1>5 DEF ServerInv, TypeOK

\* The constructor of the context counts it.
LEMMA CountInKeeps ==
    ASSUME ServerInv, CountIn
    PROVE  ServerInv'
<1> DEFINE q == receiver.q
           y == [req[q] EXCEPT !.ctx = "made"]
<1>1. /\ q \in Requests /\ req[q].ctx = "none" /\ receiver.pc = "count"
      /\ req[q] \in Context /\ req \in [Requests -> Context]
  BY DEF CountIn, ServerInv, LoopInv, TypeOK, Receiver
<1>2. /\ req' = [req EXCEPT ![q] = y] /\ outstanding' = outstanding + 1
      /\ zeroEvent' = zeroEvent /\ receiver'.q = q /\ receiver'.pc \in {"reset", "start"}
      /\ receiver' \in Receiver
      /\ urlOpen' = urlOpen /\ queueOpen' = queueOpen /\ registered' = registered
      /\ closer' = closer
  BY <1>1 DEF CountIn, At, Receiver, gates
<1>3. /\ y \in Context /\ y.ctx = "made" /\ y.io = req[q].io /\ y.completed = req[q].completed
      /\ y.refs = req[q].refs /\ y.initiated = req[q].initiated
      /\ y.response = req[q].response /\ y.body = req[q].body /\ y.content = req[q].content
      /\ y.proxy = req[q].proxy /\ y.thread = req[q].thread /\ y.sender = req[q].sender
      /\ y.reading = req[q].reading
  BY <1>1, ContextType DEF Ctxs
<1> HIDE DEF y
<1>6. CountInv' /\ outstanding' \in Nat
  <2>1. /\ IsFiniteSet(CountedRequests) /\ outstanding = Cardinality(CountedRequests) /\ outstanding \in Nat
    BY DEF ServerInv, CountInv, CountExact, CountedRequests, TypeOK
  <2>2. CountedRequests' = CountedRequests \cup {q} /\ q \notin CountedRequests
    BY <1>1, <1>2, <1>3 DEF CountedRequests, ServerInv, ContextInv, Unstarted, Untouched
  <2>3. IsFiniteSet(CountedRequests') /\ Cardinality(CountedRequests') = outstanding + 1
    BY <2>1, <2>2, FS_AddElement
  <2> QED BY <1>2, <2>1, <2>3 DEF CountInv, CountExact, CountedRequests
<1> QED BY <1>1, <1>2, <1>3, <1>6 DEF ServerInv, TypeOK, LoopInv, ContextInv, Unstarted, Untouched

\* The context starts: from here on the request refers to it.
LEMMA StartRequestKeeps ==
    ASSUME ServerInv, NEW started \in BOOLEAN, StartRequest(started)
    PROVE  ServerInv'
<1> DEFINE q == receiver.q
           x == [req[q] EXCEPT !.ctx = "live", !.refs = {"loop", "context"}]
           z == [x EXCEPT !.io = {"headers"}]
           y == IF started THEN z ELSE Refuse(x)
<1>1. /\ q \in Requests /\ req[q].ctx = "made" /\ receiver.pc = "start"
      /\ req[q] \in Context /\ req \in [Requests -> Context] /\ Untouched(req[q])
  BY DEF StartRequest, ServerInv, LoopInv, TypeOK, Receiver, ContextInv, Unstarted
<1>2. /\ req' = [req EXCEPT ![q] = y] /\ receiver'.q = q /\ receiver'.pc = "release"
      /\ receiver' \in Receiver /\ UNCHANGED count
      /\ urlOpen' = urlOpen /\ queueOpen' = queueOpen /\ registered' = registered
      /\ closer' = closer
  BY <1>1 DEF StartRequest, At, Receiver, gates
<1>3. /\ x \in Context /\ x.ctx = "live" /\ x.io = {} /\ x.completed = "none"
      /\ x.refs = {"loop", "context"} /\ ~x.initiated
      /\ x.response = "none" /\ x.body = "none" /\ x.content = "none"
      /\ x.proxy = "none" /\ x.thread = "none" /\ x.sender = "none" /\ ~x.reading
  BY <1>1, ContextType DEF Untouched, Ctxs, RefSets
<1> HIDE DEF x
<1>4. z \in Context /\ ContextInv(z) /\ z.ctx = "live"
  <2>2. /\ z \in Context /\ z.ctx = "live" /\ z.io = {"headers"} /\ z.completed = "none"
        /\ z.refs = {"loop", "context"} /\ ~z.initiated
        /\ z.response = "none" /\ z.body = "none" /\ z.content = "none"
        /\ z.proxy = "none" /\ z.thread = "none" /\ z.sender = "none" /\ ~z.reading
    BY <1>3, ContextType DEF PendingOps
  <2> HIDE DEF z
  <2> QED BY <2>2 DEF ContextInv, Unstarted, RefsInv, LifetimeInv, Dead, SequenceInv, UseInv
<1> HIDE DEF z
<1>6. y \in Context /\ ContextInv(y) /\ y.ctx \in {"live", "destroy"}
  BY <1>3, <1>4, RefuseGoesOn DEF GoesOn
<1> HIDE DEF y
<1> QED
  BY <1>1, <1>2, <1>6 DEF ServerInv, TypeOK, count, LoopInv, Unstarted, CountInv, CountExact,
     CountedRequests

LEMMA LoopReleaseKeeps ==
    ASSUME ServerInv, LoopRelease
    PROVE  ServerInv'
<1> DEFINE q == receiver.q
           x == Drop(req[q], "loop")
<1>3. Moves(q)
  BY DropGoesOn DEF Moves, LoopRelease, At, Receiver, gates, ServerInv, LoopInv, TypeOK
<1> QED
  BY <1>3, MovesKeep DEF ServerInv, TypeOK, count, LoopInv, Unstarted, LoopRelease, At, Receiver,
     gates

LEMMA CloserKeeps ==
    ASSUME ServerInv, Unregister \/ CloserStep
    PROVE  ServerInv'
<1>1. /\ req' = req /\ receiver' = receiver /\ outstanding' = outstanding
      /\ zeroEvent' = zeroEvent
      /\ urlOpen' \in BOOLEAN /\ queueOpen' \in BOOLEAN /\ registered' \in BOOLEAN
      /\ closer' \in Closers
  BY DEF ServerInv, TypeOK, Closers, Unregister, CloserStep, Quiesce, CloseUrlGroup, Shutdown,
     WaitForReceiver, WaitForZero, CloseQueue, count
<1> QED BY <1>1 DEF ServerInv, TypeOK, LoopInv, CountInv, CountExact, CountedRequests

-----------------------------------------------------------------------------
(* The theorems.                                                              *)

LEMMA ServerInvInit == Init => ServerInv
<1> SUFFICES ASSUME Init PROVE ServerInv
  OBVIOUS
<1>1. Unseen \in Context /\ ContextInv(Unseen)
  BY ServerAssumption DEF Unseen, Context, ContextInv, Unstarted, Untouched
<1>4. CountInv
  BY FS_EmptySet DEF Init, CountInv, CountExact, CountedRequests, Unseen
<1> QED BY <1>1, <1>4 DEF Init, ServerInv, TypeOK, Receiver, Closers, LoopInv, Unseen

LEMMA ServerInvStep == ServerInv /\ [Next]_vars => ServerInv'
<1> SUFFICES ASSUME ServerInv, [Next]_vars PROVE ServerInv'
  OBVIOUS
<1>1. CASE UNCHANGED vars
  BY <1>1 DEF vars, gates, count, ServerInv, TypeOK, LoopInv, CountInv, CountExact,
     CountedRequests
<1>2. ASSUME NEW q \in Requests,
             DispatchStep(q) \/ HandlerStep(q) \/ UserDrop(q) \/ ContextStep(q)
      PROVE  ServerInv'
  <2>1. CASE CountOut(q) \/ SetEvent(q)
    BY <2>1, DestructorKeeps
  <2>2. CASE ~(CountOut(q) \/ SetEvent(q))
    BY <1>2, <2>2, DispatchMoves, ContextMoves, UpdateKeeps
  <2> QED BY <2>1, <2>2
<1>3. CASE ReceiverStep \/ ReceiveFails \/ \E q \in Requests : Receive(q)
  BY <1>3, LoopAloneKeeps, CountInKeeps, StartRequestKeeps, LoopReleaseKeeps DEF ReceiverStep,
     Works
<1>4. CASE Unregister \/ CloserStep
  BY <1>4, CloserKeeps
<1> QED BY <1>1, <1>2, <1>3, <1>4 DEF Next

\* The server that the runs start from, and every step of it, keep the
\* invariant: a stutter, a step of the contexts, of the receiving loop or of the
\* thread that closes the listener.
THEOREM ServerInvariant == Spec => []ServerInv
  BY ServerInvInit, ServerInvStep, PTL DEF Spec

\* The contexts, the receiving loop, the gates of the listener and the count
\* have their types, whatever the number of requests and of chunks.
THEOREM ServerTypes == Spec => []TypeOK
<1>1. ServerInv => TypeOK
  BY DEF ServerInv
<1> QED BY <1>1, ServerInvariant, PTL

\* One operation at a time uses the m_overlapped of a context; no operation,
\* continuation or thread that uses a context is left when its destructor runs;
\* m_numOutstandingRequests is the number of contexts not yet counted out, and a
\* count of zero is announced unless a destructor is about to announce it.
THEOREM ServerIsSound == Spec => []ContextSound
<1>1. ServerInv => ContextSound
  <2> SUFFICES ASSUME ServerInv PROVE ContextSound
    OBVIOUS
  <2>1. ASSUME NEW q \in Requests
        PROVE  /\ req[q].io = {} \/ \E op : req[q].io = {op}
               /\ req[q].reading => req[q].io = {}
    <3>1. req[q] \in Context /\ ContextInv(req[q]) /\ req[q].proxy \in Proxies
      BY ContextType DEF ServerInv, TypeOK
    <3> QED BY <3>1 DEF ContextInv, Untouched, UseInv, Sending, Idle, Proxies
  <2>2. OverlappedExclusive
    <3> SUFFICES ASSUME NEW q \in Requests
                 PROVE  Cardinality(req[q].io) <= 1 /\ (req[q].reading => req[q].io = {})
      BY DEF OverlappedExclusive
    <3>1. CASE req[q].io = {}
      <4>1. Cardinality(req[q].io) = 0
        BY <3>1, FS_EmptySet
      <4> QED BY <2>1, <4>1
    <3>2. ASSUME NEW op, req[q].io = {op} PROVE Cardinality(req[q].io) = 1
      BY <3>2, FS_Singleton
    <3> QED BY <2>1, <3>1, <3>2
  <2>3. ContextOutlivesUse
    <3> SUFFICES ASSUME NEW q \in Requests, Destroyed(q)
                 PROVE  /\ req[q].io = {} \/ (~req[q].initiated /\ req[q].body = "failed"
                                                /\ req[q].io = {"cancel"})
                        /\ ~req[q].reading
                        /\ req[q].content # "armed"
                        /\ req[q].sender = "armed" => req[q].response = "canceled"
                        /\ req[q].sender = "waiting" => req[q].proxy = "failed"
                        /\ req[q].thread \notin {"dispatch", "bad"}
      BY DEF ContextOutlivesUse
    <3>1. /\ ContextInv(req[q]) /\ Dead(req[q]) /\ ~Unstarted(req[q])
          /\ req[q].proxy \in Proxies /\ req[q].content \in Contents
          /\ req[q].initiated \in BOOLEAN
      BY ContextType DEF ServerInv, TypeOK, Destroyed, Dead, Unstarted
    <3> QED
      BY <3>1 DEF ContextInv, RefsInv, LifetimeInv, SequenceInv, UseInv, Sending, Idle, Proxies,
         Contents
  <2> QED BY <2>2, <2>3 DEF ServerInv, CountInv, ContextSound
<1> QED BY <1>1, ServerInvariant, PTL

-----------------------------------------------------------------------------
(* The server implements RequestService.                                      *)

\* Nobody has seen a request whose handler is still looked up.
LookupInv(x) == x.thread = "lookup" => ~x.initiated /\ "user" \notin x.refs

ServiceInv ==
    /\ ServerInv
    /\ registered <=> closer = "open"
    /\ \A q \in Requests : LookupInv(req[q])

\* What the service sees of a step of a context: it is replied to, or its
\* response completes, or neither.
Progress(x, y) ==
    \/ y.initiated = x.initiated /\ y.completed = x.completed
    \/ /\ ~x.initiated /\ y.initiated
       /\ y.completed = x.completed /\ y.ctx = x.ctx
    \/ /\ y.initiated = x.initiated /\ x.completed = "none" /\ y.ctx = x.ctx
       /\ y.completed = "failed" \/ (y.completed = "ok" /\ x.initiated)

\* The thread goes on, but not into the handler or out of it, and the request
\* is not given to anybody while it is looked up.
Continues(x, y) ==
    /\ y.thread = "handler" <=> x.thread = "handler"
    /\ y.thread = "lookup" =>
        x.thread \in {"dispatch", "lookup"} /\ y.initiated = x.initiated
    /\ y.thread = "lookup" /\ "user" \in y.refs => "user" \in x.refs

Proceeds(x, y) == Progress(x, y) /\ Continues(x, y)

PhaseStep(x, y) ==
    \/ PhaseOf(y) = PhaseOf(x)
    \/ PhaseOf(x) = "open" /\ PhaseOf(y) = "replied"
    \/ PhaseOf(x) = "replied" /\ PhaseOf(y) = "sent"
    \/ PhaseOf(x) \in {"open", "replied"} /\ PhaseOf(y) = "aborted"
    \/ /\ PhaseOf(x) \in {"open", "sent", "aborted"} /\ PhaseOf(y) = "released"
       /\ PhaseOf(x) = "open" => x.thread # "handler"

\* The phase by cases.
LEMMA PhaseCases ==
    ASSUME NEW x \in Context, ContextInv(x)
    PROVE  /\ Unstarted(x) => PhaseOf(x) = "unseen"
           /\ Dead(x) => PhaseOf(x) = "released"
           /\ x.ctx = "live" =>
                /\ x.completed = "ok" => PhaseOf(x) = "sent" /\ x.initiated
                /\ x.completed = "failed" => PhaseOf(x) = "aborted"
                /\ x.completed = "none" => PhaseOf(x) = IF x.initiated THEN "replied" ELSE "open"
           /\ Unstarted(x) \/ Dead(x) \/ x.ctx = "live"
           /\ x.completed \in {"none", "ok", "failed"} /\ x.initiated \in BOOLEAN
           /\ Unstarted(x) => x.completed = "none"
<1>4. ASSUME x.ctx = "live"
      PROVE  /\ x.completed = "ok" => PhaseOf(x) = "sent" /\ x.initiated
             /\ x.completed = "failed" => PhaseOf(x) = "aborted"
             /\ x.completed = "none" => PhaseOf(x) = IF x.initiated THEN "replied" ELSE "open"
  BY <1>4, ContextType DEF PhaseOf, ContextInv, Unstarted, UseInv, Proxies
<1> QED
  BY <1>4, ContextType DEF Ctxs, Completions, Unstarted, Dead, PhaseOf, ContextInv, Untouched

LEMMA AdvancesIsPhaseStep ==
    ASSUME NEW x \in Context, NEW y, ContextInv(x), GoesOn(x, y), Progress(x, y), Continues(x, y)
    PROVE  PhaseStep(x, y)
<1>1. y \in Context /\ ContextInv(y) /\ (y.ctx = x.ctx \/ (x.ctx = "live" /\ y.ctx = "destroy"))
  BY DEF GoesOn
<1>2. CASE Unstarted(x)
  BY <1>1, <1>2, PhaseCases DEF PhaseStep, Unstarted
<1>3. CASE Dead(x)
  BY <1>1, <1>3, PhaseCases DEF PhaseStep, Dead
<1>4. CASE x.ctx = "live" /\ y.ctx = "live"
  BY <1>1, <1>4, PhaseCases DEF PhaseStep, Progress
<1>5. CASE x.ctx = "live" /\ y.ctx = "destroy"
  BY <1>1, <1>5, PhaseCases DEF PhaseStep, Continues, Progress, Dead, ContextInv, Unstarted,
     LifetimeInv, RefsInv
<1> QED BY <1>1, <1>2, <1>3, <1>4, <1>5, PhaseCases

\* The steps of which the service sees at most the release.
Keeps(x, y) ==
    /\ y.initiated = x.initiated /\ y.completed = x.completed /\ y.thread = x.thread
    /\ "user" \in y.refs => "user" \in x.refs

LEMMA KeepsAdvances ==
    ASSUME NEW x, NEW y, Keeps(x, y)
    PROVE  Proceeds(x, y)
  BY DEF Keeps, Proceeds, Progress, Continues

LEMMA PlainStepsAdvance ==
    ASSUME NEW x \in Context
    PROVE  /\ \A ref : Proceeds(x, Drop(x, ref))
           /\ \A outcome \in {"complete", "failed"} :
                Proceeds(x, BodyChunk(Finished(x, "body"), outcome))
           /\ Proceeds(x, [Drop(Drop(x, "context"), "content")
                           EXCEPT !.proxy = "set", !.content = "done"])
           /\ Proceeds(x, [Drop(x, "content") EXCEPT !.content = "done"])
           /\ \A c \in {"waiting", "thrown", "done"} : Proceeds(x, [x EXCEPT !.sender = c])
           /\ Proceeds(x, [x EXCEPT !.ctx = "destroy"])
<1>2. ASSUME NEW outcome \in {"complete", "failed"}
      PROVE  Proceeds(x, BodyChunk(Finished(x, "body"), outcome))
  BY ChunkFields, KeepsAdvances DEF Keeps
<1>3. Proceeds(x, [Drop(Drop(x, "context"), "content") EXCEPT !.proxy = "set", !.content = "done"])
  <2> DEFINE c == Drop(x, "context")
             d == Drop(c, "content")
             y == [d EXCEPT !.proxy = "set", !.content = "done"]
  <2>1. c \in Context /\ Keeps(x, c)
    BY DropFields DEF Keeps
  <2> HIDE DEF c
  <2>2. d \in Context /\ Keeps(c, d)
    BY <2>1, DropFields DEF Keeps
  <2> HIDE DEF d
  <2>3. Keeps(d, y)
    BY <2>2, ContextType DEF Keeps
  <2> HIDE DEF y
  <2> QED BY <2>1, <2>2, <2>3, KeepsAdvances DEF c, d, y, Keeps
<1>4. Proceeds(x, [Drop(x, "content") EXCEPT !.content = "done"])
  <2> DEFINE d == Drop(x, "content")
             y == [d EXCEPT !.content = "done"]
  <2>1. d \in Context /\ Keeps(x, d)
    BY DropFields DEF Keeps
  <2> HIDE DEF d
  <2>2. Keeps(d, y)
    BY <2>1, ContextType DEF Keeps
  <2> HIDE DEF y
  <2> QED BY <2>1, <2>2, KeepsAdvances DEF d, y, Keeps
<1>5. ASSUME NEW c \in {"waiting", "thrown", "done"} PROVE Proceeds(x, [x EXCEPT !.sender = c])
  BY ContextType, KeepsAdvances DEF Keeps
<1> QED BY <1>2, <1>3, <1>4, <1>5, ContextType, KeepsAdvances, DropFields DEF Keeps

\* The steps of the dispatching thread.
LEMMA ThreadAdvances ==
    ASSUME NEW x \in Context
    PROVE  /\ x.thread = "bad" => Proceeds(x, [InitCallbacks(Replied(x)) EXCEPT !.thread = "none"])
           /\ x.thread = "dispatch" =>
                Proceeds(x, [InitCallbacks(x) EXCEPT !.thread = "lookup",
                                                     !.refs = @ \cup {"dispatch", "content"}])
           /\ x.thread \in {"lookup", "thrown"} =>
                /\ Proceeds(x, [Replied(x) EXCEPT !.thread = "return"])
                /\ Proceeds(x, [ReplyIfNotAlready(x) EXCEPT !.thread = "return"])
           /\ x.thread = "return" => Proceeds(x, [Drop(x, "dispatch") EXCEPT !.thread = "none"])
           /\ x.thread # "lookup" => Proceeds(x, Replied(x))
           /\ x.thread = "handler" => Proceeds(x, [x EXCEPT !.refs = @ \cup {"user"}])
           /\ \A outcome \in {"pending", "complete", "failed"}, c \in {"dispatch", "bad"} :
                x.thread = "none" =>
                Proceeds(x, [BodyChunk(Finished(x, "headers"), outcome) EXCEPT !.thread = c])
<1>1. x.initiated \in BOOLEAN
  BY ContextType
<1>2. ASSUME x.thread = "bad"
      PROVE  Proceeds(x, [InitCallbacks(Replied(x)) EXCEPT !.thread = "none"])
  <2> DEFINE d == InitCallbacks(Replied(x))
             y == [d EXCEPT !.thread = "none"]
  <2>1. d \in Context /\ d.initiated /\ d.ctx = x.ctx /\ d.completed = x.completed
        /\ d.initiated \in BOOLEAN
    BY AnsweredFields, ContextType
  <2> HIDE DEF d
  <2>2. y.initiated = d.initiated /\ y.ctx = d.ctx /\ y.completed = d.completed
        /\ y.thread = "none"
    BY <2>1, ContextType
  <2> HIDE DEF y
  <2> QED BY <1>1, <1>2, <2>1, <2>2 DEF y, d, Proceeds, Progress, Continues
<1>3. ASSUME x.thread = "dispatch"
      PROVE  Proceeds(x, [InitCallbacks(x) EXCEPT !.thread = "lookup",
                                                  !.refs = @ \cup {"dispatch", "content"}])
  <2> DEFINE d == InitCallbacks(x)
             y == [d EXCEPT !.thread = "lookup", !.refs = @ \cup {"dispatch", "content"}]
  <2>1. d \in Context /\ d.initiated = x.initiated /\ d.ctx = x.ctx
        /\ d.completed = x.completed /\ d.refs = x.refs \cup {"content"}
    BY InitCallbacksFields
  <2> HIDE DEF d
  <2>2. y.initiated = d.initiated /\ y.ctx = d.ctx /\ y.completed = d.completed
        /\ y.thread = "lookup" /\ y.refs = d.refs \cup {"dispatch", "content"}
    BY <2>1, ContextType
  <2> HIDE DEF y
  <2> QED BY <1>3, <2>1, <2>2 DEF y, d, Proceeds, Progress, Continues
<1>4. ASSUME NEW d \in {x, Replied(x)}, x.thread \in {"lookup", "thrown"}
      PROVE  Proceeds(x, [d EXCEPT !.thread = "return"])
  <2> DEFINE y == [d EXCEPT !.thread = "return"]
  <2>1. d \in Context /\ d.ctx = x.ctx /\ d.completed = x.completed
        /\ (d.initiated = x.initiated \/ d.initiated = TRUE)
    BY RepliedFields
  <2>2. y.initiated = d.initiated /\ y.ctx = d.ctx /\ y.completed = d.completed
        /\ y.thread = "return"
    BY <2>1, ContextType
  <2> HIDE DEF y
  <2> QED BY <1>1, <1>4, <2>1, <2>2 DEF y, Proceeds, Progress, Continues
<1>5. ASSUME x.thread = "return"
      PROVE  Proceeds(x, [Drop(x, "dispatch") EXCEPT !.thread = "none"])
  <2> DEFINE d == Drop(x, "dispatch")
             y == [d EXCEPT !.thread = "none"]
  <2>1. d \in Context /\ d.initiated = x.initiated /\ d.completed = x.completed
    BY DropFields
  <2> HIDE DEF d
  <2>2. y.initiated = d.initiated /\ y.completed = d.completed /\ y.thread = "none"
    BY <2>1, ContextType
  <2> HIDE DEF y
  <2> QED BY <1>5, <2>1, <2>2 DEF y, d, Proceeds, Progress, Continues
<1>6. ASSUME x.thread # "lookup" PROVE Proceeds(x, Replied(x))
  BY <1>1, <1>6, RepliedFields DEF Proceeds, Progress, Continues
<1>7. ASSUME x.thread = "handler" PROVE Proceeds(x, [x EXCEPT !.refs = @ \cup {"user"}])
  <2> DEFINE y == [x EXCEPT !.refs = @ \cup {"user"}]
  <2>1. y.initiated = x.initiated /\ y.completed = x.completed /\ y.thread = x.thread
    BY ContextType
  <2> HIDE DEF y
  <2> QED BY <1>7, <2>1 DEF y, Proceeds, Progress, Continues
<1>8. ASSUME NEW outcome \in {"pending", "complete", "failed"}, NEW c \in {"dispatch", "bad"},
             x.thread = "none"
      PROVE  Proceeds(x, [BodyChunk(Finished(x, "headers"), outcome) EXCEPT !.thread = c])
  <2> DEFINE d == BodyChunk(Finished(x, "headers"), outcome)
             y == [d EXCEPT !.thread = c]
  <2>1. d \in Context /\ d.initiated = x.initiated /\ d.completed = x.completed
    BY ChunkFields
  <2> HIDE DEF d
  <2>2. y.initiated = d.initiated /\ y.completed = d.completed /\ y.thread = c
    BY <2>1, ContextType
  <2> HIDE DEF y
  <2> QED BY <1>8, <2>1, <2>2 DEF y, d, Proceeds, Progress, Continues
<1> QED BY <1>2, <1>3, <1>4, <1>5, <1>6, <1>7, <1>8 DEF ReplyIfNotAlready

\* A send, or the cancellation, starts or fails; a send completes.
LEMMA CompletionAdvances ==
    ASSUME NEW x \in Context, NEW z \in Context, Keeps(x, z), z.ctx = x.ctx, x.completed = "none",
           NEW op, NEW started \in BOOLEAN, NEW canceled \in BOOLEAN
    PROVE  /\ Proceeds(x, CancelRequest(z, canceled))
           /\ Proceeds(x, StartSend(z, op, started, canceled))
           /\ x.initiated => Proceeds(x, TransmitBody(z))
<1>1. Proceeds(x, CancelRequest(z, canceled))
  BY CancelFields DEF Keeps, Proceeds, Progress, Continues
<1>2. Proceeds(x, StartSend(z, op, started, canceled))
  <2> DEFINE y == [z EXCEPT !.io = @ \cup {op}]
  <2>1. Keeps(z, y)
    BY ContextType DEF Keeps
  <2> HIDE DEF y
  <2> QED BY <1>1, <2>1, KeepsAdvances DEF StartSend, y, Keeps
<1>3. ASSUME x.initiated PROVE Proceeds(x, TransmitBody(z))
  <2> DEFINE y == [z EXCEPT !.completed = "ok"]
             r == [z EXCEPT !.reading = TRUE]
  <2>1. /\ y.completed = "ok" /\ y.initiated = z.initiated /\ y.thread = z.thread
        /\ y.ctx = z.ctx /\ y.refs = z.refs
    BY ContextType
  <2>2. Keeps(z, r)
    BY ContextType DEF Keeps
  <2> HIDE DEF y, r
  <2>4. Proceeds(x, r)
    BY <2>2, KeepsAdvances DEF Keeps
  <2> QED BY <1>3, <2>1, <2>4 DEF TransmitBody, y, r, Keeps, Proceeds, Progress, Continues
<1> QED BY <1>1, <1>2, <1>3

LEMMA StepsAdvance ==
    ASSUME ServiceInv, NEW q \in Requests,
           \/ BadRequest(q) \/ Dispatch(q) \/ ReplyForHandler(q) \/ DispatchReturn(q)
           \/ HandlerStep(q) \/ UserDrop(q)
           \/ ContextStep(q) /\ ~CountOut(q) /\ ~SetEvent(q)
    PROVE  Proceeds(req[q], req'[q])
<1> DEFINE x == req[q]
<1>1. x \in Context /\ ContextInv(x) /\ LookupInv(x)
      /\ \A y : Update(q, y) => req'[q] = y
  BY DEF ServiceInv, ServerInv, TypeOK, Update
<1>2. CASE BadRequest(q) \/ Dispatch(q) \/ ReplyForHandler(q) \/ DispatchReturn(q)
  BY <1>1, <1>2, ThreadAdvances DEF BadRequest, Dispatch, ReplyForHandler, DispatchReturn
<1>3. CASE HandlerStep(q)
  BY <1>1, <1>3, ThreadAdvances DEF HandlerStep, HandlerReply, HandlerKeep, UserReply, LookupInv
<1>4. CASE UserDrop(q) \/ ContentReady(q) \/ ContentRelease(q) \/ NoResponse(q)
           \/ SenderWait(q) \/ SenderAborted(q) \/ ResponseThrows(q) \/ BreakCycle(q)
  BY <1>1, <1>4, PlainStepsAdvance DEF UserDrop, ContentReady, ContentRelease, NoResponse,
     SenderWait, SenderAborted, ResponseThrows, BreakCycle
<1>5. ASSUME NEW outcome \in {"complete", "failed"}, BodyRead(q, outcome)
      PROVE  Proceeds(x, req'[q])
  BY <1>1, <1>5, PlainStepsAdvance DEF BodyRead, Finished
<1>6. ASSUME NEW outcome \in {"pending", "complete", "failed"}, NEW good \in BOOLEAN,
             HeadersRead(q, outcome, good)
      PROVE  Proceeds(x, req'[q])
  <2> DEFINE c == IF good THEN "dispatch" ELSE "bad"
             y == [BodyChunk(Finished(x, "headers"), outcome) EXCEPT !.thread = c]
  <2>2. c \in {"dispatch", "bad"} /\ x.thread = "none"
    BY <1>1, <1>6, PendingOperation DEF HeadersRead, Finished
  <2> HIDE DEF c
  <2> QED BY <1>1, <1>6, <2>2, ThreadAdvances DEF HeadersRead, Finished
<1>7. CASE CancelCompleted(q)
  <2> DEFINE y == [x EXCEPT !.io = @ \ {"cancel"}, !.completed = "failed"]
  <2>1. "cancel" \in x.io /\ req'[q] = y
    BY <1>1, <1>7 DEF CancelCompleted
  <2>3. /\ y.completed = "failed" /\ y.initiated = x.initiated /\ y.thread = x.thread
        /\ y.ctx = x.ctx /\ y.refs = x.refs
    BY <1>1, ContextType
  <2> HIDE DEF y
  <2> QED BY <1>1, <2>1, <2>3, PendingOperation DEF Proceeds, Progress, Continues
<1>8. CASE HeadersFailed(q)
  <2> DEFINE z == Finished(x, "headers")
             d == InitCallbacks(Replied(z))
             y == [d EXCEPT !.body = "complete"]
  <2>1. "headers" \in x.io /\ req'[q] = y
    BY <1>1, <1>8 DEF HeadersFailed, Finished, Refuse
  <2>2. x.thread = "none" /\ x.initiated \in BOOLEAN
    BY <1>1, <2>1, PendingOperation, ContextType
  <2>3. z \in Context /\ z.ctx = x.ctx /\ z.completed = x.completed /\ z.thread = x.thread
    BY <1>1, FinishedFields
  <2> HIDE DEF z
  <2>4. /\ d \in Context /\ d.ctx = z.ctx /\ d.completed = z.completed /\ d.thread = z.thread
        /\ d.initiated /\ d.initiated \in BOOLEAN
    BY <2>3, AnsweredFields, ContextType
  <2> HIDE DEF d
  <2>5. /\ y.ctx = d.ctx /\ y.completed = d.completed /\ y.thread = d.thread
        /\ y.initiated = d.initiated
    BY <2>4, ContextType
  <2> HIDE DEF y
  <2> QED BY <2>1, <2>2, <2>3, <2>4, <2>5 DEF Proceeds, Progress, Continues
<1>9. ASSUME NEW operation \in {"response", "chunk"}, NEW canceled \in BOOLEAN,
             Sent(q, operation) \/ SendFailed(q, operation, canceled)
      PROVE  Proceeds(x, req'[q])
  <2> DEFINE z == Finished(x, operation)
  <2>3. z \in Context /\ Keeps(x, z) /\ z.ctx = x.ctx
    BY <1>1, FinishedFields DEF Keeps
  <2>4. req'[q] = TransmitBody(z) \/ req'[q] = CancelRequest(z, canceled)
    BY <1>1, <1>9 DEF Sent, SendFailed, Finished
  <2> HIDE DEF z
  <2> QED BY <1>1, <1>9, <2>3, <2>4, PendingOperation, CompletionAdvances DEF Sent, SendFailed
<1>10. CASE ResponseStep(q)
  <2>1. PICK started \in BOOLEAN, canceled \in BOOLEAN :
          \/ \E sending \in Sendings, n \in Lefts :
                SendResponse(q, sending, n, started, canceled)
          \/ ChunkRead(q, started, canceled) \/ EncodingEnds(q, started, canceled)
    <3>1. /\ "none" \in Sendings /\ "chunks" \in Sendings /\ "encoding" \in Sendings
          /\ 0 \in Lefts /\ 1..MaxChunks \subseteq Lefts
      BY ServerAssumption DEF Sendings, Lefts
    <3> QED BY <1>10, <3>1 DEF ResponseStep, Works
  <2>2. ASSUME NEW z, NEW op, req'[q] = StartSend(z, op, started, canceled),
               z \in Context, Keeps(x, z), z.ctx = x.ctx, x.completed = "none"
        PROVE  Proceeds(x, req'[q])
    BY <1>1, <2>2, CompletionAdvances
  <2>3. ASSUME NEW sending \in Sendings, NEW n \in Lefts
        PROVE  \A z \in {[x EXCEPT !.sender = "done", !.sending = sending, !.left = n],
                         [x EXCEPT !.reading = FALSE, !.left = n, !.sending = sending],
                         [x EXCEPT !.reading = FALSE, !.sending = sending]} :
                    z \in Context /\ Keeps(x, z) /\ z.ctx = x.ctx
    <3> DEFINE Kept(z) == z \in Context /\ Keeps(x, z) /\ z.ctx = x.ctx
    <3>1. "done" \in Senders /\ x \in Context /\ FALSE \in BOOLEAN
      BY <1>1 DEF Senders
    <3> HIDE <1>1 DEF x
    <3>2. Kept([x EXCEPT !.sender = "done", !.sending = sending, !.left = n])
      BY <2>3, <3>1, ContextType DEF Keeps
    <3>4. Kept([x EXCEPT !.reading = FALSE, !.sending = sending])
      BY <2>3, <3>1, ContextType DEF Keeps
    <3> QED BY <2>3, <3>1, <3>2, <3>4, ContextType DEF Keeps
  <2>4. /\ MaxChunks \in Nat \ {0} /\ x.left \in Lefts /\ x.sending \in Sendings
        /\ "none" \in Sendings
    BY <1>1, ServerAssumption, ContextType DEF Sendings
  <2>5. ASSUME NEW sending \in Sendings, NEW n \in Lefts,
               SendResponse(q, sending, n, started, canceled)
        PROVE  Proceeds(x, req'[q])
    <3> DEFINE z == [x EXCEPT !.sender = "done", !.sending = sending, !.left = n]
    <3>2. req'[q] = StartSend(z, "response", started, canceled)
      BY <1>1, <2>5 DEF SendResponse
    <3>3. z \in Context /\ Keeps(x, z) /\ z.ctx = x.ctx
      BY <2>3
    <3> HIDE DEF z
    <3> QED BY <1>1, <2>2, <2>5, <3>2, <3>3 DEF SendResponse, ContextInv, Untouched, UseInv
  <2>6. CASE ChunkRead(q, started, canceled)
    <3> DEFINE n == x.left - 1
               sending == IF x.sending = "chunks" /\ x.left = 1 THEN "none" ELSE x.sending
               z == [x EXCEPT !.reading = FALSE, !.left = n, !.sending = sending]
    <3>1. n \in Lefts /\ sending \in Sendings
      BY <2>4, <2>6 DEF ChunkRead, Lefts
    <3>2. req'[q] = StartSend(z, "chunk", started, canceled)
      BY <1>1, <2>6 DEF ChunkRead
    <3> HIDE DEF n, sending
    <3>4. z \in Context /\ Keeps(x, z) /\ z.ctx = x.ctx
      BY <2>3, <3>1
    <3> HIDE DEF z
    <3> QED BY <1>1, <2>2, <2>6, <3>2, <3>4, PendingOperation DEF ChunkRead
  <2>7. CASE EncodingEnds(q, started, canceled)
    <3> DEFINE z == [x EXCEPT !.reading = FALSE, !.sending = "none"]
    <3>1. req'[q] = StartSend(z, "chunk", started, canceled)
      BY <1>1, <2>7 DEF EncodingEnds
    <3>3. z \in Context /\ Keeps(x, z) /\ z.ctx = x.ctx
      BY <2>3, <2>4
    <3> HIDE DEF z
    <3> QED BY <1>1, <2>2, <2>7, <3>1, <3>3, PendingOperation DEF EncodingEnds
  <2> QED BY <2>1, <2>5, <2>6, <2>7
<1>11. ASSUME NEW canceled \in BOOLEAN, ContentFailed(q, canceled)
       PROVE  Proceeds(x, req'[q])
  <2> DEFINE c == Drop(x, "context")
             z == [c EXCEPT !.proxy = "failed", !.content = "release"]
  <2>1. /\ x.content = "armed" /\ x.body = "failed" /\ req'[q] = CancelRequest(z, canceled)
    BY <1>1, <1>11 DEF ContentFailed
  <2>2. x.completed = "none" /\ "content" \in x.refs
    BY <1>1, <2>1 DEF ContextInv, Untouched, RefsInv, SequenceInv, UseInv
  <2>3. c \in Context /\ Keeps(x, c) /\ c.ctx = x.ctx
    BY <1>1, <2>2, DropFields DEF Keeps
  <2> HIDE DEF c
  <2>4. z \in Context /\ Keeps(c, z) /\ z.ctx = c.ctx
    BY <2>3, ContextType DEF Keeps, Proxies, Contents
  <2> HIDE DEF z
  <2> QED BY <1>1, <2>1, <2>2, <2>3, <2>4, CompletionAdvances DEF Keeps
<1>12. ASSUME NEW canceled \in BOOLEAN, StreamFails(q, canceled)
       PROVE  Proceeds(x, req'[q])
  <2> DEFINE z == [x EXCEPT !.reading = FALSE]
  <2>1. req'[q] = CancelRequest(z, canceled) /\ x.completed = "none"
    BY <1>1, <1>12, PendingOperation DEF StreamFails
  <2>2. z \in Context /\ Keeps(x, z) /\ z.ctx = x.ctx
    BY <1>1, ContextType DEF Keeps
  <2> HIDE DEF z
  <2> QED BY <1>1, <2>1, <2>2, CompletionAdvances
<1>13. CASE FailureStep(q)
  BY <1>8, <1>9, <1>11, <1>12, <1>13 DEF FailureStep
<1>14. CASE ContextStep(q) /\ ~CountOut(q) /\ ~SetEvent(q)
  BY <1>4, <1>5, <1>6, <1>7, <1>9, <1>10, <1>13, <1>14 DEF ContextStep, Works, BodyOutcomes
<1> QED BY <1>2, <1>3, <1>4, <1>14

\* A step of one request, as the service sees it: its phase moves, or it enters
\* the handler or leaves it.
Enters(x, y) ==
    /\ PhaseOf(y) = PhaseOf(x) /\ PhaseOf(x) \in {"open", "aborted"}
    /\ x.thread # "handler" /\ y.thread = "handler"
Departs(x, y) ==
    PhaseOf(y) = PhaseOf(x) /\ x.thread = "handler" /\ y.thread # "handler"
Born(x, y) ==
    /\ PhaseOf(x) = "unseen" /\ PhaseOf(y) \in {"open", "replied", "aborted"}
    /\ y.thread = "handler" <=> x.thread = "handler"
ServiceStep(x, y) ==
    \/ PhaseStep(x, y) /\ (y.thread = "handler" <=> x.thread = "handler")
    \/ Born(x, y) \/ Departs(x, y)
    \/ Enters(x, y) /\ closer = "open"

Changes(q) ==
    /\ \A r \in Requests \ {q} : req'[r] = req[r]
    /\ LookupInv(req'[q])
    /\ UNCHANGED gates
    /\ ServiceStep(req[q], req'[q])

\* Each step of the server changes at most one request, as the service allows.
LEMMA LookupChanges ==
    ASSUME ServiceInv, NEW q \in Requests, Lookup(q) \/ HandlerReturn(q) \/ HandlerThrow(q)
    PROVE  Changes(q)
<1> DEFINE x == req[q]
<1>1. /\ x \in Context /\ ContextInv(x) /\ LookupInv(x) /\ req \in [Requests -> Context]
      /\ \A y : Update(q, y) => req'[q] = y
      /\ \A y : Update(q, y) => \A r \in Requests \ {q} : req'[r] = req[r]
      /\ \A y : Update(q, y) => UNCHANGED gates
  BY DEF ServiceInv, ServerInv, TypeOK, Update
<1>2. /\ \A r \in Requests \ {q} : req'[r] = req[r]
      /\ UNCHANGED gates
  BY <1>1 DEF Lookup, HandlerReturn, HandlerThrow
<1>3. ASSUME NEW c \in {"handler", "return", "thrown"}
      PROVE  LET y == [x EXCEPT !.thread = c] IN y.thread = c /\ PhaseOf(y) = PhaseOf(x)
  <2> DEFINE y == [x EXCEPT !.thread = c]
  <2>1. y.thread = c /\ y.ctx = x.ctx /\ y.completed = x.completed /\ y.initiated = x.initiated
    BY <1>1, <1>3, ContextType
  <2> HIDE DEF y
  <2>2. PhaseOf(y) = PhaseOf(x)
    BY <2>1, Zenon DEF PhaseOf
  <2> QED BY <2>1, <2>2 DEF y
<1>4. CASE Lookup(q) /\ registered
  <2>3. PhaseOf(x) \in {"open", "aborted"}
    BY <1>1, <1>4, PhaseCases DEF LookupInv, ContextInv, Untouched, RefsInv, LifetimeInv, Lookup,
       ServiceInv
  <2> QED
    BY <1>1, <1>2, <1>3, <1>4, <2>3 DEF Changes, ServiceStep, Enters, LookupInv, Lookup,
       ServiceInv
<1>5. CASE Lookup(q) /\ ~registered
  <2> DEFINE y == [Replied(x) EXCEPT !.thread = "return"]
  <2>1. req'[q] = y /\ x.thread = "lookup"
    BY <1>1, <1>5 DEF Lookup
  <2>2. Proceeds(x, y) /\ GoesOn(x, y)
    BY <1>1, <2>1, ThreadAdvances, ReplyAndReturnGoesOn
  <2>3. y.thread = "return"
    BY <1>1, RepliedFields, ContextType
  <2> HIDE DEF y
  <2> QED
    BY <1>1, <1>2, <2>1, <2>2, <2>3, AdvancesIsPhaseStep DEF Changes, ServiceStep, LookupInv,
       Proceeds
<1>6. CASE HandlerReturn(q) \/ HandlerThrow(q)
  <2>1. PICK c \in {"return", "thrown"} : req'[q] = [x EXCEPT !.thread = c]
    BY <1>1, <1>6 DEF HandlerReturn, HandlerThrow
  <2> QED
    BY <1>2, <1>3, <1>6, <2>1 DEF Changes, ServiceStep, Departs, LookupInv, HandlerReturn,
       HandlerThrow
<1> QED BY <1>4, <1>5, <1>6

LEMMA ContextChanges ==
    ASSUME ServiceInv, NEW q \in Requests,
           \/ BadRequest(q) \/ Dispatch(q) \/ ReplyForHandler(q) \/ DispatchReturn(q)
           \/ HandlerStep(q) \/ UserDrop(q)
           \/ ContextStep(q) /\ ~CountOut(q) /\ ~SetEvent(q)
    PROVE  Changes(q)
<1> DEFINE x == req[q]
<1>1. x \in Context /\ ContextInv(x) /\ LookupInv(x) /\ req \in [Requests -> Context] /\ ServerInv
  BY DEF ServiceInv, ServerInv, TypeOK
<1>3. PICK y : req' = [req EXCEPT ![q] = y] /\ GoesOn(x, y)
  BY <1>1, DispatchMoves, ContextMoves DEF Moves, DispatchStep
<1> QED
  BY <1>1, <1>3, DispatchMoves, ContextMoves, StepsAdvance, AdvancesIsPhaseStep DEF Changes,
     ServiceStep, Proceeds, Continues, LookupInv, ContextInv, Untouched, RefsInv, DispatchStep

LEMMA DestructorChanges ==
    ASSUME ServiceInv, NEW q \in Requests, CountOut(q) \/ SetEvent(q)
    PROVE  Changes(q)
<1> DEFINE x == req[q]
<1>1. /\ x \in Context /\ ContextInv(x) /\ LookupInv(x) /\ req \in [Requests -> Context]
      /\ Dead(x) /\ UNCHANGED gates
  BY DEF ServiceInv, ServerInv, TypeOK, CountOut, SetEvent, Dead
<1>2. PICK c \in {"signal", "gone"} : req' = [req EXCEPT ![q].ctx = c]
  BY DEF CountOut, SetEvent
<1> DEFINE y == [x EXCEPT !.ctx = c]
<1>4. y.ctx = c /\ y.thread = x.thread /\ y.initiated = x.initiated /\ y.refs = x.refs
  BY <1>1, ContextType
<1> HIDE DEF y
<1> QED BY <1>1, <1>2, <1>4 DEF Changes, ServiceStep, PhaseStep, LookupInv, Dead, PhaseOf

LEMMA ReceiverChanges ==
    ASSUME ServiceInv, CountIn \/ LoopRelease \/ \E started \in BOOLEAN : StartRequest(started)
    PROVE  \E q \in Requests : Changes(q)
<1>1. /\ receiver.q \in Requests /\ req \in [Requests -> Context] /\ UNCHANGED gates /\ ServerInv
      /\ \A q \in Requests : ContextInv(req[q]) /\ LookupInv(req[q])
  BY DEF ServiceInv, ServerInv, TypeOK, LoopInv, Receiver, CountIn, LoopRelease, StartRequest
<1>2. PICK q \in Requests : q = receiver.q
  BY <1>1
<1> DEFINE x == req[q]
<1>3. x \in Context /\ ContextInv(x) /\ LookupInv(x)
  BY <1>1
<1>4. CASE CountIn
  <2> DEFINE y == [x EXCEPT !.ctx = "made"]
  <2>2. y.ctx = "made" /\ y.thread = x.thread /\ y.initiated = x.initiated /\ y.refs = x.refs
    BY <1>3, ContextType
  <2> HIDE DEF y
  <2> QED
    BY <1>1, <1>2, <1>3, <1>4, <2>2 DEF Changes, ServiceStep, PhaseStep, LookupInv, PhaseOf,
       CountIn, ServiceInv, ServerInv, LoopInv
<1>5. CASE LoopRelease
  <2> DEFINE y == Drop(x, "loop")
  <2>1. req' = [req EXCEPT ![q] = y] /\ ~Unstarted(x)
    BY <1>2, <1>5 DEF LoopRelease, ServiceInv, ServerInv, LoopInv
  <2>2. Proceeds(x, y) /\ GoesOn(x, y)
    BY <1>3, <2>1, PlainStepsAdvance, DropGoesOn
  <2>3. y.thread = x.thread /\ y.initiated = x.initiated /\ y.refs \subseteq x.refs
    BY <1>3, DropFields
  <2> HIDE DEF y
  <2> QED
    BY <1>1, <1>3, <2>1, <2>2, <2>3, AdvancesIsPhaseStep DEF Changes, ServiceStep, LookupInv,
       Proceeds
<1>6. ASSUME NEW started \in BOOLEAN, StartRequest(started)
      PROVE  Changes(q)
  <2> DEFINE s == [x EXCEPT !.ctx = "live", !.refs = {"loop", "context"}]
             z == [s EXCEPT !.io = {"headers"}]
             d == InitCallbacks(Replied(s))
             r == [d EXCEPT !.body = "complete"]
  <2>1. /\ req'[q] = IF started THEN z ELSE r
        /\ \A p \in Requests \ {q} : req'[p] = req[p]
    BY <1>1, <1>2, <1>6 DEF StartRequest, Refuse
  <2>2. x.ctx = "made" /\ Untouched(x)
    BY <1>2, <1>3, <1>6 DEF StartRequest, ServiceInv, ServerInv, LoopInv, ContextInv, Unstarted
  <2>3. /\ s \in Context /\ s.ctx = "live" /\ s.thread = "none" /\ ~s.initiated
        /\ s.completed = "none"
    BY <1>3, <2>2, ContextType DEF Untouched, Ctxs, RefSets
  <2> HIDE DEF s
  <2>4. z.ctx = "live" /\ z.thread = "none" /\ ~z.initiated /\ z.completed = "none"
    BY <2>3, ContextType
  <2>5. d \in Context /\ d.ctx = "live" /\ d.thread = "none" /\ d.initiated /\ d.completed = "none"
    BY <2>3, AnsweredFields
  <2> HIDE DEF z, d
  <2>6. r.ctx = "live" /\ r.thread = "none" /\ r.initiated /\ r.completed = "none"
    BY <2>5, ContextType
  <2> HIDE DEF r
  <2> QED
    BY <1>1, <2>1, <2>2, <2>4, <2>6 DEF Changes, ServiceStep, LookupInv, Born, Untouched, PhaseOf
<1> QED BY <1>4, <1>5, <1>6

\* The state of the service that a state of the server stands for.
phaseBar == [q \in Requests |-> PhaseOf(req[q])]
runningBar == {q \in Requests : req[q].thread = "handler"}
gateBar == CASE closer = "open" -> "open"
             [] closer = "quiesce" -> "draining"
             [] OTHER -> "closed"

\* The actions of the service, of that state.
Move(q, to) ==
    /\ phaseBar' = [phaseBar EXCEPT ![q] = to]
    /\ runningBar' = runningBar /\ gateBar' = gateBar
EnterBar(q) ==
    /\ gateBar = "open"
    /\ phaseBar[q] \in {"open", "aborted"} /\ q \notin runningBar
    /\ runningBar' = runningBar \cup {q}
    /\ phaseBar' = phaseBar /\ gateBar' = gateBar
LeaveBar(q) ==
    /\ q \in runningBar
    /\ runningBar' = runningBar \ {q}
    /\ phaseBar' = phaseBar /\ gateBar' = gateBar

LEMMA ServiceActions ==
    /\ \A q : phaseBar[q] = "unseen" /\ Move(q, "open") => Service!Receive(q)
    /\ \A q : phaseBar[q] = "unseen" /\ Move(q, "replied") => Service!Receive(q)
    /\ \A q : phaseBar[q] = "unseen" /\ Move(q, "aborted") => Service!Receive(q)
    /\ \A q : phaseBar[q] = "open" /\ Move(q, "replied") => Service!Reply(q)
    /\ \A q : phaseBar[q] = "replied" /\ Move(q, "sent") => Service!Send(q)
    /\ \A q : phaseBar[q] \in {"open", "replied"} /\ Move(q, "aborted") => Service!Abort(q)
    /\ \A q : /\ phaseBar[q] \in {"open", "sent", "aborted"} /\ Move(q, "released")
              /\ phaseBar[q] = "open" => q \notin runningBar
              => Service!Release(q)
    /\ \A q : EnterBar(q) => Service!Enter(q)
    /\ \A q : LeaveBar(q) => Service!Leave(q)
    /\ gateBar = "open" /\ gateBar' = "draining" /\ phaseBar' = phaseBar /\ runningBar' = runningBar
       => Service!Drain
    /\ gateBar = "draining" /\ runningBar = {} /\ gateBar' = "closed" /\ phaseBar' = phaseBar
       /\ runningBar' = runningBar => Service!Close
    /\ phaseBar' = phaseBar /\ runningBar' = runningBar /\ gateBar' = gateBar
       => UNCHANGED Service!svars
<1> USE DEF phaseBar, runningBar, gateBar, Move, Service!Move
<1>1. \A q : phaseBar[q] = "unseen" /\ Move(q, "open") => Service!Receive(q)
  BY Zenon DEF Service!Receive
<1>2. \A q : phaseBar[q] = "unseen" /\ Move(q, "replied") => Service!Receive(q)
  BY Zenon DEF Service!Receive
<1>3. \A q : phaseBar[q] = "unseen" /\ Move(q, "aborted") => Service!Receive(q)
  BY Zenon DEF Service!Receive
<1>4. \A q : phaseBar[q] = "open" /\ Move(q, "replied") => Service!Reply(q)
  BY Zenon DEF Service!Reply
<1>5. \A q : phaseBar[q] = "replied" /\ Move(q, "sent") => Service!Send(q)
  BY Zenon DEF Service!Send
<1>6. \A q : phaseBar[q] \in {"open", "replied"} /\ Move(q, "aborted") => Service!Abort(q)
  BY Zenon DEF Service!Abort
<1>7. \A q : /\ phaseBar[q] \in {"open", "sent", "aborted"} /\ Move(q, "released")
             /\ phaseBar[q] = "open" => q \notin runningBar
             => Service!Release(q)
  BY Zenon DEF Service!Release
<1>8. \A q : EnterBar(q) => Service!Enter(q)
  BY Zenon DEF Service!Enter, EnterBar
<1>9. \A q : LeaveBar(q) => Service!Leave(q)
  BY Zenon DEF Service!Leave, LeaveBar
<1>10. gateBar = "open" /\ gateBar' = "draining" /\ phaseBar' = phaseBar
       /\ runningBar' = runningBar => Service!Drain
  BY Zenon DEF Service!Drain
<1>11. gateBar = "draining" /\ runningBar = {} /\ gateBar' = "closed" /\ phaseBar' = phaseBar
       /\ runningBar' = runningBar => Service!Close
  BY Zenon DEF Service!Close
<1>12. phaseBar' = phaseBar /\ runningBar' = runningBar /\ gateBar' = gateBar
       => UNCHANGED Service!svars
  BY Zenon DEF Service!svars
<1> HIDE DEF phaseBar, runningBar, gateBar, Move
<1> QED BY <1>1, <1>2, <1>3, <1>4, <1>5, <1>6, <1>7, <1>8, <1>9, <1>10, <1>11, <1>12

LEMMA ServiceMoves ==
    ASSUME NEW q \in Requests, Changes(q)
    PROVE  [Service!Next]_(Service!svars)
<1> DEFINE x == req[q]
           y == req'[q]
           p == PhaseOf(x)
           r == PhaseOf(y)
<1>1. /\ \A s \in Requests \ {q} : req'[s] = req[s]
      /\ closer' = closer /\ ServiceStep(x, y)
  BY DEF Changes, gates
<1>2. /\ phaseBar[q] = p /\ phaseBar' = [phaseBar EXCEPT ![q] = r]
      /\ p = r => phaseBar' = phaseBar
  BY <1>1 DEF phaseBar
<1>3. gateBar' = gateBar /\ (closer = "open" => gateBar = "open")
  BY <1>1, Zenon DEF gateBar
<1>4. q \in runningBar <=> x.thread = "handler"
  BY DEF runningBar
<1>5. /\ (y.thread = "handler" <=> x.thread = "handler") => runningBar' = runningBar
      /\ y.thread = "handler" => runningBar' = runningBar \cup {q}
      /\ y.thread # "handler" => runningBar' = runningBar \ {q}
  BY <1>1 DEF runningBar
<1> HIDE DEF x, y, p, r
<1>6. CASE Enters(x, y) /\ closer = "open"
  BY <1>2, <1>3, <1>4, <1>5, <1>6, ServiceActions DEF Enters, EnterBar, Service!Next, p, r
<1>7. CASE Departs(x, y)
  BY <1>2, <1>3, <1>4, <1>5, <1>7, ServiceActions DEF Departs, LeaveBar, Service!Next, p, r
<1>8. CASE Born(x, y)
  BY <1>2, <1>3, <1>5, <1>8, ServiceActions DEF Born, Move, Service!Next, p, r
<1>9. CASE PhaseStep(x, y) /\ (y.thread = "handler" <=> x.thread = "handler")
  BY <1>2, <1>3, <1>4, <1>5, <1>9, ServiceActions DEF PhaseStep, Move, Service!Next, p, r
<1> QED BY <1>1, <1>6, <1>7, <1>8, <1>9 DEF ServiceStep

LEMMA CloserMoves ==
    ASSUME ServiceInv, Unregister \/ CloserStep
    PROVE  [Service!Next]_(Service!svars) /\ (registered' <=> closer' = "open") /\ req' = req
<1>1. req' = req /\ phaseBar' = phaseBar /\ runningBar' = runningBar
  BY DEF Unregister, CloserStep, Quiesce, CloseUrlGroup, Shutdown, WaitForReceiver, WaitForZero,
     CloseQueue, phaseBar, runningBar
<1>2. registered' <=> closer' = "open"
  BY DEF ServiceInv, Unregister, CloserStep, Quiesce, CloseUrlGroup, Shutdown, WaitForReceiver,
     WaitForZero, CloseQueue
<1>3. /\ closer = "open" => gateBar = "open"
      /\ closer = "quiesce" => gateBar = "draining"
      /\ closer \notin {"open", "quiesce"} => gateBar = "closed"
      /\ closer' = "quiesce" => gateBar' = "draining"
      /\ closer' \notin {"open", "quiesce"} => gateBar' = "closed"
  BY Zenon DEF gateBar
<1>4. CASE Unregister
  BY <1>1, <1>3, <1>4, ServiceActions DEF Unregister, Service!Next
<1>5. CASE Quiesce
  BY <1>1, <1>2, <1>3, <1>5, ServiceActions DEF Service!Next, Quiesce, runningBar
<1>6. CASE Shutdown \/ WaitForReceiver \/ WaitForZero \/ CloseQueue
           \/ \E last \in BOOLEAN : CloseUrlGroup(last)
  BY <1>1, <1>2, <1>3, <1>6, ServiceActions DEF Shutdown, WaitForReceiver, WaitForZero,
     CloseQueue, CloseUrlGroup
<1> QED BY <1>1, <1>2, <1>4, <1>5, <1>6 DEF CloserStep

LEMMA ServiceStepKeeps ==
    ASSUME ServiceInv, ServerInv', [Next]_vars
    PROVE  ServiceInv' /\ [Service!Next]_(Service!svars)
<1>1. ASSUME req' = req, UNCHANGED gates
      PROVE  ServiceInv' /\ [Service!Next]_(Service!svars)
  <2>1. closer' = closer /\ registered' = registered
    BY <1>1 DEF gates
  <2>3. gateBar' = gateBar
    BY <2>1, Zenon DEF gateBar
  <2> QED BY <1>1, <2>1, <2>3, ServiceActions DEF ServiceInv, phaseBar, runningBar
<1>2. ASSUME NEW q \in Requests, Changes(q)
      PROVE  ServiceInv' /\ [Service!Next]_(Service!svars)
  BY <1>2, ServiceMoves DEF ServiceInv, Changes, gates
<1>3. CASE UNCHANGED vars
  BY <1>1, <1>3 DEF vars
<1>4. ASSUME NEW q \in Requests,
             DispatchStep(q) \/ HandlerStep(q) \/ UserDrop(q) \/ ContextStep(q)
      PROVE  ServiceInv' /\ [Service!Next]_(Service!svars)
  BY <1>2, <1>4, LookupChanges, ContextChanges, DestructorChanges DEF DispatchStep
<1>5. CASE ReceiverStep
  <2>1. CASE ResetEvent \/ LoopDropped
    BY <1>1, <2>1 DEF ResetEvent, LoopDropped
  <2>2. CASE CountIn \/ LoopRelease \/ \E started \in BOOLEAN : StartRequest(started)
    BY <1>2, <2>2, ReceiverChanges
  <2> QED BY <1>5, <2>1, <2>2 DEF ReceiverStep, Works
<1>6. CASE ReceiveFails \/ \E q \in Requests : Receive(q)
  BY <1>1, <1>6 DEF ReceiveFails, Receive
<1>7. CASE Unregister \/ CloserStep
  BY <1>7, CloserMoves DEF ServiceInv
<1> QED BY <1>3, <1>4, <1>5, <1>6, <1>7 DEF Next

\* The server keeps the promise of the listener: a request that was replied to is
\* let go only after its response was sent or the request aborted, a response is
\* sent only if there is one, and once the listener is closed its request
\* handler runs no more.
THEOREM ServerImplementsService == Spec => ImplementsService
<1>1. Init => Service!Init /\ (ServerInv => ServiceInv)
  <2> SUFFICES ASSUME Init PROVE Service!Init /\ (ServerInv => ServiceInv)
    OBVIOUS
  <2>1. \A q \in Requests : req[q] = Unseen
    BY DEF Init
  <2>2. PhaseOf(Unseen) = "unseen"
    BY DEF PhaseOf, Unseen
  <2>3. phaseBar = [q \in Requests |-> "unseen"]
    BY <2>1, <2>2 DEF phaseBar
  <2>4. runningBar = {}
    BY <2>1 DEF runningBar, Unseen
  <2>5. gateBar = "open"
    BY Zenon DEF Init, gateBar
  <2>6. Service!Init
    BY <2>3, <2>4, <2>5, Zenon DEF phaseBar, runningBar, gateBar, Service!Init
  <2>7. ServerInv => ServiceInv
    BY <2>1 DEF Init, ServiceInv, LookupInv, Unseen
  <2> QED BY <2>6, <2>7
<1>2. ServiceInv /\ ServerInv' /\ [Next]_vars => ServiceInv' /\ [Service!Next]_(Service!svars)
  BY ServiceStepKeeps
<1> QED BY <1>1, <1>2, ServerInvariant, PTL DEF Spec, ImplementsService, Service!Spec
=============================================================================
