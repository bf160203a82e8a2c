------------------------- MODULE HttpClients_proofs --------------------------
(****************************************************************************)
(* Theorems about the client over asio and about both clients side by side, *)
(* for every number of requests, contexts, connections, pieces and chunks   *)
(* and every user that the constants admit.                                 *)
(*                                                                          *)
(* The first part is about HttpClient: its pool of connections is sound     *)
(* (PoolSound), and a failure is told for what it is (FailureTold).         *)
(* PoolSound says what the pool holds, and is not inductive: a context that *)
(* ends with a connection to keep must have connected it, which depends on  *)
(* where the context is in its flow (ContextsSound); and the end of a       *)
(* request moves contexts of the queue on, which has to hold waiting        *)
(* contexts only, each of them once (QueueSound).                           *)
(*                                                                          *)
(* The second part is about what becomes of requests.  ServeInv rests on    *)
(* the invariants PoolInv and TellInv of the first: where the context of a  *)
(* request is in its flow says what the request was told and what is left   *)
(* of its body.  WinInv is about the client over WinHTTP: the one operation *)
(* that is pending says what the context has sent and read.  In             *)
(* MCHttpClients one client steps and the other stands still.               *)
(****************************************************************************)
EXTENDS MCHttpClients, SequenceTheorems, FiniteSetTheorems, TLAPS

\* What the socket of a connection may be, and what it may be once connected.
SocketStates == {"unused", "new", "connecting", "open", "dead", "closed"}
Connected3 == {"open", "dead", "closed"}

\* The points of the flow that come after the connection was made.
Joined == Writes \cup Reads \cup {"handshake", "getn", "store"}

PoolEntry == [epoch : Nat, conn : Conns]

\* The types of the fields, with the addresses that are left not bounded.
ConnNames == Conns \cup {"none"}
Clocks == {"created", "started", "timedout"}
Alarms == {"idle", "armed", "rung"}
Lengths == {"zero", "sized", "chunked", "eof"}
AnyContext ==
    [at : Points, req : 0..N, conn : ConnNames, result : Results, clock : Clocks,
     alarm : Alarms, listening : BOOLEAN, left : Int, uploaded : BOOLEAN,
     downloaded : BOOLEAN, length : Lengths, resent : BOOLEAN]

PoolTypes ==
    /\ client \in AllClients
    /\ issued \in 0..N
    /\ ctx \in [Contexts -> AnyContext]
    /\ sock \in [Conns -> SocketStates]
    /\ keep \subseteq Conns /\ reused \subseteq Conns
    /\ pool \in Seq(PoolEntry) /\ epoch \in Nat /\ prev \in Nat /\ ticking \in BOOLEAN
    /\ queue \in Seq(Contexts)

\* The connection of context x has been connected once: x is past that point, or
\* it ends with a connection to be kept, or it has one that was in the pool.
Needs(x, kept, again) ==
    \/ x.at \in Joined
    \/ x.at \in Connecting /\ x.result = "ok"
    \/ x.at = "done" /\ x.conn \in kept
    \/ x.at \notin Connecting /\ x.conn \in again

ContextsSound ==
    \A c \in Live :
        /\ ctx[c].conn \in Conns
        /\ Needs(ctx[c], keep, reused) => sock[ctx[c].conn] \in Connected3

\* A context that is not in use hears no cancellation, and a connection that is
\* not in use is new when it is taken.
UnusedSound ==
    /\ \A c \in Contexts : ctx[c].at = "unused" => ~ctx[c].listening
    /\ \A k \in reused : sock[k] # "unused"

QueueSound ==
    /\ \A i \in DOMAIN queue : ctx[queue[i]].at = "queued"
    /\ \A i, j \in DOMAIN queue : i # j => queue[i] # queue[j]

PoolInv == PoolTypes /\ PoolSound /\ ContextsSound /\ UnusedSound /\ QueueSound

-----------------------------------------------------------------------------
(* Contexts, and what the operators of HttpClient make of them.               *)

LEMMA ContextFields ==
    ASSUME NEW x \in AnyContext
    PROVE  /\ x.at \in Points /\ x.req \in 0..N /\ x.conn \in ConnNames
           /\ x.result \in Results /\ x.clock \in Clocks /\ x.alarm \in Alarms
           /\ x.listening \in BOOLEAN /\ x.left \in Int /\ x.uploaded \in BOOLEAN
           /\ x.downloaded \in BOOLEAN /\ x.length \in Lengths /\ x.resent \in BOOLEAN
  BY DEF AnyContext

LEMMA PointKinds ==
    /\ {"unused", "queued", "send", "done"} \cap (Joined \cup Connecting) = {}
    /\ Resolving \cap (Joined \cup Connecting) = {}
    /\ Joined \cap Connecting = {}
    /\ "unused" \notin OnSocket \cup Resolving \cup Joined
    /\ "queued" \notin OnSocket \cup Resolving \cup Joined
    /\ OnSocket \subseteq Joined \cup Connecting
    /\ OnSocket \cup Resolving \cup Joined \cup {"unused", "queued", "send", "done"} \subseteq Points
    /\ Writes \cup Reads \cup {"handshake", "getn", "store"} \subseteq Joined
  BY DEF Joined, Connecting, OnSocket, Resolving, Points, Writes, Reads

LEMMA PoolEntries ==
    ASSUME pool \in Seq(PoolEntry)
    PROVE  /\ \A i \in DOMAIN pool : pool[i].conn \in Conns /\ pool[i].epoch \in Nat
           /\ PooledConns \subseteq Conns
           /\ DOMAIN pool = 1..Len(pool) /\ Len(pool) \in Nat
<1>1. \A i \in DOMAIN pool : pool[i] \in PoolEntry
  OBVIOUS
<1> QED BY <1>1 DEF PooledConns, PoolEntry

\* A step that leaves every context its connection, and the pool what it has,
\* keeps the invariant: sockets are closed or connected and not given up.
LEMMA SameConnections ==
    ASSUME PoolInv,
           ctx' \in [Contexts -> AnyContext],
           \A d \in Contexts :
               /\ ctx'[d].conn = ctx[d].conn
               /\ ctx'[d].at = "unused" <=> ctx[d].at = "unused"
               /\ ctx[d].at = "unused" => ctx'[d].listening = ctx[d].listening,
           sock' \in [Conns -> SocketStates],
           \A k \in Conns : sock'[k] = "unused" <=> sock[k] = "unused",
           \A k \in PooledConns : sock[k] \in Connected3 => sock'[k] \in Connected3,
           keep' \subseteq Conns,
           \A k \in PooledConns : k \in keep => k \in keep',
           \A d \in Live : Needs(ctx'[d], keep', reused) => sock'[ctx[d].conn] \in Connected3,
           client' = client, issued' = issued, reused' = reused, pool' = pool,
           epoch' = epoch, prev' = prev, ticking' = ticking,
           queue' \in Seq(Contexts), QueueSound'
    PROVE  PoolInv'
<1>2. Live' = Live /\ PooledConns' = PooledConns
  BY DEF Live, PooledConns
<1>4. \A d \in Live : ctx'[d].conn = ctx[d].conn /\ ctx[d].conn \in Conns
  BY PoolEntries DEF PoolInv, ContextsSound, Live, PoolTypes
<1>5. PoolSound'
  <2>4. ({k \in Conns : sock[k] # "unused"} = PooledConns \cup {ctx[c].conn : c \in Live})'
    <3>1. {k \in Conns : sock'[k] # "unused"} = {k \in Conns : sock[k] # "unused"}
      OBVIOUS
    <3> QED BY <1>2, <1>4, <3>1 DEF PoolInv, PoolSound
  <2>5. (pool # <<>> => ticking /\ Last(pool).epoch <= epoch)'
    BY DEF PoolInv, PoolSound, Last
  <2> QED
    BY <1>2, <1>4, <2>4, <2>5, PoolEntries DEF PoolSound, PoolInv, Connected3, Live, PoolTypes
<1> QED BY <1>2, <1>4, <1>5 DEF PoolInv, UnusedSound, PoolTypes, ContextsSound

\* What the step of a live context c with the connection k may do: the context
\* goes on as y with its connection, whose socket becomes s.
GoesOn(c, y, s) ==
    LET k == ctx[c].conn IN
    /\ y \in AnyContext /\ y.at # "unused" /\ y.conn = k
    /\ ctx[c].at = "queued" => y.at = "queued"
    /\ s \in SocketStates \ {"unused"}
    /\ sock' = [sock EXCEPT ![k] = s]
    /\ keep' \subseteq Conns /\ keep' \ {k} = keep \ {k}
    /\ Needs(y, keep', reused) => s \in Connected3
    /\ UNCHANGED <<client, issued, reused, pool, epoch, prev, ticking>>

LEMMA OneGoesOn ==
    ASSUME PoolInv, NEW c \in Live, NEW y, NEW s, GoesOn(c, y, s),
           ctx' = [ctx EXCEPT ![c] = y], queue' = queue
    PROVE  PoolInv'
<1> DEFINE k == ctx[c].conn
<1>1. c \in Contexts /\ k \in Conns /\ ctx[c].at # "unused" /\ ctx \in [Contexts -> AnyContext]
      /\ sock \in [Conns -> SocketStates] /\ queue \in Seq(Contexts)
  BY DEF Live, PoolInv, ContextsSound, PoolTypes
<1>2. /\ y \in AnyContext /\ y.at # "unused" /\ y.conn = k
      /\ ctx[c].at = "queued" => y.at = "queued"
      /\ s \in SocketStates /\ s # "unused"
      /\ sock' = [sock EXCEPT ![k] = s]
      /\ keep' \subseteq Conns /\ keep' \ {k} = keep \ {k}
      /\ Needs(y, keep', reused) => s \in Connected3
  BY DEF GoesOn
<1>5. ctx' \in [Contexts -> AnyContext] /\ ctx'[c] = y
      /\ \A d \in Contexts : d # c => ctx'[d] = ctx[d]
  BY <1>1, <1>2
<1>6. sock' \in [Conns -> SocketStates] /\ sock'[k] = s
      /\ \A j \in Conns : j # k => sock'[j] = sock[j]
  BY <1>1, <1>2
<1>7. \A d \in Live : Needs(ctx'[d], keep', reused) => sock'[ctx[d].conn] \in Connected3
  <2> SUFFICES ASSUME NEW d \in Live, Needs(ctx'[d], keep', reused)
               PROVE  sock'[ctx[d].conn] \in Connected3
    OBVIOUS
  <2>1. CASE d = c
    BY <2>1, <1>2, <1>5, <1>6
  <2>2. CASE d # c
    BY <1>2, <1>5, <1>6, <2>2 DEF PoolInv, ContextsSound, PoolSound, Live, Needs
  <2> QED BY <2>1, <2>2
<1>10. \A d \in Contexts :
        /\ ctx'[d].conn = ctx[d].conn
        /\ ctx'[d].at = "unused" <=> ctx[d].at = "unused"
        /\ ctx[d].at = "unused" => ctx'[d].listening = ctx[d].listening
  BY <1>1, <1>2, <1>5
<1> HIDE DEF k
<1> QED
  BY <1>1, <1>2, <1>5, <1>6, <1>7, <1>10, PoolEntries, SameConnections DEF PoolInv, PoolTypes,
     PoolSound, GoesOn, QueueSound

\* finish() leaves the waiting contexts that remain in the queue waiting, and
\* moves those it takes on: c is not among them.
LEMMA OneFinishes ==
    ASSUME PoolInv, NEW c \in Live, NEW y, NEW s, GoesOn(c, y, s), ctx[c].at # "queued",
           NEW r, NEW n \in Nat, Finish(r, n, [ctx EXCEPT ![c] = y])
    PROVE  PoolInv'
<1> DEFINE k == ctx[c].conn
           popped == {Popped(n)[i] : i \in DOMAIN Popped(n)}
           cs == [ctx EXCEPT ![c] = y]
           m == Len(Popped(n))
<1>1. c \in Contexts /\ k \in Conns /\ ctx[c].at # "unused" /\ ctx \in [Contexts -> AnyContext]
      /\ sock \in [Conns -> SocketStates] /\ queue \in Seq(Contexts)
  BY DEF Live, PoolInv, ContextsSound, PoolTypes
<1>2. /\ y \in AnyContext /\ y.at # "unused" /\ y.conn = k
      /\ s \in SocketStates /\ s # "unused"
      /\ sock' = [sock EXCEPT ![k] = s]
      /\ keep' \subseteq Conns /\ keep' \ {k} = keep \ {k}
      /\ Needs(y, keep', reused) => s \in Connected3
  BY DEF GoesOn
<1>5. /\ m \in Nat /\ m <= Len(queue)
      /\ DOMAIN Popped(n) = 1..m
      /\ \A i \in 1..m : Popped(n)[i] = queue[i]
  <2>1. CASE client.order
    <3> DEFINE l == IF n < Len(queue) THEN n ELSE Len(queue)
    <3>1. l \in Nat /\ l <= Len(queue) /\ Len(queue) \in Nat
      BY <1>1
    <3> HIDE DEF l
    <3> QED BY <1>1, <2>1, <3>1 DEF Popped
  <2>2. CASE ~client.order
    BY <2>2, <1>1 DEF Popped
  <2> QED BY <2>1, <2>2
<1>6. popped = {queue[i] : i \in 1..m}
  BY <1>5
<1>7. /\ queue' = SubSeq(queue, m + 1, Len(queue))
      /\ ctx' = [d \in Contexts |-> IF d \in popped THEN [cs[d] EXCEPT !.at = "send"] ELSE cs[d]]
  BY DEF Finish
<1> HIDE DEF m
<1>8. /\ queue' \in Seq(Contexts) /\ Len(queue') = Len(queue) - m
      /\ DOMAIN queue' = 1..(Len(queue) - m)
      /\ \A i \in 1..(Len(queue) - m) : queue'[i] = queue[m + i]
  BY <1>1, <1>5, <1>7
<1>10. c \notin popped /\ \A d \in popped : d \in Contexts /\ ctx[d].at = "queued"
  BY <1>1, <1>5, <1>6 DEF PoolInv, QueueSound
<1> HIDE DEF popped
<1>11. /\ \A d \in Contexts : cs[d] \in AnyContext
       /\ cs[c] = y
       /\ \A d \in Contexts : d # c => cs[d] = ctx[d]
  BY <1>1, <1>2
<1> HIDE DEF cs
<1>12. ctx'[c] = y
  BY <1>1, <1>7, <1>10, <1>11
<1>13. ASSUME NEW d \in Contexts, d \in popped
       PROVE  /\ ctx'[d] \in AnyContext /\ ctx'[d].conn = ctx[d].conn /\ ctx'[d].at = "send"
  <2>2. "send" \in Points
    BY PointKinds
  <2> QED BY <1>1, <1>7, <1>10, <1>11, <1>13, <2>2 DEF AnyContext
<1>14. \A d \in Contexts : d # c /\ d \notin popped => ctx'[d] = ctx[d]
  BY <1>7, <1>11
<1>16. ctx' \in [Contexts -> AnyContext]
  BY <1>1, <1>2, <1>7, <1>12, <1>13, <1>14
<1>17. sock' \in [Conns -> SocketStates] /\ sock'[k] = s
      /\ \A j \in Conns : j # k => sock'[j] = sock[j]
  BY <1>1, <1>2
<1>18. \A d \in Live : Needs(ctx'[d], keep', reused) => sock'[ctx[d].conn] \in Connected3
  <2> SUFFICES ASSUME NEW d \in Live, Needs(ctx'[d], keep', reused)
               PROVE  sock'[ctx[d].conn] \in Connected3
    OBVIOUS
  <2>1. CASE d = c
    BY <2>1, <1>2, <1>12, <1>17
  <2>2. CASE d # c
    <3>2. CASE d \in popped
      BY <1>10, <1>13, <1>17, <2>2, <3>2, PointKinds DEF PoolInv, ContextsSound, Needs, PoolSound,
         Live
    <3>3. CASE d \notin popped
      BY <1>2, <1>14, <1>17, <2>2, <3>3 DEF PoolInv, ContextsSound, Needs, PoolSound, Live
    <3> QED BY <3>2, <3>3
  <2> QED BY <2>1, <2>2
<1>19. QueueSound'
  <2>2. \A i \in DOMAIN queue' :
           /\ m + i \in DOMAIN queue /\ queue'[i] = queue[m + i] /\ m + i > m
           /\ queue[m + i] \in Contexts
    BY <1>1, <1>5, <1>8
  <2>3. \A i \in DOMAIN queue' : queue'[i] \notin popped
    <3> SUFFICES ASSUME NEW i \in DOMAIN queue', queue'[i] \in popped
                 PROVE  FALSE
      OBVIOUS
    <3>1. PICK j \in 1..m : queue'[i] = queue[j]
      BY <1>6
    <3>2. j \in DOMAIN queue /\ m + i \in DOMAIN queue /\ m + i # j
      BY <3>1, <2>2, <1>1, <1>5, <1>8
    <3> QED BY <2>2, <3>1, <3>2 DEF PoolInv, QueueSound
  <2>6. \A i, j \in DOMAIN queue' : i # j => queue'[i] # queue'[j]
    BY <1>1, <1>5, <1>8, <2>2 DEF PoolInv, QueueSound
  <2> QED BY <1>14, <2>2, <2>3, <2>6 DEF QueueSound, PoolInv
<1>20. \A j \in PooledConns : j \in keep => j \in keep'
  BY <1>1, <1>2 DEF PoolInv, PoolSound
<1>21. \A d \in Contexts :
        /\ ctx'[d].conn = ctx[d].conn
        /\ ctx'[d].at = "unused" <=> ctx[d].at = "unused"
        /\ ctx[d].at = "unused" => ctx'[d].listening = ctx[d].listening
  BY <1>1, <1>2, <1>10, <1>12, <1>13, <1>14
<1>22. /\ \A j \in Conns : sock'[j] = "unused" <=> sock[j] = "unused"
       /\ \A j \in PooledConns : sock[j] \in Connected3 => sock'[j] \in Connected3
  BY <1>1, <1>2, <1>17, PoolEntries DEF PoolInv, PoolTypes, PoolSound
<1> HIDE DEF k
<1> QED BY <1>2, <1>8, <1>16, <1>17, <1>18, <1>19, <1>20, <1>21, <1>22, SameConnections DEF GoesOn

-----------------------------------------------------------------------------
(* Steps that begin with a context and end with it.                           *)

\* A context in use has a connection, which is connected if the context needs it.
LEMMA LiveContext ==
    ASSUME PoolInv, NEW c \in Live
    PROVE  /\ c \in Contexts /\ ctx[c] \in AnyContext /\ ctx[c].at # "unused"
           /\ ctx[c].conn \in Conns /\ sock[ctx[c].conn] \in SocketStates \ {"unused"}
           /\ ctx[c].conn \notin PooledConns
           /\ Needs(ctx[c], keep, reused) => sock[ctx[c].conn] \in Connected3
  BY DEF PoolInv, PoolTypes, Live, ContextsSound, PoolSound

\* A context goes on and nothing else changes.
LEMMA GoStep ==
    ASSUME PoolInv, NEW c \in Live, NEW y \in AnyContext,
           ctx' = [ctx EXCEPT ![c] = y], UNCHANGED <<client, issued, conns, poolVars, line>>,
           y.at \notin {"unused", "done"}, y.conn = ctx[c].conn,
           ctx[c].at = "queued" => y.at = "queued",
           \/ sock[y.conn] \in Connected3
           \/ y.at \in Connecting /\ y.result # "ok"
           \/ y.at \in Points \ (Joined \cup Connecting) /\ y.conn \notin reused
    PROVE  PoolInv'
  BY PointKinds, LiveContext, OneGoesOn DEF conns, poolVars, line, GoesOn, Needs, PoolInv,
     PoolTypes

\* A context that reports an error ends with its connection closed.
LEMMA ReportStep ==
    ASSUME PoolInv, NEW c \in Live, NEW what, ctx[c].at # "queued", Report(c, what)
    PROVE  PoolInv'
<1> DEFINE y == [ctx[c] EXCEPT !.at = "done"]
<1>1. y \in AnyContext /\ y.at = "done" /\ y.conn = ctx[c].conn
  BY LiveContext, PointKinds DEF AnyContext
<1>2. Reported(c, what, 1, y)
  BY DEF Report
<1> HIDE DEF y
<1> QED
  BY <1>1, <1>2, LiveContext, OneFinishes DEF Reported, Close, poolVars, GoesOn, SocketStates,
     Connected3, PoolInv, PoolTypes

\* A request completes over a connection that was connected.
LEMMA CompleteStep ==
    ASSUME PoolInv, NEW c \in Live, ctx[c].at \in Joined, CompleteRequest(c)
    PROVE  PoolInv'
<1> DEFINE y == [ctx[c] EXCEPT !.at = "done"]
<1>2. sock \in [Conns -> SocketStates] /\ keep \subseteq Conns
  BY DEF PoolInv, PoolTypes
<1>3. [ctx EXCEPT ![c].at = "done"] = [ctx EXCEPT ![c] = y]
  BY LiveContext
<1> HIDE DEF y
<1> QED
  BY <1>2, <1>3, PointKinds, LiveContext, OneFinishes DEF CompleteRequest, conns, poolVars,
     GoesOn, Needs, AnyContext

\* The operators that make a context of another keep its type and connection.
LEMMA TimersKeep ==
    ASSUME NEW x \in AnyContext
    PROVE  /\ Started(x) \in AnyContext /\ Started(x).at = x.at /\ Started(x).conn = x.conn
           /\ Started(x).result = x.result
           /\ Reset(x) \in AnyContext /\ Reset(x).at = x.at /\ Reset(x).conn = x.conn
           /\ Reset(x).result = x.result /\ Reset(x).left = x.left /\ Reset(x).req = x.req
           /\ Reset(x).listening = x.listening
  BY ContextFields DEF Started, Reset, AnyContext, Clocks, Alarms

LEMMA AbortedKeeps ==
    ASSUME NEW x \in AnyContext
    PROVE  /\ Aborted(x) \in AnyContext /\ Aborted(x).at = x.at /\ Aborted(x).conn = x.conn
           /\ Aborted(x).listening = x.listening
           /\ Aborted(x).result = "ok" => x.result = "ok"
  BY ContextFields DEF Aborted, AnyContext, Results

LEMMA OpKeeps ==
    ASSUME NEW x \in AnyContext, NEW point \in Points
    PROVE  /\ Op(x, point) \in AnyContext /\ Op(x, point).at = point
           /\ Op(x, point).conn = x.conn /\ Op(x, point).result # "ok"
  BY DEF Op, AnyContext, Results

LEMMA WriteRequestKeeps ==
    ASSUME NEW x \in AnyContext
    PROVE  /\ WriteRequest(x) \in AnyContext /\ WriteRequest(x).conn = x.conn
           /\ WriteRequest(x).at \in {"handshake", "headers"}
  BY OpKeeps DEF WriteRequest, Points, OnSocket, Writes

\* A context at another point, with another result.
LEMMA MovedKeeps ==
    ASSUME NEW x \in AnyContext, NEW point \in Points, NEW result \in Results
    PROVE  LET y == [x EXCEPT !.at = point, !.result = result] IN
           y \in AnyContext /\ y.at = point /\ y.conn = x.conn /\ y.result = result
  BY DEF AnyContext

LEMMA GoIsQuiet ==
    ASSUME NEW c, NEW y, Go(c, y)
    PROVE  ctx' = [ctx EXCEPT ![c] = y] /\ UNCHANGED <<client, issued, conns, poolVars, line>>
  BY DEF Go

-----------------------------------------------------------------------------
(* The steps of a context, one by one.                                        *)

LEMMA RingStep ==
    ASSUME PoolInv, NEW c \in Contexts, Ring(c)
    PROVE  PoolInv'
<1> DEFINE y == [ctx[c] EXCEPT !.alarm = "rung"]
<1>2. y \in AnyContext /\ y.at = ctx[c].at /\ y.conn = ctx[c].conn /\ y.result = ctx[c].result
  BY LiveContext DEF AnyContext, Alarms, Ring, Live
<1>3. Go(c, y)
  BY DEF Ring
<1> HIDE DEF y
<1> QED BY <1>2, <1>3, LiveContext, ContextFields, GoStep, GoIsQuiet DEF Needs, Ring, Live

LEMMA TimeoutStep ==
    ASSUME PoolInv, NEW c \in Contexts, Timeout(c)
    PROVE  PoolInv'
<1> DEFINE x == Aborted(ctx[c])
           y == [x EXCEPT !.clock = "timedout", !.alarm = "idle"]
<1>1. c \in Live /\ ctx \in [Contexts -> AnyContext]
  BY DEF Timeout, Live, PoolInv, PoolTypes
<1>2. x \in AnyContext /\ x.at = ctx[c].at /\ x.conn = ctx[c].conn
  BY <1>1, LiveContext, AbortedKeeps
<1>3. /\ sock' = [sock EXCEPT ![ctx[c].conn] = "closed"] /\ keep' = keep \ {ctx[c].conn}
      /\ ctx' = [ctx EXCEPT ![c] = y]
      /\ client' = client /\ issued' = issued /\ reused' = reused /\ pool' = pool
      /\ epoch' = epoch /\ prev' = prev /\ ticking' = ticking /\ queue' = queue
  BY <1>1 DEF Timeout, Close, poolVars, line
<1> HIDE DEF x
<1>4. y \in AnyContext /\ y.at = ctx[c].at /\ y.conn = ctx[c].conn
  BY <1>2 DEF AnyContext, Clocks, Alarms
<1> HIDE DEF y
<1> QED
  BY <1>1, <1>3, <1>4, LiveContext, OneGoesOn DEF GoesOn, SocketStates, Connected3, PoolInv,
     PoolTypes

\* The flow of a request: over a connection that was in the pool, or that the
\* tunnel connected, or else it is the name that is resolved.
LEMMA FlowStep ==
    ASSUME PoolInv, NEW c \in Contexts, Flow(c),
           ctx[c].at = "tunnelStatus" \/ (ctx[c].at = "send" /\ client.mode # "tunnel")
    PROVE  PoolInv'
<1> DEFINE x == IF ctx[c].clock = "started" THEN ctx[c] ELSE Started(ctx[c])
           y == [x EXCEPT !.listening = TRUE]
           z == [y EXCEPT !.at = "resolve", !.result = "none"]
<1>1. c \in Live /\ ctx[c].at # "queued" /\ ctx[c].at \notin Connecting
      /\ (ctx[c].at = "tunnelStatus" => ctx[c].at \in Joined)
  BY DEF Live, Connecting, Joined, Reads
<1>2. x \in AnyContext /\ x.conn = ctx[c].conn
  BY <1>1, LiveContext, TimersKeep
<1>3. \/ \E what \in {"canceled", "error"} : Report(c, what)
      \/ Go(c, IF y.conn \in reused \/ client.mode = "tunnel" THEN WriteRequest(y) ELSE z)
  BY DEF Flow
<1> HIDE DEF x
<1>4. y \in AnyContext /\ y.conn = ctx[c].conn
  BY <1>2 DEF AnyContext
<1> HIDE DEF y
<1>6. z \in AnyContext /\ z.at = "resolve" /\ z.conn = y.conn
  BY <1>4, PointKinds DEF AnyContext, Points, Resolving, Results
<1> HIDE DEF z
<1>7. CASE \E what \in {"canceled", "error"} : Report(c, what)
  BY <1>1, <1>7, ReportStep
<1>8. CASE /\ Go(c, IF y.conn \in reused \/ client.mode = "tunnel" THEN WriteRequest(y) ELSE z)
           /\ y.conn \in reused \/ client.mode = "tunnel"
  <2> DEFINE w == WriteRequest(y)
  <2>1. w \in AnyContext /\ w.conn = y.conn /\ w.at \in {"handshake", "headers"}
    BY <1>4, WriteRequestKeeps
  <2>2. Go(c, w)
    BY <1>8
  <2> HIDE DEF w
  <2> QED BY <1>1, <1>4, <1>8, <2>1, <2>2, LiveContext, GoStep, GoIsQuiet DEF Needs
<1>9. CASE /\ Go(c, IF y.conn \in reused \/ client.mode = "tunnel" THEN WriteRequest(y) ELSE z)
           /\ ~(y.conn \in reused \/ client.mode = "tunnel")
  BY <1>1, <1>4, <1>6, <1>9, PointKinds, GoStep, GoIsQuiet DEF Points, Resolving, Results
<1> QED BY <1>3, <1>7, <1>8, <1>9

LEMMA SendStep ==
    ASSUME PoolInv, NEW c \in Contexts, Send(c)
    PROVE  PoolInv'
<1>1. c \in Live /\ ctx[c].at = "send"
  BY DEF Send, At, Live
<1>2. CASE \E what \in {"canceled", "error"} : Report(c, what)
  BY <1>1, <1>2, ReportStep
<1>3. CASE client.mode = "tunnel" /\ Go(c, [Started(ctx[c]) EXCEPT !.at = "tunnelResolve"])
  <2> DEFINE x == Started(ctx[c])
             y == [x EXCEPT !.at = "tunnelResolve"]
  <2>1. x \in AnyContext /\ x.conn = ctx[c].conn
    BY <1>1, LiveContext, TimersKeep
  <2>2. Go(c, y)
    BY <1>3
  <2> HIDE DEF x
  <2>4. y \in AnyContext /\ y.conn = ctx[c].conn /\ y.at = "tunnelResolve"
    BY <2>1, PointKinds DEF AnyContext, Points, Resolving
  <2> HIDE DEF y
  <2> QED
    BY <1>1, <2>2, <2>4, PointKinds, LiveContext, GoStep, GoIsQuiet DEF Needs, Points, Resolving
<1>4. CASE client.mode # "tunnel" /\ Flow(c)
  BY <1>1, <1>4, FlowStep
<1> QED BY <1>2, <1>3, <1>4 DEF Send

\* A socket that begins to connect, or is refused, or is closed by a timeout.
LEMMA ResolvedStep ==
    ASSUME PoolInv, NEW c \in Contexts, Resolved(c)
    PROVE  PoolInv'
<1> DEFINE x == Reset(ctx[c])
           k == x.conn
           free == sock[k] \in {"new", "closed"}
           late == x.clock = "timedout"
           s == IF late THEN "closed" ELSE IF free THEN "connecting" ELSE sock[k]
           point == IF x.at = "resolve" THEN "connect" ELSE "tunnelConnect"
           result == IF ~free THEN "refused" ELSE IF late THEN "abort" ELSE "none"
           y == [x EXCEPT !.at = point, !.left = @ - 1, !.result = result]
<1>1. c \in Live /\ ctx[c].at # "queued" /\ ctx \in [Contexts -> AnyContext]
      /\ sock \in [Conns -> SocketStates]
  BY PointKinds DEF Resolved, Live, PoolInv, PoolTypes
<1>2. x \in AnyContext /\ x.conn = ctx[c].conn
  BY <1>1, LiveContext, TimersKeep
<1>3. /\ sock' = [sock EXCEPT ![k] = s]
      /\ keep' = (IF late THEN keep \ {k} ELSE keep)
      /\ ctx' = [ctx EXCEPT ![c] = y]
      /\ client' = client /\ issued' = issued /\ reused' = reused /\ pool' = pool
      /\ epoch' = epoch /\ prev' = prev /\ ticking' = ticking /\ queue' = queue
  BY <1>1, <1>2, LiveContext DEF Resolved, poolVars, line
<1> HIDE DEF x
<1>4. y \in AnyContext /\ y.conn = ctx[c].conn /\ y.at \in Connecting /\ y.result # "ok"
  <2>2. /\ point \in Points /\ point \in Connecting
        /\ result \in Results /\ result # "ok"
    BY DEF Connecting, Points, OnSocket, Results
  <2> HIDE DEF point, result, k, free, late
  <2> DEFINE left == x.left - 1
  <2>3. left \in Int /\ y = [x EXCEPT !.at = point, !.left = left, !.result = result]
    BY <1>2, ContextFields
  <2> HIDE DEF left, y
  <2> QED BY <1>2, <2>2, <2>3 DEF AnyContext
<1>5. s \in SocketStates \ {"unused"}
  BY <1>1, <1>2, LiveContext DEF SocketStates
<1> HIDE DEF s, y
<1> QED
  BY <1>1, <1>2, <1>3, <1>4, <1>5, PointKinds, OneGoesOn DEF GoesOn, PoolInv, PoolTypes, Needs

-----------------------------------------------------------------------------
(* Steps that take a connection from the pool, or a new one.                  *)

\* What Obtain gives: a connection of no context, the last one of the pool if
\* there is one; and the pool without it is as it was.
LEMMA Obtained ==
    ASSUME PoolInv, NEW k \in Conns, Obtain(k)
    PROVE  /\ \A d \in Live : ctx[d].conn # k
           /\ pool' \in Seq(PoolEntry)
           /\ {pool'[i].conn : i \in DOMAIN pool'} = PooledConns \ {k}
           /\ \A i, j \in DOMAIN pool' : i < j =>
                pool'[i].conn # pool'[j].conn /\ pool'[i].epoch < pool'[j].epoch
           /\ pool' # <<>> => ticking /\ Last(pool').epoch <= epoch
           /\ SockOf(k) \in SocketStates \ {"unused"}
           /\ k \in ReusedWith(k) => SockOf(k) \in Connected3
           /\ SockOf(k) \in {"new", sock[k]}
           /\ KeepWith(k) \subseteq Conns /\ keep \subseteq KeepWith(k)
           /\ ReusedWith(k) \subseteq Conns /\ ReusedWith(k) \subseteq reused \cup {k}
<1> DEFINE n == Len(pool)
<1>1. /\ pool \in Seq(PoolEntry) /\ n \in Nat /\ DOMAIN pool = 1..n
      /\ sock \in [Conns -> SocketStates] /\ keep \subseteq Conns /\ reused \subseteq Conns
      /\ epoch \in Nat
      /\ \A i \in 1..n : pool[i].conn \in Conns /\ pool[i].epoch \in Nat
  BY PoolEntries DEF PoolInv, PoolTypes
<1>2. \A i, j \in 1..n : i < j => pool[i].conn # pool[j].conn /\ pool[i].epoch < pool[j].epoch
  BY <1>1 DEF PoolInv, PoolSound
<1>7. CASE pool # <<>>
  <2>1. n > 0 /\ k = pool[n].conn /\ pool' = SubSeq(pool, 1, n - 1)
    BY <1>1, <1>7 DEF Obtain, Last, Front
  <2>2. /\ pool' \in Seq(PoolEntry) /\ Len(pool') = n - 1 /\ DOMAIN pool' = 1..(n - 1)
        /\ \A i \in 1..(n - 1) : pool'[i] = pool[i]
    BY <1>1, <2>1
  <2>3. k \in PooledConns /\ sock[k] \in Connected3
    BY <1>1, <2>1 DEF PoolInv, PoolSound, Connected3, PooledConns
  <2>4. \A i \in 1..(n - 1) : i \in 1..n /\ i < n /\ pool[i].conn # k
    BY <1>1, <1>2, <2>1
  <2>5. {pool'[i].conn : i \in DOMAIN pool'} = PooledConns \ {k}
    <3>2. \A i \in 1..n : i \in 1..(n - 1) \/ pool[i].conn = k
      BY <1>1, <2>1
    <3> QED BY <1>1, <2>2, <2>4, <3>2 DEF PooledConns
  <2>6. \A i, j \in DOMAIN pool' : i < j =>
          pool'[i].conn # pool'[j].conn /\ pool'[i].epoch < pool'[j].epoch
    BY <1>2, <2>2, <2>4
  <2>7. pool' # <<>> => ticking /\ Last(pool').epoch <= epoch
    BY <1>1, <1>2, <1>7, <2>2 DEF Last, PoolInv, PoolSound
  <2> QED
    BY <1>1, <1>7, <2>2, <2>3, <2>5, <2>6, <2>7, LiveContext DEF SockOf, KeepWith, ReusedWith,
       Connected3
<1>8. CASE pool = <<>>
  <2>2. sock[k] = "unused" /\ k \notin PooledConns /\ k \notin reused
    BY <1>8 DEF FreeConns, Connected3, PoolInv, UnusedSound, PoolSound, Obtain
  <2> QED
    BY <1>1, <1>2, <1>8, <2>2, LiveContext DEF SocketStates, SockOf, KeepWith, ReusedWith,
       PooledConns, Obtain
<1> QED BY <1>7, <1>8

\* The connection that context e has, if it is in use.
Had(e) == IF e \in Live THEN {ctx[e].conn} ELSE {}

\* A step in which context e takes the connection k, and gives up the one it
\* had, keeps the invariant.
LEMMA TakesConnection ==
    ASSUME PoolInv, NEW k \in Conns, Obtain(k), NEW e \in Contexts,
           ctx' \in [Contexts -> AnyContext],
           ctx'[e].conn = k /\ ctx'[e].at # "unused",
           \A d \in Contexts \ {e} :
               /\ ctx'[d].conn = ctx[d].conn
               /\ ctx'[d].at = "unused" <=> ctx[d].at = "unused"
               /\ ctx[d].at = "unused" => ctx'[d].listening = ctx[d].listening,
           sock' \in [Conns -> SocketStates],
           \A j \in Conns : sock'[j] = "unused" <=> j \in Had(e) \/ (sock[j] = "unused" /\ j # k),
           \A j \in PooledConns \ {k} : sock'[j] = sock[j] /\ j \in keep',
           keep' \subseteq Conns, reused' \subseteq (reused \cup {k}) \ Had(e),
           \A d \in Live' : Needs(ctx'[d], keep', reused') => sock'[ctx'[d].conn] \in Connected3,
           client' = client, issued' \in 0..N, epoch' = epoch, prev' = prev, ticking' = ticking,
           queue' \in Seq(Contexts), QueueSound'
    PROVE  PoolInv'
<1>1. /\ \A d \in Live : ctx[d].conn # k
      /\ pool' \in Seq(PoolEntry)
      /\ {pool'[i].conn : i \in DOMAIN pool'} = PooledConns \ {k}
      /\ \A i, j \in DOMAIN pool' : i < j =>
           pool'[i].conn # pool'[j].conn /\ pool'[i].epoch < pool'[j].epoch
      /\ pool' # <<>> => ticking /\ Last(pool').epoch <= epoch
  BY Obtained
<1>2. PoolTypes'
  BY <1>1 DEF PoolInv, PoolTypes
<1>3. Live' = Live \cup {e} /\ Live \subseteq Contexts
  BY DEF Live
<1>4. PooledConns' = PooledConns \ {k}
  BY <1>1 DEF PooledConns
<1>5. \A d \in Live \ {e} : ctx'[d].conn = ctx[d].conn /\ ctx[d].conn \in Conns
  BY <1>3 DEF PoolInv, ContextsSound
<1>6. PoolSound'
  <2>4. ({j \in Conns : sock[j] # "unused"} = PooledConns \cup {ctx[c].conn : c \in Live})'
    <3>8. {j \in Conns : sock'[j] # "unused"} =
            (PooledConns \ {k}) \cup {k} \cup {ctx[d].conn : d \in Live \ {e}}
      BY <1>1, <1>5, PoolEntries DEF PoolInv, PoolTypes, Had, PoolSound
    <3> QED BY <1>3, <1>4, <1>5, <3>8
  <2>5. (pool # <<>> => ticking /\ Last(pool).epoch <= epoch)'
    BY <1>1 DEF Last
  <2> QED BY <1>1, <1>3, <1>4, <1>5, <2>4, <2>5 DEF PoolSound, PoolInv
<1> QED BY <1>2, <1>3, <1>5, <1>6 DEF PoolInv, UnusedSound, PoolTypes, ContextsSound

LEMMA NextEndpointStep ==
    ASSUME PoolInv, NEW c \in Live, NEW k \in Conns, ctx[c].at \in Connecting, NextEndpoint(c, k)
    PROVE  PoolInv'
<1> DEFINE old == ctx[c].conn
           x == Reset(ctx[c])
           free == SockOf(k) \in {"new", "closed"}
           result == IF free THEN "none" ELSE "refused"
           y == [x EXCEPT !.conn = k, !.left = ctx[c].left - 1, !.result = result]
<1>1. /\ c \in Contexts /\ old \in Conns /\ sock[old] # "unused" /\ old \notin PooledConns
      /\ ctx[c].at # "queued" /\ ctx[c].at # "unused"
      /\ ctx \in [Contexts -> AnyContext] /\ sock \in [Conns -> SocketStates]
      /\ queue \in Seq(Contexts) /\ issued \in 0..N /\ pool \in Seq(PoolEntry)
  BY LiveContext, PointKinds DEF PoolInv, PoolTypes
<1>2. /\ Obtain(k)
      /\ keep' = KeepWith(k) \ {old} /\ reused' = ReusedWith(k) \ {old}
      /\ sock' = [sock EXCEPT ![old] = "unused", ![k] = IF free THEN "connecting" ELSE @]
      /\ ctx' = [ctx EXCEPT ![c] = y]
      /\ client' = client /\ issued' = issued /\ epoch' = epoch /\ prev' = prev
      /\ ticking' = ticking /\ queue' = queue
  <2>1. ctx' = [ctx EXCEPT ![c] = y]
    BY DEF NextEndpoint
  <2> HIDE DEF y
  <2> QED BY <2>1 DEF NextEndpoint, line
<1>3. /\ \A d \in Live : ctx[d].conn # k
      /\ SockOf(k) \in SocketStates \ {"unused"} /\ SockOf(k) \in {"new", sock[k]}
      /\ KeepWith(k) \subseteq Conns /\ keep \subseteq KeepWith(k)
      /\ ReusedWith(k) \subseteq reused \cup {k}
  BY <1>2, Obtained
<1>4. y \in AnyContext /\ y.conn = k /\ y.at = ctx[c].at /\ y.result # "ok"
  <2>1. x \in AnyContext /\ x.at = ctx[c].at
    BY LiveContext, TimersKeep
  <2> HIDE DEF x
  <2>2. result \in Results /\ result # "ok" /\ k \in ConnNames
    BY DEF Results, ConnNames
  <2> HIDE DEF result, free
  <2> DEFINE left == ctx[c].left - 1
  <2>3. left \in Int /\ y = [x EXCEPT !.conn = k, !.left = left, !.result = result]
    BY LiveContext, ContextFields
  <2> HIDE DEF left, y
  <2> QED BY <2>1, <2>2, <2>3 DEF AnyContext
<1> HIDE DEF y, x, result
<1>5. ctx' \in [Contexts -> AnyContext] /\ ctx'[c] = y
      /\ \A d \in Contexts \ {c} : ctx'[d] = ctx[d]
  BY <1>1, <1>2, <1>4
<1>6. /\ sock'[old] = "unused" /\ sock'[k] \in SocketStates \ {"unused"}
      /\ sock' \in [Conns -> SocketStates]
      /\ \A j \in Conns \ {old, k} : sock'[j] = sock[j]
  <2> DEFINE s == IF free THEN "connecting" ELSE sock[k]
  <2>2. s \in SocketStates \ {"unused"}
    BY <1>3, <1>1 DEF SocketStates
  <2>3. sock' = [sock EXCEPT ![old] = "unused", ![k] = s]
    BY <1>1, <1>2, <1>3
  <2> HIDE DEF s
  <2> QED BY <1>1, <1>3, <2>2, <2>3 DEF SocketStates
<1>7. QueueSound'
  BY <1>1, <1>2, <1>4, <1>5 DEF QueueSound, PoolInv
<1>8. \A d \in Live' : Needs(ctx'[d], keep', reused') => sock'[ctx'[d].conn] \in Connected3
  BY <1>2, <1>3, <1>4, <1>5, <1>6, PointKinds DEF PoolInv, ContextsSound, Needs, KeepWith,
     PoolSound, Live
<1>12. Had(c) = {old}
  BY DEF Had
<1>9. \A j \in Conns : sock'[j] = "unused" <=> j \in Had(c) \/ (sock[j] = "unused" /\ j # k)
  BY <1>1, <1>6, <1>12
<1>10. \A j \in PooledConns \ {k} : sock'[j] = sock[j] /\ j \in keep'
  BY <1>1, <1>2, <1>3, <1>6, PoolEntries DEF PoolInv, PoolSound
<1>11. keep' \subseteq Conns /\ reused' \subseteq (reused \cup {k}) \ Had(c)
  BY <1>2, <1>3, <1>12
<1>13. \A d \in Contexts \ {c} :
         /\ ctx'[d].conn = ctx[d].conn
         /\ ctx'[d].at = "unused" <=> ctx[d].at = "unused"
         /\ ctx[d].at = "unused" => ctx'[d].listening = ctx[d].listening
  BY <1>5
<1> HIDE DEF old
<1>14. ctx'[c].conn = k /\ ctx'[c].at # "unused"
  BY <1>1, <1>4, <1>5
<1> QED
  BY <1>1, <1>2, <1>5, <1>6, <1>7, <1>8, <1>9, <1>10, <1>11, <1>12, <1>13, <1>14, TakesConnection

\* A context just made: its request and its connection, and nothing begun.
LEMMA FreshContext ==
    ASSUME PoolInv, NEW r \in 0..N, NEW k \in Conns
    PROVE  /\ Unused \in AnyContext /\ Unused.at = "unused" /\ ~Unused.listening
           /\ Fresh(r, k) \in AnyContext /\ Fresh(r, k).at = "send" /\ Fresh(r, k).conn = k
<1>1. client.endpoints \in Int
  BY DEF PoolInv, PoolTypes, AllClients
<1>2. 0 \in 0..N
  BY HttpClientAssumption
<1> QED
  BY <1>1, <1>2, PointKinds DEF Fresh, AnyContext, ConnNames, Unused, Results, Clocks, Alarms,
     Lengths

LEMMA PropagateStep ==
    ASSUME PoolInv, NEW c \in Contexts, NEW k \in Conns, Propagate(c, k)
    PROVE  PoolInv'
<1> DEFINE r == issued + 1
           x == Fresh(r, k)
           point == IF First THEN "send" ELSE "queued"
           y == [x EXCEPT !.at = point]
<1>1. /\ ctx \in [Contexts -> AnyContext] /\ sock \in [Conns -> SocketStates]
      /\ queue \in Seq(Contexts) /\ pool \in Seq(PoolEntry) /\ r \in 0..N
      /\ ctx[c].at = "unused" /\ c \notin Live
  BY HttpClientAssumption DEF PoolInv, PoolTypes, Propagate, At, Live
<1>2. /\ Obtain(k)
      /\ keep' = KeepWith(k) /\ reused' = ReusedWith(k)
      /\ sock' = [sock EXCEPT ![k] = SockOf(k)]
      /\ ctx' = [ctx EXCEPT ![c] = y]
      /\ queue' = (IF First THEN queue ELSE Append(queue, c))
      /\ client' = client /\ issued' = r /\ epoch' = epoch /\ prev' = prev
      /\ ticking' = ticking
  BY DEF Propagate
<1>3. /\ \A d \in Live : ctx[d].conn # k
      /\ SockOf(k) \in SocketStates \ {"unused"}
      /\ k \in ReusedWith(k) => SockOf(k) \in Connected3
      /\ KeepWith(k) \subseteq Conns /\ keep \subseteq KeepWith(k)
      /\ ReusedWith(k) \subseteq reused \cup {k}
  BY <1>2, Obtained
<1>4. y \in AnyContext /\ y.conn = k /\ y.at = point
      /\ point \in {"send", "queued"} /\ (First <=> point = "send")
  <2>1. x \in AnyContext /\ x.conn = k
    BY <1>1, FreshContext
  <2> HIDE DEF x
  <2>2. point \in Points /\ point \in {"send", "queued"} /\ (First <=> point = "send")
    BY PointKinds
  <2> HIDE DEF point
  <2> QED BY <2>1, <2>2 DEF AnyContext
<1> HIDE DEF y, x, point, r
<1>5. ctx' \in [Contexts -> AnyContext] /\ ctx'[c] = y
      /\ \A d \in Contexts \ {c} : ctx'[d] = ctx[d]
  BY <1>1, <1>2, <1>4
<1>6. /\ sock'[k] = SockOf(k) /\ sock' \in [Conns -> SocketStates]
      /\ \A j \in Conns \ {k} : sock'[j] = sock[j]
  BY <1>1, <1>2, <1>3
<1>7. queue' \in Seq(Contexts) /\ QueueSound'
  <2>1. /\ \A i \in DOMAIN queue : ctx[queue[i]].at = "queued" /\ queue[i] \in Contexts \ {c}
        /\ \A i, j \in DOMAIN queue : i # j => queue[i] # queue[j]
    BY <1>1 DEF PoolInv, QueueSound
  <2>2. CASE First
    BY <2>1, <2>2, <1>1, <1>2, <1>5 DEF QueueSound
  <2>3. CASE ~First
    BY <1>1, <1>2, <1>4, <1>5, <2>1, <2>3 DEF QueueSound
  <2> QED BY <2>2, <2>3
<1>8. \A d \in Live' : Needs(ctx'[d], keep', reused') => sock'[ctx'[d].conn] \in Connected3
  <2> SUFFICES ASSUME NEW d \in Live', Needs(ctx'[d], keep', reused')
               PROVE  sock'[ctx'[d].conn] \in Connected3
    OBVIOUS
  <2>1. CASE d = c
    BY <1>2, <1>3, <1>4, <1>5, <1>6, <2>1, PointKinds DEF Needs
  <2>2. CASE d # c
    BY <1>2, <1>3, <1>5, <1>6, <2>2 DEF PoolInv, ContextsSound, Needs, KeepWith, Live
  <2> QED BY <2>1, <2>2
<1>9. Had(c) = {}
  BY <1>1 DEF Had
<1>10. \A j \in Conns : sock'[j] = "unused" <=> j \in Had(c) \/ (sock[j] = "unused" /\ j # k)
  BY <1>3, <1>6, <1>9
<1>11. \A j \in PooledConns \ {k} : sock'[j] = sock[j] /\ j \in keep'
  BY <1>1, <1>2, <1>3, <1>6, PoolEntries DEF PoolInv, PoolSound
<1>12. keep' \subseteq Conns /\ reused' \subseteq (reused \cup {k}) \ Had(c)
  BY <1>2, <1>3, <1>9
<1> QED BY <1>1, <1>2, <1>4, <1>5, <1>6, <1>7, <1>8, <1>10, <1>11, <1>12, TakesConnection

LEMMA ResendStep ==
    ASSUME PoolInv, NEW c \in Contexts, NEW d \in Contexts, NEW k \in Conns, Resend(c, d, k)
    PROVE  PoolInv'
<1> DEFINE old == ctx[c].conn
           x == Fresh(ctx[c].req, k)
           y == [x EXCEPT !.resent = TRUE]
           z == [ctx[c] EXCEPT !.at = "done"]
<1>1. /\ ctx \in [Contexts -> AnyContext] /\ sock \in [Conns -> SocketStates]
      /\ queue \in Seq(Contexts) /\ pool \in Seq(PoolEntry) /\ issued \in 0..N
      /\ ctx[d].at = "unused" /\ d \notin Live
      /\ ctx[c].at \in {"status", "tunnelStatus"} /\ c \in Live /\ c # d
  BY DEF PoolInv, PoolTypes, Resend, At, Live
<1>2. /\ Obtain(k)
      /\ keep' = KeepWith(k) \ {old} /\ reused' = ReusedWith(k)
      /\ sock' = [sock EXCEPT ![k] = SockOf(k), ![old] = "closed"]
      /\ ctx' = [ctx EXCEPT ![c] = z, ![d] = y]
      /\ queue' = queue /\ client' = client /\ issued' = issued /\ epoch' = epoch
      /\ prev' = prev /\ ticking' = ticking
  <2>1. ctx' = [ctx EXCEPT ![c].at = "done", ![d] = y]
    BY DEF Resend
  <2> HIDE DEF y
  <2>2. ctx' = [ctx EXCEPT ![c] = z, ![d] = y]
    BY <2>1, <1>1
  <2> HIDE DEF z
  <2> QED BY <2>2 DEF Resend, line
<1>3. /\ \A e \in Live : ctx[e].conn # k
      /\ SockOf(k) \in SocketStates \ {"unused"}
      /\ k \in ReusedWith(k) => SockOf(k) \in Connected3
      /\ KeepWith(k) \subseteq Conns /\ keep \subseteq KeepWith(k)
      /\ ReusedWith(k) \subseteq reused \cup {k}
  BY <1>2, Obtained
<1>4. y \in AnyContext /\ y.conn = k /\ y.at = "send"
  <2>2. x \in AnyContext /\ x.conn = k /\ x.at = "send"
    BY <1>1, ContextFields, FreshContext
  <2> HIDE DEF x
  <2> QED BY <2>2 DEF AnyContext
<1>5. z \in AnyContext /\ z.conn = old /\ z.at = "done"
  <2>1. ctx[c] \in AnyContext /\ "done" \in Points
    BY <1>1, PointKinds
  <2> QED BY <2>1 DEF AnyContext
<1>6. old \in Conns \ {k} /\ old \notin PooledConns /\ sock[old] # "unused"
  BY <1>1, <1>3, LiveContext
<1> HIDE DEF y, x, z, old
<1>7. ctx' \in [Contexts -> AnyContext] /\ ctx'[d] = y /\ ctx'[c] = z
      /\ \A e \in Contexts \ {c, d} : ctx'[e] = ctx[e]
  BY <1>1, <1>2, <1>4, <1>5
<1>8. /\ sock'[k] = SockOf(k) /\ sock'[old] = "closed" /\ sock' \in [Conns -> SocketStates]
      /\ \A j \in Conns \ {k, old} : sock'[j] = sock[j]
  BY <1>1, <1>2, <1>3, <1>6 DEF SocketStates
<1>9. QueueSound'
  BY <1>1, <1>2, <1>7 DEF PoolInv, QueueSound
<1>10. \A e \in Live' : Needs(ctx'[e], keep', reused') => sock'[ctx'[e].conn] \in Connected3
  <2> SUFFICES ASSUME NEW e \in Live', Needs(ctx'[e], keep', reused')
               PROVE  sock'[ctx'[e].conn] \in Connected3
    OBVIOUS
  <2>1. CASE e = d
    BY <1>2, <1>3, <1>4, <1>7, <1>8, <2>1, PointKinds DEF Needs
  <2>2. CASE e = c
    BY <2>2, <1>5, <1>7, <1>8 DEF Connected3
  <2>3. CASE e \notin {c, d}
    BY <1>1, <1>2, <1>3, <1>7, <1>8, <2>3 DEF PoolInv, ContextsSound, Needs, KeepWith, PoolSound,
       old, Live
  <2> QED BY <2>1, <2>2, <2>3
<1>12. \A j \in Conns : sock'[j] = "unused" <=> j \in Had(d) \/ (sock[j] = "unused" /\ j # k)
  BY <1>1, <1>3, <1>6, <1>8 DEF Had
<1>13. \A j \in PooledConns \ {k} : sock'[j] = sock[j] /\ j \in keep'
  BY <1>1, <1>2, <1>3, <1>6, <1>8, PoolEntries DEF PoolInv, PoolSound
<1>14. keep' \subseteq Conns /\ reused' \subseteq (reused \cup {k}) \ Had(d)
  BY <1>1, <1>2, <1>3 DEF Had
<1>15. \A e \in Contexts \ {d} :
         /\ ctx'[e].conn = ctx[e].conn
         /\ ctx'[e].at = "unused" <=> ctx[e].at = "unused"
         /\ ctx[e].at = "unused" => ctx'[e].listening = ctx[e].listening
  BY <1>1, <1>5, <1>7 DEF old
<1> QED BY <1>1, <1>2, <1>4, <1>7, <1>8, <1>9, <1>10, <1>12, <1>13, <1>14, <1>15, TakesConnection

\* A connection that is kept goes to the end of the pool, where its epoch is the
\* greatest, and the timer runs; another one is free again.
LEMMA ReleaseStep ==
    ASSUME PoolInv, NEW c \in Contexts, Release(c)
    PROVE  PoolInv'
<1> DEFINE k == ctx[c].conn
           n == Len(pool)
<1>1. /\ c \in Live /\ ctx[c].at = "done"
      /\ pool \in Seq(PoolEntry) /\ n \in Nat /\ DOMAIN pool = 1..n
      /\ \A i \in 1..n : pool[i].conn \in Conns /\ pool[i].epoch \in Nat
      /\ ctx \in [Contexts -> AnyContext] /\ sock \in [Conns -> SocketStates]
      /\ epoch \in Nat /\ queue \in Seq(Contexts) /\ keep \subseteq Conns /\ reused \subseteq Conns
      /\ prev \in Nat /\ ticking \in BOOLEAN /\ client \in AllClients /\ issued \in 0..N
  BY PoolEntries DEF PoolInv, PoolTypes, Release, At, Live
<1>2. /\ k \in Conns /\ sock[k] # "unused" /\ k \notin PooledConns
      /\ k \in keep => sock[k] \in Connected3
  BY <1>1, LiveContext DEF Needs
<1>3. /\ ctx' = [ctx EXCEPT ![c] = Unused]
      /\ client' = client /\ issued' = issued /\ queue' = queue
  BY <1>1 DEF Release, line
<1>4. Unused \in AnyContext /\ Unused.at = "unused" /\ ~Unused.listening
  BY <1>1, <1>2, FreshContext
<1>5. ctx' \in [Contexts -> AnyContext] /\ ctx'[c].at = "unused" /\ ~ctx'[c].listening
      /\ \A d \in Contexts \ {c} : ctx'[d] = ctx[d]
  BY <1>1, <1>3, <1>4
<1>6. Live' = Live \ {c} /\ Live \subseteq Contexts
  BY <1>5 DEF Live
<1>7. \A d \in Live \ {c} : ctx[d].conn \in Conns \ {k} /\ ctx'[d] = ctx[d]
  BY <1>1, <1>5, <1>6 DEF PoolInv, PoolSound, ContextsSound
<1>8. QueueSound'
  BY <1>1, <1>3, <1>5 DEF PoolInv, QueueSound
<1>9. \A i, j \in 1..n : i < j => pool[i].conn # pool[j].conn /\ pool[i].epoch < pool[j].epoch
  BY <1>1 DEF PoolInv, PoolSound
<1>10. \A i \in 1..n : pool[i].epoch <= epoch
  <2> SUFFICES ASSUME NEW i \in 1..n
               PROVE  pool[i].epoch <= epoch
    OBVIOUS
  <2>1. n \in 1..n /\ pool # <<>> /\ pool[n].epoch <= epoch
    BY <1>1 DEF PoolInv, PoolSound, Last
  <2>2. /\ pool[i].epoch \in Nat /\ pool[n].epoch \in Nat /\ epoch \in Nat
        /\ n \in Nat
    BY <2>1, <1>1
  <2> HIDE DEF n
  <2>3. i # n => i < n
    BY <2>2
  <2>4. i # n => pool[i].epoch < pool[n].epoch
    BY <2>1, <2>3, <1>9
  <2> QED BY <2>1, <2>2, <2>4
<1>11. /\ \A d \in Live : ctx[d].conn \notin PooledConns
       /\ {j \in Conns : sock[j] # "unused"} = PooledConns \cup {ctx[d].conn : d \in Live}
       /\ pool # <<>> => ticking
       /\ \A j \in PooledConns : j \in keep /\ sock[j] \in Connected3
       /\ PooledConns = {pool[i].conn : i \in 1..n}
  BY <1>1 DEF PoolInv, PoolSound, Connected3, PooledConns
<1>12. \A d, e \in Live' : d # e => ctx'[d].conn # ctx'[e].conn
  BY <1>6, <1>7 DEF PoolInv, PoolSound
<1>13. {ctx'[d].conn : d \in Live'} = {ctx[d].conn : d \in Live} \ {k}
  BY <1>1, <1>6, <1>7
<1>14. CASE k \in keep
  <2> DEFINE entry == [epoch |-> epoch + 1, conn |-> k]
  <2>1. /\ prev' = (IF ticking THEN prev ELSE epoch) /\ ticking' = TRUE
        /\ epoch' = epoch + 1 /\ pool' = Append(pool, entry)
        /\ sock' = sock /\ keep' = keep /\ reused' = reused
    BY <1>14 DEF Release, conns
  <2>2. entry \in PoolEntry /\ entry.epoch = epoch + 1 /\ entry.conn = k
    BY <1>1, <1>2 DEF PoolEntry
  <2> HIDE DEF entry
  <2>3. /\ pool' \in Seq(PoolEntry) /\ Len(pool') = n + 1 /\ DOMAIN pool' = 1..(n + 1)
        /\ pool'[n + 1] = entry /\ \A i \in 1..n : pool'[i] = pool[i]
    BY <2>1, <2>2, <1>1
  <2>4. \A i \in 1..(n + 1) : i \in 1..n \/ i = n + 1
    BY <1>1
  <2>5. PooledConns' = PooledConns \cup {k}
    <3>1. {pool'[i].conn : i \in 1..(n + 1)} = {pool[i].conn : i \in 1..n} \cup {k}
      <4>1. n + 1 \in 1..(n + 1) /\ \A i \in 1..n : i \in 1..(n + 1)
        BY <1>1
      <4> QED BY <4>1, <2>2, <2>3, <2>4
    <3> QED BY <3>1, <2>3, <1>11 DEF PooledConns
  <2>6. PoolTypes'
    BY <2>1, <2>3, <1>1, <1>3, <1>5 DEF PoolTypes
  <2>7. \A i, j \in DOMAIN pool' : i < j =>
          pool'[i].conn # pool'[j].conn /\ pool'[i].epoch < pool'[j].epoch
    <3> SUFFICES ASSUME NEW i \in 1..(n + 1), NEW j \in 1..(n + 1), i < j
                 PROVE  pool'[i].conn # pool'[j].conn /\ pool'[i].epoch < pool'[j].epoch
      BY <2>3
    <3>1. CASE j \in 1..n
      BY <3>1, <2>3, <1>1, <1>9
    <3>2. CASE j = n + 1
      <4>0. n \in Nat /\ \A d \in 1..n : pool[d].conn \in Conns
        BY <1>1
      <4>1. i \in 1..n
        <5> HIDE DEF n
        <5> QED BY <3>2, <4>0
      <4>2. pool[i].conn \in PooledConns /\ pool[i].epoch <= epoch
        BY <4>0, <4>1, <1>10, <1>1 DEF PooledConns
      <4> QED BY <4>1, <4>2, <3>2, <2>2, <2>3, <1>1, <1>2
    <3> QED BY <3>1, <3>2, <2>4
  <2>8. PoolSound'
    <3>1. \A d \in Live' : ctx'[d].conn \notin PooledConns'
      BY <2>5, <1>6, <1>7, <1>11
    <3>2. {j \in Conns : sock'[j] # "unused"} = PooledConns' \cup {ctx'[d].conn : d \in Live'}
      BY <2>1, <2>5, <1>1, <1>11, <1>13
    <3>3. ticking' /\ Last(pool').epoch <= epoch'
      BY <2>1, <2>2, <2>3, <1>1 DEF Last
    <3>4. \A j \in PooledConns' : j \in keep' /\ sock'[j] \in {"open", "dead", "closed"}
      BY <2>1, <2>5, <1>2, <1>11, <1>14 DEF Connected3
    <3> QED BY <1>12, <2>7, <3>1, <3>2, <3>3, <3>4 DEF PoolSound, Last
  <2>9. ContextsSound' /\ UnusedSound'
    BY <2>1, <1>5, <1>6, <1>7 DEF PoolInv, ContextsSound, UnusedSound
  <2> QED BY <2>6, <2>8, <2>9, <1>8 DEF PoolInv
<1>15. CASE k \notin keep
  <2>1. /\ prev' = prev /\ ticking' = ticking /\ epoch' = epoch /\ pool' = pool
        /\ sock' = [sock EXCEPT ![k] = "unused"] /\ keep' = keep /\ reused' = reused \ {k}
    BY <1>15 DEF Release, poolVars
  <2>2. /\ sock' \in [Conns -> SocketStates] /\ sock'[k] = "unused"
        /\ \A j \in Conns \ {k} : sock'[j] = sock[j]
    BY <2>1, <1>1, <1>2 DEF SocketStates
  <2>3. PooledConns' = PooledConns /\ PooledConns \subseteq Conns \ {k}
    BY <2>1, <1>1, <1>2, PoolEntries DEF PooledConns
  <2>4. PoolTypes'
    BY <2>1, <2>2, <1>1, <1>3, <1>5 DEF PoolTypes
  <2>5. PoolSound'
    <3>1. \A d \in Live' : ctx'[d].conn \notin PooledConns'
      BY <2>3, <1>6, <1>7, <1>11
    <3>2. {j \in Conns : sock'[j] # "unused"} = PooledConns' \cup {ctx'[d].conn : d \in Live'}
      <4>1. \A j \in Conns : sock'[j] # "unused" <=> sock[j] # "unused" /\ j # k
        BY <2>2
      <4>2. {j \in Conns : sock'[j] # "unused"} = {j \in Conns : sock[j] # "unused"} \ {k}
        BY <4>1
      <4> QED BY <4>2, <2>3, <1>11, <1>13
    <3>3. pool' # <<>> => ticking' /\ Last(pool').epoch <= epoch'
      BY <2>1 DEF PoolInv, PoolSound
    <3>4. \A j \in PooledConns' : j \in keep' /\ sock'[j] \in {"open", "dead", "closed"}
      BY <2>1, <2>2, <2>3, <1>11 DEF Connected3
    <3>5. \A i, j \in DOMAIN pool' : i < j =>
            pool'[i].conn # pool'[j].conn /\ pool'[i].epoch < pool'[j].epoch
      BY <2>1, <1>1, <1>9
    <3> QED BY <1>12, <3>1, <3>2, <3>3, <3>4, <3>5 DEF PoolSound, Last
  <2>6. ContextsSound'
    <3> SUFFICES ASSUME NEW d \in Live'
                 PROVE  /\ ctx'[d].conn \in Conns
                        /\ Needs(ctx'[d], keep', reused') => sock'[ctx'[d].conn] \in Connected3
      BY DEF ContextsSound
    <3>1. d \in Live \ {c} /\ ctx[d].conn \in Conns \ {k} /\ ctx'[d] = ctx[d]
      BY <1>6, <1>7
    <3> QED BY <3>1, <2>1, <2>2 DEF PoolInv, ContextsSound, Needs
  <2>7. UnusedSound'
    BY <2>1, <2>2, <1>1, <1>5 DEF PoolInv, UnusedSound
  <2> QED BY <2>4, <2>5, <2>6, <2>7, <1>8 DEF PoolInv
<1> QED BY <1>14, <1>15

\* The timer takes connections from the beginning of the pool.
LEMMA PoolTimerStep ==
    ASSUME PoolInv, PoolTimer
    PROVE  PoolInv'
<1> DEFINE m == Len(pool)
<1>1. /\ pool \in Seq(PoolEntry) /\ m \in Nat /\ DOMAIN pool = 1..m
      /\ \A i \in 1..m : pool[i].conn \in Conns /\ pool[i].epoch \in Nat
      /\ sock \in [Conns -> SocketStates] /\ epoch \in Nat /\ keep \subseteq Conns
      /\ reused \subseteq Conns
  BY PoolEntries DEF PoolInv, PoolTypes
<1>2. PICK n \in 0..m : LET erased == {pool[i].conn : i \in 1..n} IN
        /\ Expired(n)
        /\ sock' = [k \in Conns |-> IF k \in erased THEN "unused" ELSE sock[k]]
        /\ keep' = keep \ erased
        /\ reused' = reused \ erased
        /\ pool' = SubSeq(pool, n + 1, m)
  BY DEF PoolTimer
<1> DEFINE erased == {pool[i].conn : i \in 1..n}
<1>3. /\ sock' = [k \in Conns |-> IF k \in erased THEN "unused" ELSE sock[k]]
      /\ keep' = keep \ erased /\ reused' = reused \ erased
      /\ pool' = SubSeq(pool, n + 1, m)
      /\ prev = epoch => n = m
  BY <1>2 DEF Expired
<1>4. /\ ticking' = (prev # epoch) /\ prev' = epoch
      /\ client' = client /\ issued' = issued /\ ctx' = ctx /\ epoch' = epoch /\ queue' = queue
  BY DEF PoolTimer, line
<1>5. /\ pool' \in Seq(PoolEntry) /\ Len(pool') = m - n /\ DOMAIN pool' = 1..(m - n)
      /\ \A i \in 1..(m - n) : pool'[i] = pool[n + i] /\ n + i \in 1..m /\ n + i > n
  <2>1. pool \in Seq(PoolEntry) /\ n \in 0..m /\ m \in Nat
    BY <1>1
  <2>3. /\ pool' \in Seq(PoolEntry) /\ Len(pool') = m - n /\ DOMAIN pool' = 1..(m - n)
        /\ \A i \in 1..(m - n) : pool'[i] = pool[n + i]
    BY <1>3, <2>1
  <2> HIDE DEF m
  <2> QED BY <2>1, <2>3
<1>6. \A i, j \in 1..m : i < j => pool[i].conn # pool[j].conn /\ pool[i].epoch < pool[j].epoch
  BY <1>1 DEF PoolInv, PoolSound
<1>7. PooledConns = {pool[i].conn : i \in 1..m} /\ erased \subseteq PooledConns
      /\ erased \subseteq Conns
  BY <1>1 DEF PooledConns
<1>8. PooledConns' = PooledConns \ erased
  <2>1. PooledConns' = {pool[n + i].conn : i \in 1..(m - n)}
    BY <1>5 DEF PooledConns
  <2>2. ASSUME NEW i \in 1..(m - n)
        PROVE  pool[n + i].conn \in PooledConns \ erased
    BY <1>1, <1>5, <1>6, <1>7
  <2>3. ASSUME NEW k \in PooledConns \ erased
        PROVE  \E i \in 1..(m - n) : k = pool[n + i].conn
    <3>1. PICK j \in 1..m : k = pool[j].conn
      BY <1>7
    <3>3. j - n \in 1..(m - n) /\ n + (j - n) = j
      BY <1>1, <3>1
    <3> QED BY <3>1, <3>3
  <2> QED BY <2>1, <2>2, <2>3
<1> HIDE DEF erased
<1>11. \A k \in Conns : sock'[k] = IF k \in erased THEN "unused" ELSE sock[k]
  BY <1>3
<1>12. PoolSound'
  <2>3. pool' # <<>> => ticking' /\ Last(pool').epoch <= epoch'
    <3> SUFFICES ASSUME pool' # <<>>
                 PROVE  ticking' /\ Last(pool').epoch <= epoch'
      OBVIOUS
    <3>2. Last(pool') = pool[m]
      BY <1>1, <1>5 DEF Last
    <3>3. prev # epoch /\ pool # <<>>
      <4>3. pool = <<>> => m = 0
        OBVIOUS
      <4> HIDE DEF m
      <4> QED BY <1>1, <1>3, <1>5, <4>3
    <3> QED BY <3>2, <3>3, <1>4 DEF PoolInv, PoolSound, Last
  <2>4. \A j \in PooledConns' : j \in keep' /\ sock'[j] \in {"open", "dead", "closed"}
    BY <1>1, <1>3, <1>7, <1>8, <1>11 DEF PoolInv, PoolSound
  <2>5. \A i, j \in DOMAIN pool' : i < j =>
          pool'[i].conn # pool'[j].conn /\ pool'[i].epoch < pool'[j].epoch
    <3> SUFFICES ASSUME NEW i \in 1..(m - n), NEW j \in 1..(m - n), i < j
                 PROVE  pool'[i].conn # pool'[j].conn /\ pool'[i].epoch < pool'[j].epoch
      BY <1>5
    <3>2. pool'[i] = pool[n + i] /\ pool'[j] = pool[n + j]
      BY <1>5
    <3> QED BY <1>1, <1>5, <1>6, <3>2
  <2> QED
    BY <1>4, <1>7, <1>8, <1>11, <2>3, <2>4, <2>5, LiveContext DEF PoolSound, Last, PoolInv, Live
<1> QED
  BY <1>1, <1>3, <1>4, <1>5, <1>7, <1>11, <1>12, LiveContext DEF PoolInv, UnusedSound, QueueSound,
     PoolTypes, SocketStates, ContextsSound, Needs, Live

\* A cancellation closes connections of contexts in use, and never one of the pool.
LEMMA CancelStep ==
    ASSUME PoolInv, NEW r \in Requests, CancelToken(r)
    PROVE  PoolInv'
<1> DEFINE live == {c \in Contexts : ctx[c].req = r /\ ctx[c].listening /\ ctx[c].at # "done"}
           closed == {ctx[c].conn : c \in live}
<1>1. /\ ctx \in [Contexts -> AnyContext] /\ sock \in [Conns -> SocketStates]
      /\ queue \in Seq(Contexts) /\ keep \subseteq Conns /\ pool \in Seq(PoolEntry)
  BY DEF PoolInv, PoolTypes
<1>2. /\ sock' = [k \in Conns |-> IF k \in closed THEN "closed" ELSE sock[k]]
      /\ keep' = keep \ closed
      /\ ctx' = [c \in Contexts |-> IF c \in live THEN Aborted(ctx[c]) ELSE ctx[c]]
      /\ client' = client /\ issued' = issued /\ reused' = reused /\ pool' = pool
      /\ epoch' = epoch /\ prev' = prev /\ ticking' = ticking /\ queue' = queue
  BY DEF CancelToken, poolVars, line
<1>4. \A d \in Contexts :
        /\ ctx'[d] \in AnyContext /\ ctx'[d].conn = ctx[d].conn /\ ctx'[d].at = ctx[d].at
        /\ ctx'[d].listening = ctx[d].listening
        /\ ctx'[d].result = "ok" => ctx[d].result = "ok"
        /\ d \notin live => ctx'[d] = ctx[d]
  <2> SUFFICES ASSUME NEW d \in Contexts
               PROVE  /\ ctx'[d] \in AnyContext /\ ctx'[d].conn = ctx[d].conn
                      /\ ctx'[d].at = ctx[d].at /\ ctx'[d].listening = ctx[d].listening
                      /\ ctx'[d].result = "ok" => ctx[d].result = "ok"
                      /\ d \notin live => ctx'[d] = ctx[d]
    OBVIOUS
  <2> HIDE DEF live
  <2> QED BY <1>1, <1>2, AbortedKeeps
<1>5. \A d \in Live : ctx[d].conn \in Conns /\ sock[ctx[d].conn] # "unused"
                      /\ ctx[d].conn \notin PooledConns /\ d \in Contexts
  BY LiveContext
<1>6. \A k \in closed : sock[k] # "unused" /\ k \notin PooledConns
  BY <1>5 DEF PoolInv, UnusedSound, Live
<1> HIDE DEF live
<1>7. \A d \in live : ctx[d].conn \in closed
  OBVIOUS
<1> HIDE DEF closed
<1>8. \A k \in Conns : sock'[k] = IF k \in closed THEN "closed" ELSE sock[k]
  BY <1>2
<1>9. \A d \in Live : Needs(ctx'[d], keep', reused) => sock'[ctx[d].conn] \in Connected3
  <2> SUFFICES ASSUME NEW d \in Live, Needs(ctx'[d], keep', reused)
               PROVE  sock'[ctx[d].conn] \in Connected3
    OBVIOUS
  <2>1. CASE ctx[d].conn \in closed
    BY <2>1, <1>5, <1>8 DEF Connected3
  <2>2. CASE ctx[d].conn \notin closed
    BY <1>2, <1>4, <1>5, <1>7, <1>8, <2>2 DEF PoolInv, ContextsSound, Needs
  <2> QED BY <2>1, <2>2
<1>12. \A k \in Conns : sock'[k] = "unused" <=> sock[k] = "unused"
  BY <1>6, <1>8
<1>13. /\ \A k \in PooledConns : sock[k] \in Connected3 => sock'[k] \in Connected3
       /\ \A k \in PooledConns : k \in keep => k \in keep'
  BY <1>1, <1>2, <1>6, <1>8, PoolEntries
<1>14. QueueSound' /\ queue' \in Seq(Contexts)
  BY <1>1, <1>2, <1>4 DEF PoolInv, QueueSound
<1> QED BY <1>1, <1>2, <1>4, <1>9, <1>12, <1>13, <1>14, SameConnections DEF SocketStates

LEMMA PeerClosesStep ==
    ASSUME PoolInv, NEW k \in Conns, PeerCloses(k)
    PROVE  PoolInv'
  BY PoolEntries, SameConnections DEF Connected3, PoolInv, ContextsSound, SocketStates,
     PeerCloses, poolVars, line, PoolTypes, QueueSound

\* What the network makes of an operation connects a socket or breaks it.
LEMMA CompleteOpStep ==
    ASSUME PoolInv, NEW c \in Contexts, Complete(c)
    PROVE  PoolInv'
<1> DEFINE x == ctx[c]
           k == ctx[c].conn
<1>1. c \in Live /\ (x.at \in OnSocket \/ x.at \in Resolving) /\ x.at # "queued"
      /\ ctx \in [Contexts -> AnyContext] /\ sock \in [Conns -> SocketStates]
  BY PointKinds DEF Complete, Pending, Live, PoolInv, PoolTypes
<1>2. /\ k \in Conns /\ sock[k] \in SocketStates \ {"unused"} /\ x \in AnyContext
      /\ Needs(x, keep, reused) => sock[k] \in Connected3
  BY <1>1, LiveContext
<1>3. PICK result \in Outcomes(x) :
        /\ ctx' = [ctx EXCEPT ![c].result = result]
        /\ sock' = [sock EXCEPT ![k] =
                CASE x.at \in Resolving -> @
                  [] x.at \in Connecting -> IF result = "ok" THEN "open" ELSE @
                  [] OTHER -> IF result = "ok" THEN @ ELSE "dead"]
  BY DEF Complete
<1> DEFINE y == [x EXCEPT !.result = result]
<1>6. y \in AnyContext /\ y.at = x.at /\ y.conn = k /\ y.result = result
      /\ ctx' = [ctx EXCEPT ![c] = y]
  BY <1>1, <1>2, <1>3 DEF AnyContext, Results, Outcomes, OnSocket
<1> HIDE DEF y
<1> DEFINE s == sock'[k]
<1>7. /\ sock' = [sock EXCEPT ![k] = s]
      /\ x.at \in Resolving => s = sock[k]
      /\ x.at \in Connecting => s = (IF result = "ok" THEN "open" ELSE sock[k])
      /\ x.at \notin Resolving /\ x.at \notin Connecting =>
            s = (IF result = "ok" THEN sock[k] ELSE "dead")
  BY <1>1, <1>2, <1>3 DEF Resolving, Connecting
<1> HIDE DEF s
<1>9. Needs(y, keep', reused') => s \in Connected3
  <2> SUFFICES ASSUME Needs(y, keep, reused)
               PROVE  s \in Connected3
    BY DEF Complete, poolVars, line
  <2>1. CASE x.at \in Resolving
    BY <1>1, <1>2, <1>6, <1>7, <2>1, PointKinds DEF Needs
  <2>2. CASE x.at \in Connecting
    BY <1>6, <1>7, <2>2, PointKinds DEF Connected3, Needs
  <2>3. CASE x.at \notin Resolving /\ x.at \notin Connecting
    BY <1>1, <1>2, <1>7, <2>3, PointKinds DEF Connected3, Needs
  <2> QED BY <2>1, <2>2, <2>3
<1> QED
  BY <1>1, <1>2, <1>6, <1>7, <1>9, LiveContext, OneGoesOn DEF GoesOn, PoolInv, PoolTypes,
     Complete, poolVars, line, SocketStates

-----------------------------------------------------------------------------
(* The handlers of operations that completed.                                 *)

\* A context whose connection is connected goes on to y, past the connecting.
LEMMA JoinedGoesOn ==
    ASSUME PoolInv, NEW c \in Live, ctx[c].at # "queued", NEW y \in AnyContext,
           sock[ctx[c].conn] \in Connected3, y.conn = ctx[c].conn,
           y.at \in Joined,
           ctx' = [ctx EXCEPT ![c] = y], UNCHANGED <<client, issued, conns, poolVars, line>>
    PROVE  PoolInv'
  BY PointKinds, GoStep

\* Where the flow is past the connecting, the connection is connected.
LEMMA JoinedIsConnected ==
    ASSUME PoolInv, NEW c \in Contexts,
           ctx[c].at \in Joined \/ (ctx[c].at \in Connecting /\ ctx[c].result = "ok")
    PROVE  /\ c \in Live /\ ctx[c].at # "queued" /\ ctx[c] \in AnyContext
           /\ sock[ctx[c].conn] \in Connected3
  BY PointKinds, LiveContext DEF Needs, Live

LEMMA JoinedPoints ==
    /\ Writes \cup Reads \cup {"handshake", "getn", "store"} \subseteq Points
    /\ {"headers", "large", "chunked", "last", "tunnelWrite", "status", "content", "chunkHeader",
        "chunk", "tunnelStatus", "handshake", "getn", "store"} \subseteq Joined \cap Points
    /\ {"connect", "tunnelConnect"} = Connecting
  BY DEF Writes, Reads, Joined, Points, OnSocket, Connecting

LEMMA ConnectedStep ==
    ASSUME PoolInv, NEW c \in Contexts, Connected(c) \/ TunnelConnected(c)
    PROVE  PoolInv'
<1> DEFINE x == Reset(ctx[c])
           y == WriteRequest(x)
           z == Op(x, "tunnelWrite")
<1>1. c \in Live /\ ctx[c].at \in Connecting /\ ctx[c].at # "queued"
  BY DEF Connected, TunnelConnected, At, Connecting, Live
<1>2. \/ \E what \in {"canceled", Error(c)} : Report(c, what)
      \/ \E k \in Conns : NextEndpoint(c, k)
      \/ ctx[c].result = "ok" /\ (Go(c, y) \/ Go(c, z))
  BY DEF Connected, TunnelConnected
<1>3. x \in AnyContext /\ x.conn = ctx[c].conn
  BY <1>1, LiveContext, TimersKeep
<1> HIDE DEF x
<1>4. y \in AnyContext /\ y.conn = ctx[c].conn /\ y.at \in Joined
  BY <1>3, WriteRequestKeeps, JoinedPoints
<1>5. z \in AnyContext /\ z.conn = ctx[c].conn /\ z.at \in Joined
  BY <1>3, OpKeeps, JoinedPoints
<1> HIDE DEF y, z
<1>6. CASE \E what \in {"canceled", Error(c)} : Report(c, what)
  BY <1>1, <1>6, ReportStep
<1>7. CASE \E k \in Conns : NextEndpoint(c, k)
  BY <1>1, <1>7, NextEndpointStep
<1>8. CASE ctx[c].result = "ok" /\ (Go(c, y) \/ Go(c, z))
  BY <1>1, <1>4, <1>5, <1>8, JoinedIsConnected, JoinedGoesOn, GoIsQuiet
<1> QED BY <1>2, <1>6, <1>7, <1>8

\* The handlers that start the next operation on the same connection.
LEMMA NextOpStep ==
    ASSUME PoolInv, NEW c \in Contexts, ctx[c].at \in Joined, NEW point \in Joined \cap Points,
           NEW x \in AnyContext, x.conn = ctx[c].conn, Go(c, Op(x, point))
    PROVE  PoolInv'
  BY OpKeeps, JoinedIsConnected, JoinedGoesOn, GoIsQuiet

LEMMA WritingSteps ==
    ASSUME PoolInv, NEW c \in Contexts,
           TunnelWritten(c) \/ Handshaken(c) \/ AllWritten(c)
    PROVE  PoolInv'
  BY JoinedPoints, JoinedIsConnected, TimersKeep, NextOpStep DEF TunnelWritten, Handshaken,
     AllWritten, Ok

LEMMA TunnelEstablishedStep ==
    ASSUME PoolInv, NEW c \in Contexts, TunnelEstablished(c)
    PROVE  PoolInv'
  BY JoinedPoints, JoinedIsConnected, ReportStep, FlowStep DEF TunnelEstablished, Ok

LEMMA FailingSteps ==
    ASSUME PoolInv, NEW c \in Contexts, OperationFailed(c) \/ ProgressThrows(c)
    PROVE  PoolInv'
  BY JoinedPoints, PointKinds, ReportStep DEF OperationFailed, ProgressThrows, Unbounded, Live,
     ProgressPoints

LEMMA BodyWrittenStep ==
    ASSUME PoolInv, NEW c \in Contexts, BodyWritten(c)
    PROVE  PoolInv'
<1> DEFINE x == Reset(ctx[c])
           y == [x EXCEPT !.at = "getn", !.result = "none"]
<1>1. ctx[c].at \in Joined
  BY JoinedPoints DEF BodyWritten
<1>2. x \in AnyContext /\ x.conn = ctx[c].conn
  BY <1>1, JoinedIsConnected, TimersKeep
<1>3. Go(c, y) \/ Go(c, Op(x, "status"))
  BY DEF BodyWritten
<1> HIDE DEF x
<1>4. "getn" \in Points /\ "getn" \in Joined /\ "status" \in Joined \cap Points
      /\ "none" \in Results
  BY JoinedPoints DEF Results
<1>5. y \in AnyContext /\ y.conn = ctx[c].conn /\ y.at = "getn"
  BY <1>2, <1>4 DEF AnyContext
<1> HIDE DEF y
<1>6. CASE Go(c, y)
  BY <1>1, <1>4, <1>5, <1>6, JoinedIsConnected, JoinedGoesOn, GoIsQuiet
<1>7. CASE Go(c, Op(x, "status"))
  BY <1>1, <1>2, <1>4, <1>7, NextOpStep
<1> QED BY <1>3, <1>6, <1>7

LEMMA BodyReadStep ==
    ASSUME PoolInv, NEW c \in Contexts, BodyRead(c)
    PROVE  PoolInv'
<1> DEFINE r == ctx[c].req
           some == r \notin consumed
           point == IF client.bodies[r] = "sized" THEN "large" ELSE IF some THEN "chunked" ELSE "last"
           x == [ctx[c] EXCEPT !.uploaded = some \/ @]
           y == Op(x, point)
<1>1. ctx[c].at \in Joined
  BY JoinedPoints DEF BodyRead, At
<1>3. \/ Report(c, "error")
      \/ ctx' = [ctx EXCEPT ![c] = y] /\ UNCHANGED <<client, issued, conns, poolVars, line>>
  BY DEF BodyRead
<1>4. point \in Points /\ point \in Joined
  BY JoinedPoints
<1> HIDE DEF point
<1> DEFINE up == some \/ ctx[c].uploaded
<1>5. up \in BOOLEAN /\ x = [ctx[c] EXCEPT !.uploaded = up]
  OBVIOUS
<1> HIDE DEF up, some, x
<1>7. y \in AnyContext /\ y.conn = ctx[c].conn /\ y.at \in Joined
  BY <1>1, <1>4, <1>5, JoinedIsConnected, OpKeeps DEF AnyContext
<1> HIDE DEF y
<1> QED BY <1>1, <1>3, <1>7, JoinedIsConnected, ReportStep, JoinedGoesOn

-----------------------------------------------------------------------------
(* The handlers that read the response.                                       *)

LEMMA BufferedIsMoved ==
    ASSUME NEW x \in AnyContext, NEW closed, NEW point \in Points \cap Joined,
           NEW y \in MayBeBuffered(x, closed, point)
    PROVE  y \in AnyContext /\ y.conn = x.conn /\ y.at \in Joined
<1>1. PICK result \in Results : y = [x EXCEPT !.at = point, !.result = result]
  BY DEF MayBeBuffered, Results
<1> QED BY <1>1 DEF AnyContext

\* The headers: the connection is closed, or stays as it was.
LEMMA HeadersStep ==
    ASSUME PoolInv, NEW c \in Contexts, ctx[c].at = "status", ctx[c].result = "ok",
           NEW reply \in client.replies, NEW throws \in BOOLEAN, Headers(c, reply, throws)
    PROVE  PoolInv'
<1> DEFINE x == [Reset(ctx[c]) EXCEPT !.length = reply.length]
           k == x.conn
           known == reply.encoding = "known"
           broken == ~known \/ throws
           closed == sock[k] = "closed" \/ broken
           n == (IF known THEN 0 ELSE 1) + (IF NoBody(reply) THEN 1 ELSE 0)
           s == IF broken THEN "closed" ELSE sock[k]
<1>1. ctx[c].at \in Joined
  BY JoinedPoints
<1>2. /\ c \in Live /\ ctx[c] \in AnyContext /\ ctx[c].at # "queued"
      /\ ctx[c].conn \in Conns /\ sock[ctx[c].conn] \in Connected3
      /\ sock \in [Conns -> SocketStates] /\ keep \subseteq Conns
  BY <1>1, JoinedIsConnected, LiveContext DEF PoolInv, PoolTypes
<1>4. x \in AnyContext /\ x.conn = ctx[c].conn
  <2> DEFINE y == Reset(ctx[c])
  <2>1. y \in AnyContext /\ y.conn = ctx[c].conn
    BY <1>2, TimersKeep
  <2> DEFINE length == reply.length
  <2>2. x = [y EXCEPT !.length = length] /\ length \in Lengths
    BY DEF PoolInv, PoolTypes, AllClients, AllReplies, Lengths
  <2> HIDE DEF y, x, length
  <2> QED BY <2>1, <2>2 DEF AnyContext
<1>5. /\ keep' = (IF broken THEN keep \ {k} ELSE KeepAlive(k, reply))
      /\ sock' = (IF broken THEN [sock EXCEPT ![k] = "closed"] ELSE sock)
      /\ client' = client /\ issued' = issued /\ reused' = reused /\ pool' = pool
      /\ epoch' = epoch /\ prev' = prev /\ ticking' = ticking
  BY DEF Headers, poolVars
<1>6. PICK y \in IF NoBody(reply) THEN {[x EXCEPT !.at = "done"]}
                 ELSE MayBeBuffered(x, closed, BodyPoint(reply)) :
        Finish(x.req, n, [ctx EXCEPT ![c] = y])
  BY DEF Headers
<1> HIDE DEF x
<1>7. y \in AnyContext /\ y.conn = k /\ y.at # "unused"
  <2>2. CASE NoBody(reply)
    BY <1>4, <1>6, <2>2, PointKinds DEF AnyContext
  <2>3. CASE ~NoBody(reply)
    <3> HIDE DEF closed
    <3> QED BY <1>4, <1>6, <2>3, JoinedPoints, BufferedIsMoved, PointKinds DEF BodyPoint
  <2> QED BY <2>2, <2>3
<1>8. sock' = [sock EXCEPT ![k] = s] /\ s \in Connected3 /\ s \in SocketStates \ {"unused"}
  BY <1>2, <1>4, <1>5 DEF Connected3, SocketStates
<1>9. keep' \subseteq Conns /\ keep' \ {k} = keep \ {k}
  BY <1>2, <1>4, <1>5 DEF KeepAlive, PoolInv, PoolTypes, AllClients, AllReplies
<1>10. n \in Nat
  OBVIOUS
<1> HIDE DEF n, s, k
<1>11. GoesOn(c, y, s)
  BY <1>2, <1>4, <1>5, <1>7, <1>8, <1>9 DEF GoesOn, k
<1> QED BY <1>2, <1>6, <1>7, <1>10, <1>11, OneFinishes

LEMMA StatusReadStep ==
    ASSUME PoolInv, NEW c \in Contexts, StatusRead(c)
    PROVE  PoolInv'
  BY JoinedPoints, JoinedIsConnected, ReportStep, HeadersStep DEF StatusRead, Ok

\* The handlers of the chunks, and what the stream of the response took.
LEMMA ChunkHeaderReadStep ==
    ASSUME PoolInv, NEW c \in Contexts, ChunkHeaderRead(c)
    PROVE  PoolInv'
<1> DEFINE x == Reset(ctx[c])
           closed == sock[ctx[c].conn] = "closed"
<1>1. ctx[c].at \in Joined
  BY JoinedPoints DEF ChunkHeaderRead, Ok
<1>2. x \in AnyContext /\ x.conn = ctx[c].conn
  BY <1>1, JoinedIsConnected, TimersKeep
<1>3. Report(c, Error(c)) \/ \E y \in MayBeBuffered(x, closed, "chunk") : Go(c, y)
  BY DEF ChunkHeaderRead
<1> HIDE DEF x, closed
<1>4. CASE Report(c, Error(c))
  BY <1>1, <1>4, JoinedIsConnected, ReportStep
<1>5. ASSUME NEW y \in MayBeBuffered(x, closed, "chunk"), Go(c, y)
      PROVE  PoolInv'
  BY <1>1, <1>2, <1>5, JoinedPoints, BufferedIsMoved, JoinedIsConnected, JoinedGoesOn, GoIsQuiet
<1> QED BY <1>3, <1>4, <1>5

LEMMA ReadingSteps ==
    ASSUME PoolInv, NEW c \in Contexts, ChunkRead(c) \/ ContentRead(c)
    PROVE  PoolInv'
<1> DEFINE x == Reset(ctx[c])
           y == [x EXCEPT !.at = "store", !.result = "none"]
           z == [y EXCEPT !.length = "sized"]
<1>1. ctx[c].at \in Joined
  BY JoinedPoints DEF ChunkRead, ContentRead, Ok, At
<1>2. x \in AnyContext /\ x.conn = ctx[c].conn
  BY <1>1, JoinedIsConnected, TimersKeep
<1>3. CompleteRequest(c) \/ Go(c, y) \/ Go(c, z)
  BY DEF ChunkRead, ContentRead
<1> HIDE DEF x
<1>4. "store" \in Points /\ "store" \in Joined /\ "none" \in Results /\ "sized" \in Lengths
  BY JoinedPoints DEF Results, Lengths
<1>5. y \in AnyContext /\ y.conn = ctx[c].conn /\ y.at = "store"
  BY <1>2, <1>4 DEF AnyContext
<1> HIDE DEF y
<1>6. z \in AnyContext /\ z.conn = ctx[c].conn /\ z.at = "store"
  BY <1>4, <1>5 DEF AnyContext
<1> HIDE DEF z
<1>7. CASE CompleteRequest(c)
  BY <1>1, <1>7, JoinedIsConnected, CompleteStep
<1>8. CASE Go(c, y) \/ Go(c, z)
  BY <1>1, <1>4, <1>5, <1>6, <1>8, JoinedIsConnected, JoinedGoesOn, GoIsQuiet
<1> QED BY <1>3, <1>7, <1>8

LEMMA StoredStep ==
    ASSUME PoolInv, NEW c \in Contexts, Stored(c)
    PROVE  PoolInv'
<1> DEFINE x == [ctx[c] EXCEPT !.downloaded = TRUE]
           closed == sock[x.conn] = "closed"
           y == [x EXCEPT !.at = "content", !.result = "ok"]
<1>1. ctx[c].at \in Joined
  BY JoinedPoints DEF Stored, At
<1>2. x \in AnyContext /\ x.conn = ctx[c].conn
  BY <1>1, JoinedIsConnected DEF AnyContext
<1>3. \/ Report(c, "error")
      \/ \E w \in MayBeBuffered(x, closed, "chunkHeader") : Go(c, w)
      \/ Go(c, y) \/ Go(c, Op(x, "content"))
  BY DEF Stored
<1> HIDE DEF x, closed
<1>4. {"content", "chunkHeader"} \subseteq Points \cap Joined /\ "ok" \in Results
  BY JoinedPoints DEF Results
<1>5. y \in AnyContext /\ y.conn = ctx[c].conn /\ y.at = "content"
  BY <1>2, <1>4 DEF AnyContext
<1> HIDE DEF y
<1>6. CASE Report(c, "error")
  BY <1>1, <1>6, JoinedIsConnected, ReportStep
<1>7. ASSUME NEW w \in MayBeBuffered(x, closed, "chunkHeader"), Go(c, w)
      PROVE  PoolInv'
  BY <1>1, <1>2, <1>4, <1>7, BufferedIsMoved, JoinedIsConnected, JoinedGoesOn, GoIsQuiet
<1>8. CASE Go(c, y)
  BY <1>1, <1>4, <1>5, <1>8, JoinedIsConnected, JoinedGoesOn, GoIsQuiet
<1>9. CASE Go(c, Op(x, "content"))
  BY <1>1, <1>2, <1>4, <1>9, NextOpStep
<1> QED BY <1>3, <1>6, <1>7, <1>8, <1>9

-----------------------------------------------------------------------------
(* The invariant and its consequence.                                         *)

LEMMA PoolInvInit == Init => PoolInv
<1> SUFFICES ASSUME Init
             PROVE  PoolInv
  OBVIOUS
<1>2. Unused \in AnyContext /\ Unused.at = "unused" /\ ~Unused.listening
  BY HttpClientAssumption, PointKinds DEF Unused, AnyContext, ConnNames, Results, Clocks, Alarms,
     Lengths, AllClients, Init
<1>4. PoolTypes
  <2>1. ctx \in [Contexts -> AnyContext] /\ issued \in 0..N
    BY <1>2, HttpClientAssumption DEF Init, Live
  <2>3. pool \in Seq(PoolEntry) /\ queue \in Seq(Contexts)
    BY DEF Init
  <2> QED BY <2>1, <2>3, HttpClientAssumption DEF PoolTypes, Init, SocketStates
<1> QED
  BY <1>2, <1>4 DEF PoolInv, Init, ContextsSound, UnusedSound, QueueSound, PoolSound, PooledConns,
     Live

LEMMA HandlerStep ==
    ASSUME PoolInv, NEW c \in Contexts, Handler(c)
    PROVE  PoolInv'
<1>1. CASE Send(c)
  BY <1>1, SendStep
<1>2. CASE Resolved(c)
  BY <1>2, ResolvedStep
<1>3. CASE Connected(c) \/ TunnelConnected(c)
  BY <1>3, ConnectedStep
<1>4. CASE TunnelWritten(c) \/ Handshaken(c) \/ AllWritten(c)
  BY <1>4, WritingSteps
<1>5. CASE TunnelEstablished(c)
  BY <1>5, TunnelEstablishedStep
<1>6. CASE OperationFailed(c) \/ ProgressThrows(c)
  BY <1>6, FailingSteps
<1>7. CASE BodyWritten(c)
  BY <1>7, BodyWrittenStep
<1>8. CASE BodyRead(c)
  BY <1>8, BodyReadStep
<1>9. CASE StatusRead(c)
  BY <1>9, StatusReadStep
<1>10. CASE ChunkHeaderRead(c)
  BY <1>10, ChunkHeaderReadStep
<1>11. CASE ChunkRead(c) \/ ContentRead(c)
  BY <1>11, ReadingSteps
<1>12. CASE Stored(c)
  BY <1>12, StoredStep
<1>13. CASE \E d \in Contexts, k \in Conns : Resend(c, d, k)
  BY <1>13, ResendStep
<1> QED
  BY <1>1, <1>2, <1>3, <1>4, <1>5, <1>6, <1>7, <1>8, <1>9, <1>10, <1>11, <1>12, <1>13 DEF Handler

LEMMA PoolInvStep == PoolInv /\ [Next]_vars => PoolInv'
<1> SUFFICES ASSUME PoolInv, [Next]_vars
             PROVE  PoolInv'
  OBVIOUS
<1>1. CASE \E c \in Contexts : ContextStep(c)
  BY <1>1, HandlerStep, RingStep, TimeoutStep, ReleaseStep DEF ContextStep
<1>2. CASE \E c \in Contexts : Complete(c)
  BY <1>2, CompleteOpStep
<1>3. CASE \E c \in Contexts, k \in Conns : Propagate(c, k)
  BY <1>3, PropagateStep
<1>4. CASE \E r \in Requests : CancelToken(r)
  BY <1>4, CancelStep
<1>5. CASE PoolTimer
  BY <1>5, PoolTimerStep
<1>6. CASE \E k \in Conns : PeerCloses(k)
  BY <1>6, PeerClosesStep
<1>7. CASE UNCHANGED vars
  <2>1. /\ client' = client /\ issued' = issued /\ ctx' = ctx /\ sock' = sock
        /\ keep' = keep /\ reused' = reused /\ pool' = pool /\ epoch' = epoch
        /\ prev' = prev /\ ticking' = ticking /\ queue' = queue
    BY <1>7 DEF vars, conns, poolVars, line
  <2> QED
    BY <2>1 DEF PoolInv, PoolTypes, QueueSound, UnusedSound, ContextsSound, Live, PooledConns,
       PoolSound, Last
<1> QED BY <1>1, <1>2, <1>3, <1>4, <1>5, <1>6, <1>7 DEF Next

\* The types of the client, what its contexts owe to the pool, and the pool
\* itself, in every state (asio_connection_pool, http_client_asio.cpp).
THEOREM PoolInvariant == Spec => []PoolInv
<1>1. Init => PoolInv
  BY PoolInvInit
<1>2. PoolInv /\ [Next]_vars => PoolInv'
  BY PoolInvStep
<1> QED BY <1>1, <1>2, PTL DEF Spec

\* The pool and the contexts share no connection and lose none: whatever
\* requests, timeouts, cancellations, retries and cleanings interleave, a
\* connection belongs to one context or waits in the pool once, in the order of
\* the epochs, with a timer to clean it, and was connected before it waited there.
THEOREM PoolIsSound == Spec => []PoolSound
<1>1. PoolInv => PoolSound
  BY DEF PoolInv
<1> QED BY <1>1, PoolInvariant, PTL

-----------------------------------------------------------------------------
(* What a failure is told for.  FailureTold is a property of steps, and rests  *)
(* on what a context can say of its past: an operation was aborted, or the     *)
(* connection closed under it, only by the cancellation, by the timeout, or    *)
(* while the connection was in the pool.                                       *)

Answers == {"none", "response", "error", "timed_out", "canceled"}
Tunnelling == {"tunnelResolve", "tunnelConnect", "tunnelWrite", "tunnelStatus"}

\* What explains the state of the context x, from the tokens that are cancelled,
\* the answers, the sockets and the connections that were used before.  The
\* tunnel starts the timer again, and forgets that it rang.
Explained(x, tokens, answers, socks, again) ==
    /\ x.result = "abort" => x.req \in tokens \/ x.clock = "timedout"
    /\ x.at \in {"queued", "send"} =>
        x.clock = "created" /\ x.alarm = "idle" /\ x.result = "none"
    /\ x.at \in Tunnelling => client.mode = "tunnel"
    /\ x.at # "done" /\ answers[x.req] = "none" /\ socks[x.conn] = "closed" =>
        \/ x.req \in tokens \/ x.clock = "timedout"
        \/ x.conn \in again \/ client.mode = "tunnel"

AnswersTyped == answer \in [Requests -> Answers]
ContextsExplained ==
    \A c \in Live :
        /\ ctx[c].req \in 1..issued
        /\ Explained(ctx[c], cancelled, answer, sock, reused)
\* Two contexts that are not done serve two requests.
OneEach ==
    \A c, d \in Live :
        ctx[c].at # "done" /\ ctx[d].at # "done" /\ ctx[c].req = ctx[d].req => c = d

TellInv == AnswersTyped /\ ContextsExplained /\ OneEach

\* The step of FailureTold.
ToldRight ==
    \A c \in Contexts :
        LET x == ctx[c]
            told == answer'[x.req]
        IN  x.at \in OnSocket /\ answer[x.req] = "none" /\ told # "none" =>
            /\ told = "canceled" =>
                x.req \in cancelled \/ (x.at = "connect" /\ x.clock = "timedout")
            /\ told = "error" /\ x.result # "ok" /\ sock[x.conn] = "closed" =>
                x.result # "abort" /\ (x.conn \in reused \/ client.mode = "tunnel")

\* What the step of a context may do to another one: take it from the queue, or
\* end it.
Passes(x, z) ==
    \/ z = x
    \/ x.at = "queued" /\ z = [x EXCEPT !.at = "send"]
    \/ x.at # "unused" /\ z = [x EXCEPT !.at = "done"]

LEMMA PassesKeeps ==
    ASSUME NEW x \in AnyContext, NEW z, Passes(x, z)
    PROVE  /\ z \in AnyContext /\ z.req = x.req /\ z.conn = x.conn /\ z.result = x.result
           /\ z.clock = x.clock /\ z.alarm = x.alarm
           /\ z.at \in {x.at, "done"} \/ (x.at = "queued" /\ z.at = "send")
           /\ z.at = "unused" <=> x.at = "unused"
           /\ z.at # "done" => x.at # "done"
<1>2. CASE z = x
  BY <1>2
<1>3. CASE x.at = "queued" /\ z = [x EXCEPT !.at = "send"]
  BY <1>3, PointKinds DEF AnyContext
<1>4. CASE x.at # "unused" /\ z = [x EXCEPT !.at = "done"]
  BY <1>4, PointKinds DEF AnyContext
<1> QED BY <1>2, <1>3, <1>4 DEF Passes

\* What explains a context explains it when it passes, as more tokens are
\* cancelled and more requests answered.
LEMMA StaysExplained ==
    ASSUME NEW x \in AnyContext, NEW z, Passes(x, z),
           NEW tokens, NEW answers, NEW socks, NEW again, Explained(x, tokens, answers, socks, again),
           NEW tokens2, NEW answers2, NEW socks2, NEW again2,
           tokens \subseteq tokens2,
           answers2[x.req] = "none" => answers[x.req] = "none",
           z.at # "done" => /\ socks2[x.conn] = "closed" => socks[x.conn] = "closed"
                            /\ x.conn \in again => x.conn \in again2
    PROVE  Explained(z, tokens2, answers2, socks2, again2)
  BY PassesKeeps DEF Explained, Tunnelling

\* A context that no step touches, and the ones in use.
LEMMA ContextsTyped ==
    ASSUME PoolInv
    PROVE  /\ \A d \in Contexts : ctx[d] \in AnyContext
           /\ \A d \in Live : d \in Contexts /\ ctx[d].conn \in Conns /\ ctx[d].at # "unused"
           /\ \A d, e \in Live : d # e => ctx[d].conn # ctx[e].conn
           /\ \A d \in Contexts : ctx[d].at # "unused" => d \in Live
           /\ issued \in 0..N /\ \A r \in 1..issued : r \in Requests
  BY HttpClientAssumption, LiveContext DEF PoolInv, PoolTypes, PoolSound, Live, Requests

\* A step in which context e becomes y, and the others pass.
LEMMA OneTakes ==
    ASSUME PoolInv, TellInv, client' = client, issued' \in 0..N, issued <= issued',
           AnswersTyped', cancelled \subseteq cancelled',
           \A r \in Requests : answer'[r] = "none" => answer[r] = "none",
           NEW e \in Contexts, NEW y, ctx'[e] = y,
           y.at # "unused" =>
               y.req \in 1..issued' /\ Explained(y, cancelled', answer', sock', reused'),
           \A d \in Contexts \ {e} : Passes(ctx[d], ctx'[d]),
           \A d \in Live \ {e} : ctx'[d].at # "done" =>
               /\ sock'[ctx[d].conn] = "closed" => sock[ctx[d].conn] = "closed"
               /\ ctx[d].conn \in reused => ctx[d].conn \in reused',
           y.at \notin {"unused", "done"} =>
               \A d \in Live \ {e} : ctx'[d].at # "done" => ctx[d].req # y.req
    PROVE  TellInv'
<1>2. ASSUME NEW d \in Live', d # e
      PROVE  /\ d \in Live /\ ctx'[d].req = ctx[d].req /\ ctx[d].req \in 1..issued'
             /\ ctx'[d].at # "done" => ctx[d].at # "done"
             /\ Explained(ctx'[d], cancelled', answer', sock', reused')
  BY <1>2, ContextsTyped, HttpClientAssumption, PassesKeeps, StaysExplained DEF Live, TellInv,
     ContextsExplained
<1>3. ContextsExplained'
  <2>1. ASSUME NEW d \in Live'
        PROVE  /\ ctx'[d].req \in 1..issued'
               /\ Explained(ctx'[d], cancelled', answer', sock', reused')
    <3>1. CASE d = e
      BY <3>1 DEF Live
    <3>2. CASE d # e
      BY <1>2, <3>2
    <3> QED BY <3>1, <3>2
  <2> QED BY <2>1 DEF ContextsExplained, Explained
<1>4. OneEach'
  <2>1. SUFFICES ASSUME NEW c \in Live', NEW d \in Live', ctx'[c].at # "done",
                        ctx'[d].at # "done", ctx'[c].req = ctx'[d].req
                 PROVE  c = d
    BY DEF OneEach
  <2>2. CASE c # e /\ d # e
    BY <1>2, <2>1, <2>2 DEF TellInv, OneEach
  <2>3. CASE c = e /\ d # e
    BY <1>2, <2>1, <2>3 DEF Live
  <2>4. CASE c # e /\ d = e
    BY <1>2, <2>1, <2>4 DEF Live
  <2> QED BY <2>2, <2>3, <2>4
<1> QED BY <1>3, <1>4 DEF TellInv

\* A step in which no context changes.
LEMMA NobodyMoves ==
    ASSUME PoolInv, TellInv, client' = client, issued' = issued, ctx' = ctx,
           cancelled' = cancelled, answer' = answer,
           \A d \in Live :
               /\ sock'[ctx[d].conn] = "closed" => sock[ctx[d].conn] = "closed"
               /\ ctx[d].conn \in reused => ctx[d].conn \in reused'
    PROVE  TellInv' /\ ToldRight
<1>2. ASSUME NEW d \in Live
      PROVE  Explained(ctx[d], cancelled, answer, sock', reused')
  BY ContextsTyped, StaysExplained DEF TellInv, ContextsExplained, Passes
<1> QED BY <1>2 DEF TellInv, ToldRight, AnswersTyped, OneEach, ContextsExplained, Explained, Live

\* A step in which no answer is told.
LEMMA NothingTold ==
    ASSUME answer' = answer
    PROVE  ToldRight
  BY DEF ToldRight

\* A step in which context c becomes y and keeps its request, the others pass,
\* and the connections of the others stay as they are.
LEMMA OneTells ==
    ASSUME PoolInv, TellInv, client' = client, issued' = issued, cancelled' = cancelled,
           AnswersTyped', \A r \in Requests : answer'[r] = "none" => answer[r] = "none",
           NEW c \in Live, NEW y, ctx'[c] = y, y.req = ctx[c].req \/ y.at = "unused",
           y.at \notin {"unused", "done"} => ctx[c].at # "done",
           y.at # "unused" => Explained(y, cancelled, answer', sock', reused'),
           \A d \in Contexts \ {c} : Passes(ctx[d], ctx'[d]),
           \A j \in Conns : j # ctx[c].conn =>
               /\ sock'[j] = "closed" => sock[j] = "closed"
               /\ j \in reused => j \in reused'
    PROVE  TellInv'
<1>4. ASSUME y.at \notin {"unused", "done"}, NEW d \in Live \ {c}, ctx'[d].at # "done"
      PROVE  ctx[d].req # y.req
  BY <1>4, ContextsTyped, PassesKeeps DEF TellInv, OneEach
<1> QED BY <1>4, ContextsTyped, OneTakes DEF TellInv, ContextsExplained

\* finish() takes contexts from the queue, and c is not one of them.
LEMMA FinishPasses ==
    ASSUME PoolInv, NEW c \in Live, ctx[c].at # "queued", NEW y, NEW r, NEW n \in Nat,
           Finish(r, n, [ctx EXCEPT ![c] = y])
    PROVE  ctx'[c] = y /\ \A d \in Contexts \ {c} : Passes(ctx[d], ctx'[d])
<1> DEFINE popped == {Popped(n)[i] : i \in DOMAIN Popped(n)}
           cs == [ctx EXCEPT ![c] = y]
<1>1. c \in Contexts /\ ctx \in [Contexts -> AnyContext] /\ queue \in Seq(Contexts)
  BY DEF Live, PoolInv, PoolTypes
<1>2. popped \subseteq {queue[i] : i \in DOMAIN queue}
  <2>1. CASE client.order
    <3> DEFINE l == IF n < Len(queue) THEN n ELSE Len(queue)
    <3>1. l \in Nat /\ l <= Len(queue) /\ Len(queue) \in Nat
      BY <1>1
    <3> HIDE DEF l
    <3> QED BY <1>1, <2>1, <3>1 DEF Popped
  <2>2. CASE ~client.order
    BY <2>2 DEF Popped
  <2> QED BY <2>1, <2>2
<1>4. ctx' = [d \in Contexts |-> IF d \in popped THEN [cs[d] EXCEPT !.at = "send"] ELSE cs[d]]
  BY DEF Finish
<1> HIDE DEF popped
<1>5. cs[c] = y /\ \A d \in Contexts \ {c} : cs[d] = ctx[d]
  BY <1>1
<1> HIDE DEF cs
<1> QED BY <1>1, <1>2, <1>4, <1>5 DEF Passes, PoolInv, QueueSound

\* Why a failure is told: what explains the reason given by a context.
Reason(c, what) ==
    /\ what \in Answers \ {"none", "response"}
    /\ what = "canceled" => Cancelled(c) \/ (At(c, "connect") /\ ctx[c].clock = "timedout")
    /\ what = "error" /\ ctx[c].result # "ok" /\ ctx[c].at \in OnSocket =>
        answer[ctx[c].req] # "none" \/ ctx[c].clock # "timedout"

\* Who reads a body has told the response.
Answered == \A c \in Contexts : At(c, "content") => answer[ctx[c].req] # "none"

LEMMA ErrorIsReason ==
    ASSUME NEW c
    PROVE  Reason(c, Error(c))
  BY DEF Reason, Error, Answers

\* report_exception() of a context that is not done.
LEMMA ReportTells ==
    ASSUME PoolInv, TellInv, NEW c \in Live, ctx[c].at \notin {"queued", "done"},
           NEW what, Reason(c, what), Report(c, what)
    PROVE  TellInv' /\ ToldRight
<1> DEFINE y == [ctx[c] EXCEPT !.at = "done"]
           r == ctx[c].req
           k == ctx[c].conn
           why == IF r \in cancelled THEN "canceled" ELSE what
           said == IF answer[r] = "none" THEN why ELSE answer[r]
<1>1. /\ ctx[c] \in AnyContext /\ c \in Contexts /\ k \in Conns
      /\ r \in 1..issued /\ r \in Requests /\ answer \in [Requests -> Answers]
      /\ sock \in [Conns -> SocketStates]
      /\ Explained(ctx[c], cancelled, answer, sock, reused)
  BY ContextsTyped DEF PoolInv, PoolTypes, TellInv, AnswersTyped, ContextsExplained
<1>2. /\ sock' = [sock EXCEPT ![k] = "closed"]
      /\ answer' = [answer EXCEPT ![r] = said]
      /\ Finish(r, 1, [ctx EXCEPT ![c] = y])
      /\ client' = client /\ issued' = issued /\ cancelled' = cancelled /\ reused' = reused
  BY <1>1 DEF Report, Reported, Close
<1>3. y.at = "done" /\ y.req = r /\ Passes(ctx[c], y)
  BY <1>1, ContextsTyped DEF Passes, AnyContext
<1> HIDE DEF y
<1>4. said \in Answers \ {"none"} /\ what \in Answers \ {"none"}
  BY <1>1 DEF Reason, Answers
<1>5. (r \notin cancelled /\ why = what) \/ (why = "canceled" /\ r \in cancelled)
  OBVIOUS
<1>6. said = IF answer[r] = "none" THEN why ELSE answer[r]
  OBVIOUS
<1> HIDE DEF why, said
<1>7. AnswersTyped' /\ answer'[r] = said
      /\ \A q \in Requests : (q # r => answer'[q] = answer[q]) /\ (answer'[q] = "none" => answer[q] = "none")
  BY <1>1, <1>2, <1>4 DEF AnswersTyped
<1>9. ctx'[c] = y /\ \A d \in Contexts \ {c} : Passes(ctx[d], ctx'[d])
  BY <1>2, FinishPasses
<1>10. Explained(y, cancelled, answer', sock', reused')
  <2>1. answer'[ctx[c].req] = "none" => answer[ctx[c].req] = "none"
    BY <1>1, <1>7
  <2> HIDE DEF r, k
  <2> QED BY <1>1, <1>3, <2>1, StaysExplained
<1>12. ToldRight
  <2>1. SUFFICES ASSUME NEW d \in Contexts, ctx[d].at \in OnSocket, answer[ctx[d].req] = "none",
                        answer'[ctx[d].req] # "none"
                 PROVE  /\ answer'[ctx[d].req] = "canceled" =>
                            \/ ctx[d].req \in cancelled
                            \/ ctx[d].at = "connect" /\ ctx[d].clock = "timedout"
                        /\ answer'[ctx[d].req] = "error" /\ ctx[d].result # "ok"
                                /\ sock[ctx[d].conn] = "closed" =>
                            /\ ctx[d].result # "abort"
                            /\ ctx[d].conn \in reused \/ client.mode = "tunnel"
    BY DEF ToldRight
  <2>2. d \in Live /\ ctx[d].at # "done" /\ ctx[d].req \in Requests
    BY <2>1, PointKinds, ContextsTyped DEF Live, OnSocket, Writes, Reads, Connecting, TellInv,
       ContextsExplained
  <2>6. CASE why = "canceled" /\ r \in cancelled
    BY <1>6, <1>7, <2>1, <2>2, <2>6 DEF TellInv, OneEach
  <2>7. CASE r \notin cancelled /\ why = what
    BY <1>1, <1>6, <1>7, <2>1, <2>2, <2>7 DEF Reason, Cancelled, At, Explained, TellInv, OneEach
  <2> QED BY <1>5, <2>6, <2>7
<1> QED BY <1>1, <1>2, <1>3, <1>7, <1>9, <1>10, <1>12, OneTells

-----------------------------------------------------------------------------
(* The steps of a context that tell nothing.                                  *)

\* The context x goes on as y with the same request and connection: it is past
\* the queue, an operation is aborted only if it was, and the timer forgets that
\* it rang only in the tunnel, where no operation is aborted before it is begun.
Onward(x, y) ==
    /\ y.req = x.req /\ y.conn = x.conn
    /\ y.at \notin {"unused", "queued", "send"}
    /\ y.result = "abort" => x.result = "abort"
    /\ x.clock = "timedout" =>
        y.clock = "timedout" \/ (client.mode = "tunnel" /\ y.result # "abort")
    /\ y.at \in Tunnelling => client.mode = "tunnel"

LEMMA OnwardExplained ==
    ASSUME NEW x, NEW y, Onward(x, y), x.at # "done",
           NEW tokens, NEW answers, NEW socks, NEW again, Explained(x, tokens, answers, socks, again)
    PROVE  Explained(y, tokens, answers, socks, again)
  BY DEF Onward, Explained

LEMMA OthersPass ==
    ASSUME PoolInv, NEW c \in Contexts, NEW y, ctx' = [ctx EXCEPT ![c] = y]
    PROVE  ctx'[c] = y /\ \A d \in Contexts \ {c} : Passes(ctx[d], ctx'[d])
  BY DEF PoolInv, PoolTypes, Passes

LEMMA LiveExplained ==
    ASSUME PoolInv, TellInv, NEW c \in Live
    PROVE  /\ Explained(ctx[c], cancelled, answer, sock, reused)
           /\ c \in Contexts /\ ctx[c] \in AnyContext /\ ctx[c].conn \in Conns /\ ctx[c].at # "unused"
           /\ ctx[c].req \in 1..issued /\ ctx[c].req \in Requests
           /\ sock \in [Conns -> SocketStates] /\ ctx \in [Contexts -> AnyContext]
           /\ AnswersTyped
  BY ContextsTyped DEF TellInv, ContextsExplained, PoolInv, PoolTypes

\* A context in use goes on as y, and the answers stay.
LEMMA QuietTells ==
    ASSUME PoolInv, TellInv, NEW c \in Live, NEW y, ctx' = [ctx EXCEPT ![c] = y],
           client' = client, issued' = issued, cancelled' = cancelled, answer' = answer,
           y.req = ctx[c].req \/ y.at = "unused",
           y.at \notin {"unused", "done"} => ctx[c].at # "done",
           y.at # "unused" => Explained(y, cancelled, answer, sock', reused'),
           \A j \in Conns : j # ctx[c].conn =>
               /\ sock'[j] = "closed" => sock[j] = "closed"
               /\ j \in reused => j \in reused'
    PROVE  TellInv' /\ ToldRight
  BY LiveExplained, OthersPass, OneTells, NothingTold DEF AnswersTyped

\* A context that goes on, and changes nothing else.
LEMMA GoTells ==
    ASSUME PoolInv, TellInv, NEW c \in Live, ctx[c].at # "done", NEW y,
           ctx' = [ctx EXCEPT ![c] = y], Onward(ctx[c], y),
           client' = client, issued' = issued, cancelled' = cancelled, answer' = answer,
           sock' = sock, reused' = reused
    PROVE  TellInv' /\ ToldRight
  BY LiveExplained, OnwardExplained, QuietTells DEF Onward

LEMMA GoesTells ==
    ASSUME PoolInv, TellInv, NEW c \in Live, ctx[c].at # "done", NEW y, Go(c, y),
           Onward(ctx[c], y)
    PROVE  TellInv' /\ ToldRight
  BY GoTells DEF Go, results, conns

\* What becomes of the fields that explain a context.
LEMMA FieldsStay ==
    ASSUME NEW x \in AnyContext
    PROVE  /\ Reset(x).req = x.req /\ Reset(x).conn = x.conn /\ Reset(x).at = x.at
           /\ Reset(x).result = x.result /\ Reset(x).clock = x.clock /\ Reset(x) \in AnyContext
           /\ Started(x).req = x.req /\ Started(x).conn = x.conn /\ Started(x).at = x.at
           /\ Started(x).result = x.result /\ Started(x).clock = "started"
           /\ Started(x) \in AnyContext
           /\ Aborted(x).req = x.req /\ Aborted(x).conn = x.conn /\ Aborted(x).at = x.at
           /\ Aborted(x).clock = x.clock /\ Aborted(x).alarm = x.alarm /\ Aborted(x) \in AnyContext
           /\ x.at \notin OnSocket => Aborted(x).result = x.result
  BY DEF Aborted, Pending, AnyContext, Started, Reset, Clocks, Alarms, Results

\* The next operation on the socket.
LEMMA OpIsOnward ==
    ASSUME NEW x \in AnyContext, NEW z \in AnyContext,
           z.req = x.req, z.conn = x.conn,
           x.clock = "timedout" => z.clock = "timedout" \/ client.mode = "tunnel",
           NEW point \in Points, point \notin {"unused", "queued", "send"},
           point \in Tunnelling => client.mode = "tunnel"
    PROVE  Onward(x, Op(z, point))
<1> DEFINE y == Op(z, point)
<1>1. /\ y.req = z.req /\ y.conn = z.conn /\ y.at = point /\ y.clock = z.clock
      /\ y.result \in {"refused", "none"}
  BY DEF Op, AnyContext
<1> HIDE DEF y
<1> QED BY <1>1 DEF Onward, y

LEMMA WriteIsOnward ==
    ASSUME NEW x \in AnyContext, NEW z \in AnyContext,
           z.req = x.req, z.conn = x.conn,
           x.clock = "timedout" => z.clock = "timedout" \/ client.mode = "tunnel"
    PROVE  Onward(x, WriteRequest(z))
<1> DEFINE point == IF client.mode # "plain" /\ z.conn \notin reused THEN "handshake" ELSE "headers"
<1>3. point \in {"handshake", "headers"}
  OBVIOUS
<1> HIDE DEF point
<1> QED BY <1>3, JoinedPoints, OpIsOnward DEF Tunnelling, WriteRequest

\* A context at another point past the queue and the tunnel.
LEMMA MoveIsOnward ==
    ASSUME NEW x \in AnyContext, NEW y, y.req = x.req, y.conn = x.conn, y.clock = x.clock,
           y.result # "abort", y.at \notin Tunnelling \cup {"unused", "queued", "send"}
    PROVE  Onward(x, y)
  BY DEF Onward

\* A context with an operation, or past the connecting, is neither new nor done.
LEMMA BusyPoints ==
    ASSUME NEW point \in OnSocket \cup Resolving \cup Joined
    PROVE  point \notin {"unused", "queued", "send", "done"}
  BY DEF OnSocket, Resolving, Joined, Writes, Reads, Connecting

LEMMA RingTells ==
    ASSUME PoolInv, TellInv, NEW c \in Contexts, Ring(c)
    PROVE  TellInv' /\ ToldRight
<1> DEFINE y == [ctx[c] EXCEPT !.alarm = "rung"]
<1>1. c \in Live /\ ctx[c].at # "done" /\ ctx[c].alarm = "armed" /\ Go(c, y)
  BY DEF Ring, Live
<1>3. y.req = ctx[c].req /\ y.conn = ctx[c].conn /\ y.at = ctx[c].at /\ y.clock = ctx[c].clock
      /\ y.result = ctx[c].result
  BY <1>1, LiveExplained DEF AnyContext
<1> HIDE DEF y
<1> QED BY <1>1, <1>3, LiveExplained, GoesTells DEF Onward, Explained

LEMMA TimeoutTells ==
    ASSUME PoolInv, TellInv, NEW c \in Contexts, Timeout(c)
    PROVE  TellInv' /\ ToldRight
<1> DEFINE x == Aborted(ctx[c])
           y == [x EXCEPT !.clock = "timedout", !.alarm = "idle"]
           k == ctx[c].conn
<1>1. /\ c \in Live /\ ctx[c].at \notin {"unused", "done"} /\ ctx[c].alarm = "rung"
      /\ ctx \in [Contexts -> AnyContext]
  BY DEF Timeout, Live, PoolInv, PoolTypes
<1>2. /\ ctx' = [ctx EXCEPT ![c] = y] /\ sock' = [sock EXCEPT ![k] = "closed"]
      /\ client' = client /\ issued' = issued /\ cancelled' = cancelled /\ answer' = answer
      /\ reused' = reused
  BY <1>1 DEF Timeout, Close, results
<1>4. x \in AnyContext /\ x.req = ctx[c].req /\ x.conn = ctx[c].conn /\ x.at = ctx[c].at
  BY <1>1, LiveExplained, FieldsStay
<1> HIDE DEF x
<1>5. y.req = ctx[c].req /\ y.at = ctx[c].at /\ y.clock = "timedout"
  BY <1>4 DEF AnyContext
<1> HIDE DEF y
<1> QED BY <1>1, <1>2, <1>5, LiveExplained, QuietTells DEF Explained

\* ~asio_context() gives up one connection, its own.
LEMMA ReleaseTells ==
    ASSUME PoolInv, TellInv, NEW c \in Contexts, Release(c)
    PROVE  TellInv' /\ ToldRight
  BY LiveExplained, QuietTells DEF Release, results, conns, At, Live, Unused

\* The network aborts nothing and closes nothing.
LEMMA CompleteTells ==
    ASSUME PoolInv, TellInv, NEW c \in Contexts, Complete(c)
    PROVE  TellInv' /\ ToldRight
<1> DEFINE x == ctx[c]
           k == ctx[c].conn
<1>1. c \in Live /\ x.at \notin {"queued", "send", "done"} /\ (x.at \in OnSocket \/ x.at \in Resolving)
  BY BusyPoints DEF Complete, Pending, Live
<1>2. Explained(x, cancelled, answer, sock, reused) /\ x \in AnyContext
      /\ k \in Conns /\ sock \in [Conns -> SocketStates] /\ ctx \in [Contexts -> AnyContext]
  BY <1>1, LiveExplained
<1>3. PICK result \in Outcomes(x) :
        /\ ctx' = [ctx EXCEPT ![c].result = result]
        /\ sock' = [sock EXCEPT ![k] =
                CASE x.at \in Resolving -> @
                  [] x.at \in Connecting -> IF result = "ok" THEN "open" ELSE @
                  [] OTHER -> IF result = "ok" THEN @ ELSE "dead"]
  BY DEF Complete
<1> DEFINE y == [x EXCEPT !.result = result]
<1>6. ctx' = [ctx EXCEPT ![c] = y]
  BY <1>2, <1>3
<1>7. y.req = x.req /\ y.conn = k /\ y.at = x.at /\ y.clock = x.clock /\ y.result = result
  BY <1>2 DEF AnyContext
<1> HIDE DEF y
<1>10. Explained(y, cancelled, answer, sock', reused')
  BY <1>1, <1>2, <1>3, <1>7 DEF Explained, Complete, results, Resolving, Connecting, Outcomes,
     OnSocket
<1> QED BY <1>1, <1>2, <1>3, <1>6, <1>7, <1>10, QuietTells DEF Complete, results

\* handle_resolve() aborts what the timeout was too early to close.
LEMMA ResolvedTells ==
    ASSUME PoolInv, TellInv, NEW c \in Contexts, Resolved(c)
    PROVE  TellInv' /\ ToldRight
<1> DEFINE x == Reset(ctx[c])
           k == x.conn
           free == sock[k] \in {"new", "closed"}
           late == x.clock = "timedout"
           point == IF x.at = "resolve" THEN "connect" ELSE "tunnelConnect"
           result == IF ~free THEN "refused" ELSE IF late THEN "abort" ELSE "none"
           left == x.left - 1
           y == [x EXCEPT !.at = point, !.left = left, !.result = result]
<1>1. c \in Live /\ ctx[c].at \in Resolving /\ ctx[c].at \notin {"queued", "send", "done"}
  BY BusyPoints DEF Resolved, Live
<1>2. Explained(ctx[c], cancelled, answer, sock, reused) /\ ctx[c] \in AnyContext
      /\ ctx[c].conn \in Conns /\ sock \in [Conns -> SocketStates]
  BY <1>1, LiveExplained
<1>3. x \in AnyContext /\ x.req = ctx[c].req /\ k = ctx[c].conn /\ x.at = ctx[c].at
      /\ x.clock = ctx[c].clock
  BY <1>2, FieldsStay
<1>4. /\ ctx' = [ctx EXCEPT ![c] = y]
      /\ sock' = [sock EXCEPT ![k] = IF late THEN "closed" ELSE IF free THEN "connecting" ELSE sock[k]]
      /\ client' = client /\ issued' = issued /\ cancelled' = cancelled /\ answer' = answer
      /\ reused' = reused
  BY DEF Resolved, results
<1> HIDE DEF x
<1>5. point \in {"connect", "tunnelConnect"} /\ (point = "tunnelConnect" => client.mode = "tunnel")
  BY <1>1, <1>2, <1>3 DEF Explained, Resolving, Tunnelling
<1>6. (result = "abort" => late) /\ (sock'[k] = "closed" => late \/ sock[k] = "closed")
  BY <1>2, <1>3, <1>4
<1> HIDE DEF point, result, left
<1>8. y.req = x.req /\ y.conn = k /\ y.at = point /\ y.clock = x.clock /\ y.result = result
  BY <1>3 DEF AnyContext
<1> HIDE DEF y
<1>9. Explained(y, cancelled, answer, sock', reused')
  BY <1>1, <1>2, <1>3, <1>4, <1>5, <1>6, <1>8 DEF Explained, Tunnelling
<1> HIDE DEF late, free, k
<1> QED BY <1>1, <1>2, <1>3, <1>4, <1>5, <1>8, <1>9, QuietTells

-----------------------------------------------------------------------------
(* The flow of a request, up to its body.                                     *)

LEMMA FlowTells ==
    ASSUME PoolInv, TellInv, NEW c \in Live, Flow(c),
           \/ ctx[c].at = "tunnelStatus" /\ ctx[c].result = "ok"
           \/ ctx[c].at = "send" /\ client.mode # "tunnel"
    PROVE  TellInv' /\ ToldRight
<1> DEFINE x == IF ctx[c].clock = "started" THEN ctx[c] ELSE Started(ctx[c])
           y == [x EXCEPT !.listening = TRUE]
           z == [y EXCEPT !.at = "resolve", !.result = "none"]
<1>1. Explained(ctx[c], cancelled, answer, sock, reused) /\ ctx[c] \in AnyContext
  BY LiveExplained
<1>3. ctx[c].at \notin {"queued", "done"}
  OBVIOUS
<1>4. \/ Cancelled(c) /\ Report(c, "canceled")
      \/ Report(c, "error")
      \/ Go(c, WriteRequest(y))
      \/ Go(c, z)
  BY DEF Flow
<1>5. x \in AnyContext /\ x.req = ctx[c].req /\ x.conn = ctx[c].conn /\ x.clock = "started"
  BY <1>1, FieldsStay
<1> HIDE DEF x
<1>6. y \in AnyContext /\ y.req = ctx[c].req /\ y.conn = ctx[c].conn /\ y.clock = "started"
  BY <1>5 DEF AnyContext
<1> HIDE DEF y
<1>7. z.req = ctx[c].req /\ z.conn = ctx[c].conn /\ z.clock = "started" /\ z.at = "resolve"
      /\ z.result = "none"
  BY <1>6 DEF AnyContext
<1> HIDE DEF z
<1>8. CASE Cancelled(c) /\ Report(c, "canceled")
  BY <1>3, <1>8, ReportTells DEF Reason, Answers
<1>9. CASE Report(c, "error")
  BY <1>3, <1>9, BusyPoints, ReportTells DEF Reason, Answers
<1>10. CASE Go(c, WriteRequest(y))
  BY <1>1, <1>3, <1>6, <1>10, WriteIsOnward, GoesTells DEF Explained, Tunnelling
<1>11. CASE Go(c, z)
  BY <1>1, <1>3, <1>7, <1>11, GoesTells DEF Onward, Tunnelling, Explained
<1> QED BY <1>4, <1>8, <1>9, <1>10, <1>11

LEMMA SendTells ==
    ASSUME PoolInv, TellInv, NEW c \in Contexts, Send(c)
    PROVE  TellInv' /\ ToldRight
<1> DEFINE x == Started(ctx[c])
           y == [x EXCEPT !.at = "tunnelResolve"]
<1>1. c \in Live /\ ctx[c].at = "send"
  BY DEF Send, At, Live
<1>4. CASE Cancelled(c) /\ Report(c, "canceled")
  BY <1>1, <1>4, ReportTells DEF Reason, Answers
<1>5. CASE client.mode = "tunnel" /\ Report(c, "error")
  BY <1>1, <1>5, BusyPoints, ReportTells DEF Reason, Answers
<1>6. CASE client.mode = "tunnel" /\ Go(c, y)
  <2>1. /\ x \in AnyContext /\ x.req = ctx[c].req /\ x.conn = ctx[c].conn
        /\ x.result = ctx[c].result
    BY <1>1, LiveExplained, FieldsStay
  <2> HIDE DEF x
  <2>2. y.req = ctx[c].req /\ y.conn = ctx[c].conn /\ y.at = "tunnelResolve"
        /\ y.result = ctx[c].result
    BY <2>1 DEF AnyContext
  <2> HIDE DEF y
  <2> QED BY <1>1, <1>6, <2>2, LiveExplained, GoesTells DEF Onward, Explained
<1>7. CASE client.mode # "tunnel" /\ Flow(c)
  BY <1>1, <1>7, FlowTells
<1> QED BY <1>4, <1>5, <1>6, <1>7 DEF Send

\* The next address: another connection, which nobody closes, though the timeout
\* may have come before.
LEMMA NextEndpointTells ==
    ASSUME PoolInv, TellInv, NEW c \in Live, NEW k \in Conns, ctx[c].at \in Connecting,
           NextEndpoint(c, k)
    PROVE  TellInv' /\ ToldRight
<1> DEFINE old == ctx[c].conn
           x == Reset(ctx[c])
           free == SockOf(k) \in {"new", "closed"}
           result == IF free THEN "none" ELSE "refused"
           left == ctx[c].left - 1
           y == [x EXCEPT !.conn = k, !.left = left, !.result = result]
<1>1. /\ Explained(ctx[c], cancelled, answer, sock, reused) /\ ctx[c] \in AnyContext
      /\ c \in Contexts /\ old \in Conns /\ sock \in [Conns -> SocketStates]
      /\ ctx \in [Contexts -> AnyContext]
      /\ ctx[c].at \notin {"queued", "send", "done", "unused"}
  BY LiveExplained, BusyPoints DEF OnSocket
<1>3. old # k
  BY <1>1, Obtained DEF NextEndpoint
<1>4. /\ ctx' = [ctx EXCEPT ![c] = y]
      /\ sock' = [sock EXCEPT ![old] = "unused", ![k] = IF free THEN "connecting" ELSE @]
      /\ reused' = ReusedWith(k) \ {old}
      /\ client' = client /\ issued' = issued /\ cancelled' = cancelled /\ answer' = answer
  BY <1>1 DEF NextEndpoint, results
<1>5. /\ x \in AnyContext /\ x.req = ctx[c].req /\ x.at = ctx[c].at /\ x.clock = ctx[c].clock
  BY <1>1, FieldsStay
<1> HIDE DEF x
<1>6. result # "abort"
  OBVIOUS
<1> HIDE DEF result, left
<1>7. y.req = ctx[c].req /\ y.conn = k /\ y.at = ctx[c].at /\ y.clock = ctx[c].clock
      /\ y.result = result
  BY <1>5 DEF AnyContext
<1> HIDE DEF y
<1>10. sock'[k] = "closed" => k \in reused'
  <2>2. CASE pool # <<>>
    BY <1>3, <1>4, <2>2 DEF ReusedWith
  <2>3. CASE pool = <<>>
    BY <1>1, <1>3, <1>4, <2>3 DEF SockOf
  <2> QED BY <2>2, <2>3
<1> QED BY <1>1, <1>4, <1>6, <1>7, <1>10, QuietTells DEF Explained, ReusedWith

LEMMA ConnectedTells ==
    ASSUME PoolInv, TellInv, NEW c \in Contexts, Connected(c) \/ TunnelConnected(c)
    PROVE  TellInv' /\ ToldRight
<1> DEFINE x == Reset(ctx[c])
<1>1. c \in Live /\ ctx[c].at \in Connecting /\ ctx[c].at \notin {"queued", "send", "done"}
  BY DEF Connected, TunnelConnected, At, Connecting, Live
<1>2. Explained(ctx[c], cancelled, answer, sock, reused) /\ ctx[c] \in AnyContext
  BY <1>1, LiveExplained
<1>3. \/ At(c, "connect") /\ ctx[c].result = "abort" /\ Report(c, "canceled")
      \/ Report(c, Error(c))
      \/ \E k \in Conns : NextEndpoint(c, k)
      \/ Go(c, WriteRequest(x))
      \/ At(c, "tunnelConnect") /\ Go(c, Op(x, "tunnelWrite"))
  BY DEF Connected, TunnelConnected
<1>4. x \in AnyContext /\ x.req = ctx[c].req /\ x.conn = ctx[c].conn /\ x.clock = ctx[c].clock
  BY <1>2, FieldsStay
<1> HIDE DEF x
<1>5. CASE At(c, "connect") /\ ctx[c].result = "abort" /\ Report(c, "canceled")
  BY <1>1, <1>2, <1>5, ReportTells DEF Reason, Answers, Explained, Cancelled
<1>6. CASE Report(c, Error(c))
  BY <1>1, <1>6, ErrorIsReason, ReportTells
<1>7. CASE \E k \in Conns : NextEndpoint(c, k)
  BY <1>1, <1>7, NextEndpointTells
<1>8. CASE Go(c, WriteRequest(x))
  BY <1>1, <1>2, <1>4, <1>8, WriteIsOnward, GoesTells
<1>9. CASE At(c, "tunnelConnect") /\ Go(c, Op(x, "tunnelWrite"))
  BY <1>1, <1>2, <1>4, <1>9, JoinedPoints, OpIsOnward, GoesTells DEF At, Explained, Tunnelling
<1> QED BY <1>3, <1>5, <1>6, <1>7, <1>8, <1>9

\* The handlers that start the next operation, and those of a failure.
LEMMA NextOpTells ==
    ASSUME PoolInv, TellInv, NEW c \in Contexts, ctx[c].at \in Joined,
           NEW point \in Points, point \in Joined, point \in Tunnelling => client.mode = "tunnel",
           NEW x \in AnyContext, x.req = ctx[c].req, x.conn = ctx[c].conn, x.clock = ctx[c].clock,
           NEW y, y = Op(x, point), ctx' = [ctx EXCEPT ![c] = y],
           client' = client, issued' = issued, cancelled' = cancelled, answer' = answer,
           sock' = sock, reused' = reused
    PROVE  TellInv' /\ ToldRight
  BY BusyPoints, LiveExplained, OpIsOnward, GoTells DEF Live

LEMMA GoingIsQuiet ==
    ASSUME NEW c, NEW y, Go(c, y)
    PROVE  /\ ctx' = [ctx EXCEPT ![c] = y] /\ client' = client /\ issued' = issued
           /\ cancelled' = cancelled /\ answer' = answer /\ sock' = sock /\ reused' = reused
  BY DEF Go, results, conns

LEMMA WritingTells ==
    ASSUME PoolInv, TellInv, NEW c \in Contexts,
           TunnelWritten(c) \/ Handshaken(c) \/ AllWritten(c)
    PROVE  TellInv' /\ ToldRight
<1> DEFINE x == Reset(ctx[c])
<1>1. ctx[c].at \in Joined /\ c \in Live
  BY JoinedPoints DEF TunnelWritten, Handshaken, AllWritten, Ok, Live
<1>2. Explained(ctx[c], cancelled, answer, sock, reused) /\ ctx[c] \in AnyContext
  BY <1>1, LiveExplained
<1>3. x \in AnyContext /\ x.req = ctx[c].req /\ x.conn = ctx[c].conn /\ x.clock = ctx[c].clock
  BY <1>2, FieldsStay
<1>4. {"tunnelStatus", "headers", "status"} \subseteq Joined \cap Points
      /\ Tunnelling \cap {"headers", "status"} = {}
  BY JoinedPoints DEF Tunnelling
<1>5. \/ ctx[c].at = "tunnelWrite" /\ Go(c, Op(x, "tunnelStatus"))
      \/ Go(c, Op(ctx[c], "headers"))
      \/ Go(c, Op(x, "status"))
  BY DEF TunnelWritten, Handshaken, AllWritten, Ok
<1> HIDE DEF x
<1>7. CASE ctx[c].at = "tunnelWrite" /\ Go(c, Op(x, "tunnelStatus"))
  BY <1>1, <1>2, <1>3, <1>4, <1>7, GoingIsQuiet, NextOpTells DEF Explained, Tunnelling
<1>8. CASE Go(c, Op(ctx[c], "headers"))
  BY <1>1, <1>2, <1>4, <1>8, GoingIsQuiet, NextOpTells
<1>9. CASE Go(c, Op(x, "status"))
  BY <1>1, <1>3, <1>4, <1>9, GoingIsQuiet, NextOpTells
<1> QED BY <1>5, <1>7, <1>8, <1>9

LEMMA TunnelEstablishedTells ==
    ASSUME PoolInv, TellInv, NEW c \in Contexts, TunnelEstablished(c)
    PROVE  TellInv' /\ ToldRight
  BY ErrorIsReason, ReportTells, FlowTells DEF TunnelEstablished, Ok, Live

LEMMA FailingTells ==
    ASSUME PoolInv, TellInv, Answered, NEW c \in Contexts,
           OperationFailed(c) \/ ProgressThrows(c)
    PROVE  TellInv' /\ ToldRight
<1>1. CASE OperationFailed(c)
  BY <1>1, BusyPoints, ErrorIsReason, ReportTells DEF OperationFailed, Live
<1>2. CASE ProgressThrows(c)
  <2>1. c \in Live /\ ctx[c].at \notin {"queued", "done"} /\ Report(c, "error")
    BY <1>2 DEF ProgressThrows, ProgressPoints, Unbounded, Live
  <2>2. Reason(c, "error")
    BY <1>2 DEF ProgressThrows, Unbounded, Reason, Answers, Answered, At
  <2> QED BY <2>1, <2>2, ReportTells
<1> QED BY <1>1, <1>2

\* A handler of a context that is past the connecting: where it goes on.
LEMMA JoinedTells ==
    ASSUME PoolInv, TellInv, NEW c \in Contexts, ctx[c].at \in Joined,
           NEW y, y.req = ctx[c].req, y.conn = ctx[c].conn, y.clock = ctx[c].clock,
           y.result # "abort", y.at \in {"getn", "store", "content", "chunk", "chunkHeader"},
           ctx' = [ctx EXCEPT ![c] = y],
           client' = client, issued' = issued, cancelled' = cancelled, answer' = answer,
           sock' = sock, reused' = reused
    PROVE  TellInv' /\ ToldRight
  BY BusyPoints, GoTells DEF Live, Onward, Tunnelling

LEMMA BodyWrittenTells ==
    ASSUME PoolInv, TellInv, NEW c \in Contexts, BodyWritten(c)
    PROVE  TellInv' /\ ToldRight
<1> DEFINE x == Reset(ctx[c])
           y == [x EXCEPT !.at = "getn", !.result = "none"]
<1>1. ctx[c].at \in Joined /\ ctx[c] \in AnyContext
  BY JoinedPoints DEF BodyWritten, PoolInv, PoolTypes
<1>2. x \in AnyContext /\ x.req = ctx[c].req /\ x.conn = ctx[c].conn /\ x.clock = ctx[c].clock
  BY <1>1, FieldsStay
<1>3. Go(c, y) \/ Go(c, Op(x, "status"))
  BY DEF BodyWritten
<1> HIDE DEF x
<1>4. y.req = ctx[c].req /\ y.conn = ctx[c].conn /\ y.clock = ctx[c].clock /\ y.at = "getn"
      /\ y.result = "none"
  BY <1>2 DEF AnyContext
<1> HIDE DEF y
<1>6. CASE Go(c, y)
  BY <1>1, <1>4, <1>6, GoingIsQuiet, JoinedTells
<1>7. CASE Go(c, Op(x, "status"))
  BY <1>1, <1>2, <1>7, JoinedPoints, GoingIsQuiet, NextOpTells DEF Tunnelling
<1> QED BY <1>3, <1>6, <1>7

\* A failure of the stream of the user, where there is no operation.
LEMMA StreamFails ==
    ASSUME PoolInv, TellInv, NEW c \in Contexts, ctx[c].at \in {"getn", "store"},
           Report(c, "error")
    PROVE  TellInv' /\ ToldRight
  BY ReportTells DEF Live, Reason, Answers, OnSocket, Writes, Reads, Connecting

LEMMA BodyReadTells ==
    ASSUME PoolInv, TellInv, NEW c \in Contexts, BodyRead(c)
    PROVE  TellInv' /\ ToldRight
<1> DEFINE r == ctx[c].req
           some == r \notin consumed
           point == IF client.bodies[r] = "sized" THEN "large" ELSE IF some THEN "chunked" ELSE "last"
           x == [ctx[c] EXCEPT !.uploaded = some \/ @]
           y == Op(x, point)
<1>1. ctx[c].at = "getn" /\ ctx[c].at \in Joined /\ ctx[c] \in AnyContext
  BY JoinedPoints DEF BodyRead, At, PoolInv, PoolTypes
<1>2. \/ Report(c, "error")
      \/ /\ ctx' = [ctx EXCEPT ![c] = y] /\ client' = client /\ issued' = issued
         /\ cancelled' = cancelled /\ answer' = answer /\ sock' = sock /\ reused' = reused
  BY DEF BodyRead, results, conns
<1>3. point \in Points /\ point \in Joined /\ point \notin Tunnelling
  BY JoinedPoints DEF Tunnelling
<1> HIDE DEF point
<1> DEFINE up == some \/ ctx[c].uploaded
<1>4. up \in BOOLEAN /\ x = [ctx[c] EXCEPT !.uploaded = up]
  OBVIOUS
<1> HIDE DEF up, some, x
<1>6. CASE Report(c, "error")
  BY <1>1, <1>6, StreamFails
<1>7. CASE ~Report(c, "error")
  <2>1. y = Op(x, point)
    OBVIOUS
  <2> HIDE DEF y
  <2> QED BY <1>1, <1>2, <1>3, <1>4, <1>7, <2>1, NextOpTells DEF AnyContext
<1> QED BY <1>6, <1>7

-----------------------------------------------------------------------------
(* The response.                                                              *)

\* complete_request() tells nothing that was not told.
LEMMA CompleteRequestTells ==
    ASSUME PoolInv, TellInv, NEW c \in Contexts, ctx[c].at \in Joined, CompleteRequest(c)
    PROVE  TellInv' /\ ToldRight
<1> DEFINE y == [ctx[c] EXCEPT !.at = "done"]
<1>1. c \in Live /\ ctx[c].at \notin {"queued", "done"}
  BY BusyPoints DEF Live
<1>2. /\ Explained(ctx[c], cancelled, answer, sock, reused) /\ ctx[c] \in AnyContext
      /\ AnswersTyped /\ ctx[c].at # "unused"
  BY <1>1, LiveExplained
<1>3. /\ Finish(ctx[c].req, 1, [ctx EXCEPT ![c] = y]) /\ client' = client /\ issued' = issued
      /\ cancelled' = cancelled /\ answer' = answer /\ sock' = sock /\ reused' = reused
  BY DEF CompleteRequest, conns, PoolInv, PoolTypes
<1>4. y.req = ctx[c].req /\ y.at = "done" /\ Passes(ctx[c], y)
  BY <1>2 DEF AnyContext, Passes
<1> HIDE DEF y
<1>8. TellInv'
  BY <1>1, <1>2, <1>3, <1>4, StaysExplained, FinishPasses, OneTells DEF AnswersTyped
<1> QED BY <1>3, <1>8, NothingTold

\* The headers are an answer, and what they close was answered.
LEMMA HeadersTells ==
    ASSUME PoolInv, TellInv, NEW c \in Contexts, ctx[c].at = "status", ctx[c].result = "ok",
           NEW reply, NEW throws, Headers(c, reply, throws)
    PROVE  TellInv' /\ ToldRight
<1> DEFINE w == Reset(ctx[c])
           length == reply.length
           x == [w EXCEPT !.length = length]
           r == ctx[c].req
           k == ctx[c].conn
           known == reply.encoding = "known"
           broken == ~known \/ throws
           closed == sock[x.conn] = "closed" \/ broken
           n == (IF known THEN 0 ELSE 1) + (IF NoBody(reply) THEN 1 ELSE 0)
           said == IF answer[r] = "none" THEN "response" ELSE answer[r]
<1>1. c \in Live /\ ctx[c].at \notin {"queued", "done"}
  BY DEF Live
<1>2. /\ Explained(ctx[c], cancelled, answer, sock, reused) /\ ctx[c] \in AnyContext
      /\ AnswersTyped /\ r \in Requests /\ k \in Conns /\ sock \in [Conns -> SocketStates]
  BY <1>1, LiveExplained
<1>3. w \in AnyContext /\ w.req = r /\ w.conn = k /\ w.clock = ctx[c].clock /\ w.result = "ok"
      /\ w.at = "status"
  BY <1>2, FieldsStay
<1>4. x.req = r /\ x.conn = k /\ x.clock = ctx[c].clock /\ x.result = "ok" /\ x.at = "status"
      /\ DOMAIN x = DOMAIN w /\ {"at", "result", "req", "conn", "clock"} \subseteq DOMAIN x
  <2> HIDE DEF w, length
  <2> QED BY <1>3 DEF AnyContext
<1>5. /\ answer' = [answer EXCEPT ![r] = said]
      /\ sock' = (IF broken THEN [sock EXCEPT ![k] = "closed"] ELSE sock)
      /\ client' = client /\ issued' = issued /\ cancelled' = cancelled /\ reused' = reused
  BY <1>2, <1>4 DEF Headers, AnswersTyped
<1>6. PICK y \in IF NoBody(reply) THEN {[x EXCEPT !.at = "done"]}
                 ELSE MayBeBuffered(x, closed, BodyPoint(reply)) :
        Finish(x.req, n, [ctx EXCEPT ![c] = y])
  BY DEF Headers
<1> HIDE DEF x, closed, w
<1>7. /\ y.req = r /\ y.conn = k /\ y.clock = ctx[c].clock /\ y.result # "abort"
      /\ y.at \in {"done", "content", "chunkHeader"}
  <2>1. CASE NoBody(reply)
    BY <1>4, <1>6, <2>1
  <2>2. CASE ~NoBody(reply)
    <3>1. PICK result \in {"ok", "refused", "none"} :
            y = [x EXCEPT !.at = BodyPoint(reply), !.result = result]
      BY <1>6, <2>2 DEF MayBeBuffered
    <3> QED BY <1>4, <3>1 DEF BodyPoint
  <2> QED BY <2>1, <2>2
<1>8. said \in Answers \ {"none"} /\ (said = answer[r] \/ said = "response")
  BY <1>2 DEF Answers, AnswersTyped
<1> HIDE DEF said
<1>11. n \in Nat
  OBVIOUS
<1> HIDE DEF n, broken, known
<1>12. ctx'[c] = y /\ \A d \in Contexts \ {c} : Passes(ctx[d], ctx'[d])
  BY <1>1, <1>6, <1>11, FinishPasses
<1>14. TellInv'
  BY <1>1, <1>2, <1>5, <1>7, <1>8, <1>12, OneTells DEF Explained, Tunnelling, AnswersTyped
<1> QED BY <1>2, <1>5, <1>8, <1>14, BusyPoints, LiveExplained DEF ToldRight, AnswersTyped, Live

LEMMA StatusReadTells ==
    ASSUME PoolInv, TellInv, NEW c \in Contexts, StatusRead(c)
    PROVE  TellInv' /\ ToldRight
  BY ErrorIsReason, ReportTells, HeadersTells DEF StatusRead, Ok, Live

LEMMA BufferedTells ==
    ASSUME PoolInv, TellInv, NEW c \in Contexts, ctx[c].at \in Joined,
           NEW x \in AnyContext, x.req = ctx[c].req, x.conn = ctx[c].conn, x.clock = ctx[c].clock,
           NEW closed, NEW point \in {"content", "chunk", "chunkHeader"},
           NEW y \in MayBeBuffered(x, closed, point), Go(c, y)
    PROVE  TellInv' /\ ToldRight
<1>1. PICK result \in {"ok", "refused", "none"} : y = [x EXCEPT !.at = point, !.result = result]
  BY DEF MayBeBuffered
<1>2. y.req = ctx[c].req /\ y.conn = ctx[c].conn /\ y.clock = ctx[c].clock /\ y.at = point
      /\ y.result = result
  BY <1>1 DEF AnyContext
<1> QED BY <1>2, GoingIsQuiet, JoinedTells

LEMMA ChunkHeaderReadTells ==
    ASSUME PoolInv, TellInv, NEW c \in Contexts, ChunkHeaderRead(c)
    PROVE  TellInv' /\ ToldRight
<1> DEFINE x == Reset(ctx[c])
           closed == sock[ctx[c].conn] = "closed"
<1>1. ctx[c].at \in Joined /\ ctx[c] \in AnyContext /\ c \in Live
      /\ ctx[c].at \notin {"queued", "done"}
  BY JoinedPoints DEF ChunkHeaderRead, Ok, PoolInv, PoolTypes, Live
<1>2. x \in AnyContext /\ x.req = ctx[c].req /\ x.conn = ctx[c].conn /\ x.clock = ctx[c].clock
  BY <1>1, FieldsStay
<1>3. Report(c, Error(c)) \/ \E y \in MayBeBuffered(x, closed, "chunk") : Go(c, y)
  BY DEF ChunkHeaderRead
<1> HIDE DEF x, closed
<1>4. CASE Report(c, Error(c))
  BY <1>1, <1>4, ErrorIsReason, ReportTells
<1>5. CASE \E y \in MayBeBuffered(x, closed, "chunk") : Go(c, y)
  BY <1>1, <1>2, <1>5, BufferedTells
<1> QED BY <1>3, <1>4, <1>5

LEMMA ReadingTells ==
    ASSUME PoolInv, TellInv, NEW c \in Contexts, ChunkRead(c) \/ ContentRead(c)
    PROVE  TellInv' /\ ToldRight
<1> DEFINE x == Reset(ctx[c])
           y == [x EXCEPT !.at = "store", !.result = "none"]
           z == [y EXCEPT !.length = "sized"]
<1>1. ctx[c].at \in Joined /\ ctx[c] \in AnyContext
  BY JoinedPoints DEF ChunkRead, ContentRead, Ok, At, PoolInv, PoolTypes
<1>2. x \in AnyContext /\ x.req = ctx[c].req /\ x.conn = ctx[c].conn /\ x.clock = ctx[c].clock
  BY <1>1, FieldsStay
<1>3. CompleteRequest(c) \/ Go(c, y) \/ Go(c, z)
  BY DEF ChunkRead, ContentRead
<1> HIDE DEF x
<1>4. y.req = ctx[c].req /\ y.conn = ctx[c].conn /\ y.clock = ctx[c].clock /\ y.at = "store"
      /\ y.result = "none"
  BY <1>2 DEF AnyContext
<1>5. z.req = ctx[c].req /\ z.conn = ctx[c].conn /\ z.clock = ctx[c].clock /\ z.at = "store"
      /\ z.result = "none"
  BY <1>2 DEF AnyContext
<1> HIDE DEF y, z
<1>6. CASE CompleteRequest(c)
  BY <1>1, <1>6, CompleteRequestTells
<1>7. CASE Go(c, y)
  BY <1>1, <1>4, <1>7, GoingIsQuiet, JoinedTells
<1>8. CASE Go(c, z)
  BY <1>1, <1>5, <1>8, GoingIsQuiet, JoinedTells
<1> QED BY <1>3, <1>6, <1>7, <1>8

LEMMA StoredTells ==
    ASSUME PoolInv, TellInv, NEW c \in Contexts, Stored(c)
    PROVE  TellInv' /\ ToldRight
<1> DEFINE x == [ctx[c] EXCEPT !.downloaded = TRUE]
           closed == sock[x.conn] = "closed"
           y == [x EXCEPT !.at = "content", !.result = "ok"]
<1>1. ctx[c].at = "store" /\ ctx[c].at \in Joined /\ ctx[c] \in AnyContext
  BY JoinedPoints DEF Stored, At, PoolInv, PoolTypes
<1>2. x \in AnyContext /\ x.req = ctx[c].req /\ x.conn = ctx[c].conn /\ x.clock = ctx[c].clock
  BY <1>1 DEF AnyContext
<1>3. \/ Report(c, "error")
      \/ \E w \in MayBeBuffered(x, closed, "chunkHeader") : Go(c, w)
      \/ Go(c, y) \/ Go(c, Op(x, "content"))
  BY DEF Stored
<1> HIDE DEF x, closed
<1>5. y.req = ctx[c].req /\ y.conn = ctx[c].conn /\ y.clock = ctx[c].clock /\ y.at = "content"
      /\ y.result = "ok"
  BY <1>2 DEF AnyContext
<1> HIDE DEF y
<1>6. CASE Report(c, "error")
  BY <1>1, <1>6, StreamFails
<1>7. CASE \E w \in MayBeBuffered(x, closed, "chunkHeader") : Go(c, w)
  BY <1>1, <1>2, <1>7, BufferedTells
<1>8. CASE Go(c, y)
  BY <1>1, <1>5, <1>8, GoingIsQuiet, JoinedTells
<1>9. CASE Go(c, Op(x, "content"))
  BY <1>1, <1>2, <1>9, JoinedPoints, GoingIsQuiet, NextOpTells DEF Tunnelling
<1> QED BY <1>3, <1>6, <1>7, <1>8, <1>9

-----------------------------------------------------------------------------
(* Requests that begin, again or for the first time, and the other threads.    *)

LEMMA FreshFields ==
    ASSUME NEW r, NEW k
    PROVE  /\ Fresh(r, k).req = r /\ Fresh(r, k).conn = k /\ Fresh(r, k).at = "send"
           /\ Fresh(r, k).clock = "created" /\ Fresh(r, k).alarm = "idle"
           /\ Fresh(r, k).result = "none"
  BY DEF Fresh, Unused

\* A connection that is closed when it is obtained waited in the pool.
LEMMA ClosedWaited ==
    ASSUME NEW k, SockOf(k) = "closed"
    PROVE  k \in ReusedWith(k)
  BY DEF SockOf, ReusedWith

LEMMA PropagateTells ==
    ASSUME PoolInv, TellInv, NEW c \in Contexts, NEW k \in Conns, Propagate(c, k)
    PROVE  TellInv' /\ ToldRight
<1> DEFINE r == issued + 1
           x == Fresh(r, k)
           point == IF First THEN "send" ELSE "queued"
           y == [x EXCEPT !.at = point]
<1>1. /\ ctx[c].at = "unused" /\ c \notin Live /\ Obtain(k) /\ issued' = r /\ issued < N
      /\ ctx' = [ctx EXCEPT ![c] = y] /\ sock' = [sock EXCEPT ![k] = SockOf(k)]
      /\ reused' = ReusedWith(k)
      /\ client' = client /\ cancelled' = cancelled /\ answer' = answer
  BY DEF Propagate, At, Live, results
<1>2. issued \in 0..N /\ r \in 0..N /\ r \in 1..r /\ N \in Nat
      /\ sock \in [Conns -> SocketStates] /\ ctx \in [Contexts -> AnyContext]
  BY <1>1, HttpClientAssumption DEF PoolInv, PoolTypes
<1>3. x.req = r /\ x.conn = k /\ x.clock = "created" /\ x.alarm = "idle" /\ x.result = "none"
      /\ x \in AnyContext
  BY <1>2, FreshFields, FreshContext
<1> HIDE DEF x
<1>4. point \in {"send", "queued"}
  OBVIOUS
<1> HIDE DEF point
<1>5. y.req = r /\ y.conn = k /\ y.clock = "created" /\ y.alarm = "idle" /\ y.result = "none"
      /\ y.at = point
  BY <1>3 DEF AnyContext
<1> HIDE DEF y
<1>6. ctx'[c] = y /\ \A d \in Contexts \ {c} : Passes(ctx[d], ctx'[d])
  BY <1>1, OthersPass
<1>8. Explained(y, cancelled', answer', sock', reused')
  BY <1>1, <1>2, <1>4, <1>5, ClosedWaited DEF Explained, Tunnelling, ReusedWith
<1>10. \A d \in Live \ {c} :
        /\ sock'[ctx[d].conn] = "closed" => sock[ctx[d].conn] = "closed"
        /\ ctx[d].conn \in reused => ctx[d].conn \in reused'
        /\ ctx[d].req # y.req
  BY <1>1, <1>2, <1>5, Obtained, LiveExplained DEF ReusedWith
<1>11. AnswersTyped' /\ issued' \in 0..N /\ issued <= issued'
  BY <1>1, <1>2 DEF TellInv, AnswersTyped
<1> HIDE DEF r
<1>13. TellInv'
  BY <1>1, <1>2, <1>5, <1>6, <1>8, <1>10, <1>11, OneTakes
<1> QED BY <1>1, <1>13, NothingTold

\* The request is sent again: the first context is done with it.
LEMMA ResendTells ==
    ASSUME PoolInv, TellInv, NEW c \in Contexts, NEW d \in Contexts, NEW k \in Conns, Resend(c, d, k)
    PROVE  TellInv' /\ ToldRight
<1> DEFINE old == ctx[c].conn
           x == Fresh(ctx[c].req, k)
           y == [x EXCEPT !.resent = TRUE]
           z == [ctx[c] EXCEPT !.at = "done"]
<1>1. /\ ctx[d].at = "unused" /\ d \notin Live /\ Obtain(k) /\ c # d /\ c \in Live
      /\ ctx[c].at # "done"
      /\ sock' = [sock EXCEPT ![k] = SockOf(k), ![old] = "closed"]
      /\ reused' = ReusedWith(k)
      /\ client' = client /\ cancelled' = cancelled /\ answer' = answer /\ issued' = issued
      /\ ctx' = [ctx EXCEPT ![c].at = "done", ![d] = y]
  BY DEF Resend, At, Live, results
<1>2. issued \in 0..N /\ N \in Nat
      /\ sock \in [Conns -> SocketStates] /\ ctx \in [Contexts -> AnyContext]
  BY HttpClientAssumption DEF PoolInv, PoolTypes
<1>3. /\ ctx[c].req \in 1..issued /\ ctx[c].req \in 0..N /\ ctx[c] \in AnyContext
      /\ old \in Conns /\ ctx[c].at # "unused"
  BY <1>1, <1>2, LiveExplained, ContextFields
<1>4. old # k /\ \A e \in Live : ctx[e].conn # k /\ ctx[e].conn \in Conns
  BY <1>1, Obtained, LiveExplained
<1>5. x.req = ctx[c].req /\ x.conn = k /\ x.at = "send" /\ x.clock = "created"
      /\ x.alarm = "idle" /\ x.result = "none" /\ x \in AnyContext
  BY <1>3, FreshFields, FreshContext
<1> HIDE DEF x
<1>6. y.req = ctx[c].req /\ y.conn = k /\ y.at = "send" /\ y.clock = "created"
      /\ y.alarm = "idle" /\ y.result = "none"
  BY <1>5 DEF AnyContext
<1> HIDE DEF y
<1>7. ctx'[d] = y /\ ctx'[c] = z /\ \A e \in Contexts \ {c, d} : ctx'[e] = ctx[e]
  BY <1>1, <1>2
<1>8. z.at = "done" /\ Passes(ctx[c], z)
  BY <1>3 DEF AnyContext, Passes
<1> HIDE DEF z
<1>11. Explained(y, cancelled', answer', sock', reused')
  BY <1>1, <1>2, <1>3, <1>4, <1>6, ClosedWaited DEF Explained, Tunnelling, ReusedWith
<1>12. ASSUME NEW e \in Live \ {d}, ctx'[e].at # "done"
       PROVE  /\ sock'[ctx[e].conn] = "closed" => sock[ctx[e].conn] = "closed"
              /\ ctx[e].conn \in reused => ctx[e].conn \in reused'
              /\ ctx[e].req # y.req
  <2>1. e # c /\ e \in Contexts
    BY <1>7, <1>8, <1>12 DEF Live
  <2>4. ctx[e].req # ctx[c].req
    BY <1>1, <1>7, <1>12, <2>1 DEF TellInv, OneEach
  <2> QED BY <1>1, <1>2, <1>3, <1>4, <1>6, <2>1, <2>4, ContextsTyped DEF ReusedWith
<1>13. AnswersTyped' /\ issued' \in 0..N /\ issued <= issued' /\ y.req \in 1..issued'
  BY <1>1, <1>2, <1>3, <1>6 DEF TellInv, AnswersTyped
<1> HIDE DEF old
<1>14. TellInv'
  <2>1. ctx'[d] = y /\ cancelled \subseteq cancelled' /\ client' = client
    BY <1>1, <1>7
  <2>2. \A q \in Requests : answer'[q] = "none" => answer[q] = "none"
    BY <1>1
  <2> QED BY <1>7, <1>8, <1>11, <1>12, <1>13, <2>1, <2>2, OneTakes DEF Passes
<1> QED BY <1>1, <1>14, NothingTold

\* The timer of the pool has nothing of a context in use.
LEMMA PoolTimerTells ==
    ASSUME PoolInv, TellInv, PoolTimer
    PROVE  TellInv' /\ ToldRight
<1>1. PICK n \in 0..Len(pool) : LET erased == {pool[i].conn : i \in 1..n} IN
        /\ sock' = [k \in Conns |-> IF k \in erased THEN "unused" ELSE sock[k]]
        /\ reused' = reused \ erased
  BY DEF PoolTimer
<1> DEFINE erased == {pool[i].conn : i \in 1..n}
<1>2. /\ sock' = [k \in Conns |-> IF k \in erased THEN "unused" ELSE sock[k]]
      /\ reused' = reused \ erased
  BY <1>1
<1>3. erased \subseteq PooledConns
  BY PoolEntries DEF PooledConns, PoolInv, PoolTypes
<1> HIDE DEF erased
<1> QED BY <1>2, <1>3, LiveContext, NobodyMoves DEF PoolTimer, results

LEMMA PeerClosesTells ==
    ASSUME PoolInv, TellInv, NEW k \in Conns, PeerCloses(k)
    PROVE  TellInv' /\ ToldRight
  BY ContextsTyped, NobodyMoves DEF PeerCloses, results, PoolInv, PoolTypes

\* The callback of a token closes the connections of its request, and no other.
LEMMA CancelTells ==
    ASSUME PoolInv, TellInv, NEW r \in Requests, CancelToken(r)
    PROVE  TellInv' /\ ToldRight
<1> DEFINE live == {c \in Contexts : ctx[c].req = r /\ ctx[c].listening /\ ctx[c].at # "done"}
           closed == {ctx[c].conn : c \in live}
<1>1. /\ cancelled' = cancelled \cup {r}
      /\ sock' = [k \in Conns |-> IF k \in closed THEN "closed" ELSE sock[k]]
      /\ ctx' = [c \in Contexts |-> IF c \in live THEN Aborted(ctx[c]) ELSE ctx[c]]
      /\ client' = client /\ issued' = issued /\ reused' = reused /\ answer' = answer
  BY DEF CancelToken, results
<1>3. /\ \A d \in Contexts : ctx[d] \in AnyContext
      /\ \A d \in Live : d \in Contexts /\ ctx[d].conn \in Conns
      /\ \A d, e \in Live : d # e => ctx[d].conn # ctx[e].conn
  BY ContextsTyped
<1>4. \A d \in live : ctx[d].req = r
  OBVIOUS
<1>5. \A d \in Live : ctx[d].conn \in closed => d \in live
  <2> SUFFICES ASSUME NEW d \in Live, ctx[d].conn \in closed
               PROVE  d \in live
    OBVIOUS
  <2>1. PICK e \in live : ctx[e].conn = ctx[d].conn
    OBVIOUS
  <2> QED BY <1>3, <2>1 DEF PoolInv, UnusedSound, Live
<1> HIDE DEF live, closed
<1>6. \A d \in Contexts :
        /\ ctx'[d].req = ctx[d].req /\ ctx'[d].conn = ctx[d].conn /\ ctx'[d].at = ctx[d].at
        /\ ctx'[d].clock = ctx[d].clock /\ ctx'[d].alarm = ctx[d].alarm
        /\ ctx[d].at \notin OnSocket \/ d \notin live => ctx'[d].result = ctx[d].result
  <2> SUFFICES ASSUME NEW d \in Contexts
               PROVE  /\ ctx'[d].req = ctx[d].req /\ ctx'[d].conn = ctx[d].conn
                      /\ ctx'[d].at = ctx[d].at
                      /\ ctx'[d].clock = ctx[d].clock /\ ctx'[d].alarm = ctx[d].alarm
                      /\ ctx[d].at \notin OnSocket \/ d \notin live =>
                            ctx'[d].result = ctx[d].result
    OBVIOUS
  <2>2. CASE d \in live
    BY <1>1, <1>3, <2>2, FieldsStay
  <2>3. CASE d \notin live
    BY <1>1, <1>3, <2>3
  <2> QED BY <2>2, <2>3
<1>8. ASSUME NEW d \in Live
      PROVE  /\ ctx'[d].req \in 1..issued'
             /\ Explained(ctx'[d], cancelled', answer', sock', reused')
  <2>4. d \in live => ctx[d].req \in cancelled'
    BY <1>1, <1>4
  <2> QED BY <1>1, <1>3, <1>5, <1>6, <2>4, BusyPoints DEF Explained, TellInv, ContextsExplained
<1> QED
  BY <1>1, <1>3, <1>6, <1>8, NothingTold DEF TellInv, AnswersTyped, OneEach, Live,
     ContextsExplained, Explained

-----------------------------------------------------------------------------
LEMMA TellInvInit == Init => TellInv
<1> SUFFICES ASSUME Init
             PROVE  TellInv
  OBVIOUS
<1> QED BY DEF TellInv, ContextsExplained, OneEach, Init, AnswersTyped, Answers, Live, Unused

LEMMA HandlerTells ==
    ASSUME PoolInv, TellInv, Answered, NEW c \in Contexts, Handler(c)
    PROVE  TellInv' /\ ToldRight
<1>1. CASE Send(c)
  BY <1>1, SendTells
<1>2. CASE Resolved(c)
  BY <1>2, ResolvedTells
<1>3. CASE Connected(c) \/ TunnelConnected(c)
  BY <1>3, ConnectedTells
<1>4. CASE TunnelWritten(c) \/ Handshaken(c) \/ AllWritten(c)
  BY <1>4, WritingTells
<1>5. CASE TunnelEstablished(c)
  BY <1>5, TunnelEstablishedTells
<1>6. CASE OperationFailed(c) \/ ProgressThrows(c)
  BY <1>6, FailingTells
<1>7. CASE BodyWritten(c)
  BY <1>7, BodyWrittenTells
<1>8. CASE BodyRead(c)
  BY <1>8, BodyReadTells
<1>9. CASE StatusRead(c)
  BY <1>9, StatusReadTells
<1>10. CASE ChunkHeaderRead(c)
  BY <1>10, ChunkHeaderReadTells
<1>11. CASE ChunkRead(c) \/ ContentRead(c)
  BY <1>11, ReadingTells
<1>12. CASE Stored(c)
  BY <1>12, StoredTells
<1>13. CASE \E d \in Contexts, k \in Conns : Resend(c, d, k)
  BY <1>13, ResendTells
<1> QED
  BY <1>1, <1>2, <1>3, <1>4, <1>5, <1>6, <1>7, <1>8, <1>9, <1>10, <1>11, <1>12, <1>13 DEF Handler

LEMMA TellInvStep == PoolInv /\ TellInv /\ Answered /\ [Next]_vars => TellInv' /\ [ToldRight]_vars
<1> SUFFICES ASSUME PoolInv, TellInv, Answered, [Next]_vars
             PROVE  TellInv' /\ [ToldRight]_vars
  OBVIOUS
<1>1. CASE \E c \in Contexts : ContextStep(c)
  BY <1>1, HandlerTells, RingTells, TimeoutTells, ReleaseTells DEF ContextStep
<1>2. CASE \E c \in Contexts : Complete(c)
  BY <1>2, CompleteTells
<1>3. CASE \E c \in Contexts, k \in Conns : Propagate(c, k)
  BY <1>3, PropagateTells
<1>4. CASE \E r \in Requests : CancelToken(r)
  BY <1>4, CancelTells
<1>5. CASE PoolTimer
  BY <1>5, PoolTimerTells
<1>6. CASE \E k \in Conns : PeerCloses(k)
  BY <1>6, PeerClosesTells
<1>7. CASE UNCHANGED vars
  BY <1>7, NobodyMoves DEF vars, conns, results
<1> QED BY <1>1, <1>2, <1>3, <1>4, <1>5, <1>6, <1>7 DEF Next

-----------------------------------------------------------------------------
(* Requests.  What RequestsSound says of all the requests at once rests on what *)
(* each of them and each context is in the middle of: a request that nobody    *)
(* finished is in the hands of one context, which knows how far it is, and the  *)
(* requests that finished in order are the first ones (LineKept).               *)

Contents == {"none", "complete", "failed"}
BodyPoints == {"content", "chunkHeader", "chunk", "store"}
AfterBody == BodyPoints \cup {"status", "last"}
Begins == {"queued", "send"} \cup Resolving
Idle == {"unused", "done"}

\* A request that ended n times with what it told and what is left of its content.
RequestStage(n, told, rest) ==
    /\ n = 0 => rest = "none" /\ told \in {"none", "response"}
    /\ n > 0 => rest # "none" /\ told # "none"
    /\ n > 1 => rest = "failed" /\ told = "response"

\* The same for a request whose context is at point: the body is still read when
\* the encoding was not known, and the request was finished for that.
Stage(point, n, told, rest) ==
    IF point \in BodyPoints
    THEN /\ told = "response"
         /\ \/ n = 0 /\ rest = "none"
            \/ n = 1 /\ rest = "failed"
    ELSE n = 0 /\ told = "none" /\ rest = "none"

\* The whole body was sent, or it is gone with the first attempt.
SentInFull(x, bodies) ==
    \/ bodies[x.req] = "none"
    \/ x.uploaded
    \/ x.resent /\ bodies[x.req] = "chunked"

Served(x, bodies, ends, answers, contents, read) ==
    /\ x.left \in 0..2 /\ (x.at \in Begins => x.left # 0)
    /\ x.at = "unused" => x.req = 0
    /\ x.at \notin Idle =>
        /\ Stage(x.at, ends[x.req], answers[x.req], contents[x.req])
        /\ x.req \in read => x.uploaded \/ x.resent
        /\ x.at \in AfterBody => SentInFull(x, bodies)

ServeTypes ==
    /\ client \in Clients
    /\ cancelled \subseteq 1..issued /\ consumed \subseteq 1..issued
    /\ finishes \in [Requests -> 0..2] /\ content \in [Requests -> Contents]
    /\ prev <= epoch /\ scheduled \in Int

RequestsStaged ==
    \A r \in Requests :
        /\ RequestStage(finishes[r], answer[r], content[r])
        /\ r > issued => finishes[r] = 0 /\ answer[r] = "none" /\ content[r] = "none"

Owned ==
    \A r \in 1..issued : finishes[r] = 0 => \E c \in Contexts : ctx[c].req = r /\ ctx[c].at \notin Idle

ContextsServed ==
    \A c \in Contexts : Served(ctx[c], client.bodies, finishes, answer, content, consumed)

\* The first f requests are finished, the next one is served, and the others wait.
LineAt(f) ==
    /\ \A r \in Requests : finishes[r] > 0 <=> r <= f
    /\ scheduled = issued - f
    /\ Len(queue) = IF f < issued THEN issued - f - 1 ELSE 0
    /\ \A i \in DOMAIN queue : ctx[queue[i]].req = f + 1 + i
LineKept == client.order /\ Twice = {} => \E f \in 0..issued : LineAt(f)

ServeInv == ServeTypes /\ RequestsStaged /\ Owned /\ ContextsServed /\ LineKept

\* What the step of another context may do to a context, for the request it has.
Follows(x, z) ==
    /\ z.req = x.req /\ z.left = x.left /\ z.uploaded = x.uploaded /\ z.resent = x.resent
    /\ z.at = x.at \/ (x.at = "queued" /\ z.at = "send")

LEMMA FollowsKeeps ==
    ASSUME NEW x, NEW z, Follows(x, z)
    PROVE  /\ z.at \in Idle <=> x.at \in Idle
           /\ z.at = "unused" <=> x.at = "unused"
           /\ z.at \in BodyPoints <=> x.at \in BodyPoints
           /\ z.at \in AfterBody <=> x.at \in AfterBody
           /\ z.at \in Begins <=> x.at \in Begins
  BY DEF Follows, Idle, BodyPoints, AfterBody, Begins, Resolving

LEMMA FollowsServed ==
    ASSUME NEW x, NEW z, Follows(x, z), NEW bodies,
           NEW ends, NEW answers, NEW contents, NEW read,
           Served(x, bodies, ends, answers, contents, read),
           NEW ends2, NEW answers2, NEW contents2, NEW read2,
           x.at \notin Idle =>
               /\ ends2[x.req] = ends[x.req] /\ answers2[x.req] = answers[x.req]
               /\ contents2[x.req] = contents[x.req]
               /\ x.req \in read2 => x.req \in read
    PROVE  Served(z, bodies, ends2, answers2, contents2, read2)
  BY FollowsKeeps DEF Served, Stage, SentInFull, Follows

\* Two contexts that are not done serve two requests that were issued.
LEMMA ServingContexts ==
    ASSUME PoolInv, TellInv
    PROVE  /\ \A c \in Contexts : ctx[c].at \notin Idle =>
                   /\ c \in Live /\ ctx[c].req \in 1..issued /\ ctx[c].req \in Requests
           /\ \A c, d \in Contexts : ctx[c].at \notin Idle /\ ctx[d].at \notin Idle /\ c # d =>
                   ctx[c].req # ctx[d].req
  BY LiveExplained DEF TellInv, OneEach, Idle, Live

\* The other contexts are served as before, if their requests are.
LEMMA OthersServe ==
    ASSUME PoolInv, TellInv, ServeInv, client' = client, NEW c \in Contexts,
           \A d \in Contexts \ {c} : Follows(ctx[d], ctx'[d]),
           \A d \in Contexts \ {c} : ctx[d].at \notin Idle =>
               LET q == ctx[d].req IN
               /\ finishes'[q] = finishes[q] /\ answer'[q] = answer[q] /\ content'[q] = content[q]
               /\ q \in consumed' => q \in consumed
    PROVE  \A d \in Contexts \ {c} :
               Served(ctx'[d], client'.bodies, finishes', answer', content', consumed')
<1> SUFFICES ASSUME NEW d \in Contexts \ {c}
             PROVE  Served(ctx'[d], client'.bodies, finishes', answer', content', consumed')
  OBVIOUS
<1> DEFINE bodies == client.bodies
<1> HIDE DEF bodies
<1> QED BY FollowsServed DEF ServeInv, ContextsServed

\* The step of the context c, which serves r and goes on as y.
LEMMA OneServes ==
    ASSUME PoolInv, TellInv, ServeInv, client' = client, issued' = issued,
           NEW c \in Contexts, NEW y, ctx'[c] = y, ctx[c].at \notin Idle,
           \A d \in Contexts \ {c} : Follows(ctx[d], ctx'[d]),
           NEW r \in Requests, r = ctx[c].req,
           \A q \in Requests : q # r =>
               /\ finishes'[q] = finishes[q] /\ answer'[q] = answer[q] /\ content'[q] = content[q]
               /\ q \in consumed' => q \in consumed,
           RequestStage(finishes'[r], answer'[r], content'[r]),
           Served(y, client.bodies, finishes', answer', content', consumed'),
           y.at \notin Idle => y.req = r,
           finishes'[r] = 0 => y.at \notin Idle
    PROVE  RequestsStaged' /\ Owned' /\ ContextsServed'
<1>4. RequestsStaged'
  <2> SUFFICES ASSUME NEW q \in Requests
               PROVE  /\ RequestStage(finishes'[q], answer'[q], content'[q])
                      /\ q > issued => finishes'[q] = 0 /\ answer'[q] = "none" /\ content'[q] = "none"
    BY DEF RequestsStaged
  <2>1. CASE q = r
    BY <2>1, ServingContexts DEF PoolInv, PoolTypes
  <2>2. CASE q # r
    BY <2>2 DEF ServeInv, RequestsStaged
  <2> QED BY <2>1, <2>2
<1>5. Owned'
  <2> SUFFICES ASSUME NEW q \in 1..issued, finishes'[q] = 0
               PROVE  \E d \in Contexts : ctx'[d].req = q /\ ctx'[d].at \notin Idle
    BY DEF Owned
  <2>1. CASE q = r
    BY <2>1
  <2>2. CASE q # r
    <3>3. PICK d \in Contexts : ctx[d].req = q /\ ctx[d].at \notin Idle
      BY <2>2, ContextsTyped DEF ServeInv, Owned
    <3> QED BY <2>2, <3>3, FollowsKeeps DEF Follows
  <2> QED BY <2>1, <2>2
<1> QED BY <1>4, <1>5, ServingContexts, OthersServe DEF ContextsServed

\* A step that finishes nothing and takes nothing keeps the line.
LEMMA LineStays ==
    ASSUME PoolInv, ServeInv, client' = client, issued' = issued, finishes' = finishes,
           scheduled' = scheduled, queue' = queue,
           \A c \in Contexts : ctx[c].at = "queued" => ctx'[c].req = ctx[c].req
    PROVE  LineKept'
<1> SUFFICES ASSUME client.order, Twice = {}
             PROVE  \E f \in 0..issued : LineAt(f)'
  BY DEF LineKept, Twice
<1>1. PICK f \in 0..issued : LineAt(f)
  BY DEF ServeInv, LineKept
<1> QED BY <1>1 DEF LineAt, PoolInv, PoolTypes, QueueSound

\* Steps that change no request: the contexts keep what they know of theirs.
LEMMA NothingServed ==
    ASSUME PoolInv, TellInv, ServeInv, client' = client, issued' = issued, finishes' = finishes,
           answer' = answer, content' = content, consumed' = consumed,
           scheduled' = scheduled, queue' = queue,
           \A c \in Contexts : Follows(ctx[c], ctx'[c]),
           cancelled' \subseteq 1..issued, prev' <= epoch'
    PROVE  ServeInv'
  BY LineStays, FollowsKeeps, FollowsServed DEF ServeInv, RequestsStaged, ServeTypes,
     ContextsServed, Owned, Follows

\* finish() takes contexts from the queue, and c is not one of them.
LEMMA FinishMoves ==
    ASSUME PoolInv, NEW c \in Live, ctx[c].at # "queued", NEW y, NEW r, NEW n \in Nat,
           Finish(r, n, [ctx EXCEPT ![c] = y])
    PROVE  /\ ctx'[c] = y
           /\ \A d \in Contexts \ {c} :
                \/ ctx'[d] = ctx[d]
                \/ ctx[d].at = "queued" /\ ctx'[d] = [ctx[d] EXCEPT !.at = "send"]
<1> DEFINE popped == {Popped(n)[i] : i \in DOMAIN Popped(n)}
           cs == [ctx EXCEPT ![c] = y]
<1>1. c \in Contexts /\ ctx \in [Contexts -> AnyContext] /\ queue \in Seq(Contexts)
  BY DEF Live, PoolInv, PoolTypes
<1>2. popped \subseteq {queue[i] : i \in DOMAIN queue}
  <2>1. CASE client.order
    <3> DEFINE l == IF n < Len(queue) THEN n ELSE Len(queue)
    <3>1. l \in Nat /\ l <= Len(queue) /\ Len(queue) \in Nat
      BY <1>1
    <3> HIDE DEF l
    <3> QED BY <1>1, <2>1, <3>1 DEF Popped
  <2>2. CASE ~client.order
    BY <2>2 DEF Popped
  <2> QED BY <2>1, <2>2
<1>4. ctx' = [d \in Contexts |-> IF d \in popped THEN [cs[d] EXCEPT !.at = "send"] ELSE cs[d]]
  BY DEF Finish
<1> HIDE DEF popped
<1>5. cs[c] = y /\ \A d \in Contexts \ {c} : cs[d] = ctx[d]
  BY <1>1
<1> HIDE DEF cs
<1> QED BY <1>1, <1>2, <1>4, <1>5 DEF PoolInv, QueueSound

LEMMA FinishFollows ==
    ASSUME PoolInv, NEW c \in Live, ctx[c].at # "queued", NEW y, NEW r, NEW n \in Nat,
           Finish(r, n, [ctx EXCEPT ![c] = y])
    PROVE  ctx'[c] = y /\ \A d \in Contexts \ {c} : Follows(ctx[d], ctx'[d])
<1>3. \A d \in Contexts \ {c} : Follows(ctx[d], ctx'[d])
  <2> SUFFICES ASSUME NEW d \in Contexts \ {c}
               PROVE  Follows(ctx[d], ctx'[d])
    OBVIOUS
  <2>1. CASE ctx'[d] = ctx[d]
    BY <2>1 DEF Follows
  <2>2. CASE ctx[d].at = "queued" /\ ctx'[d] = [ctx[d] EXCEPT !.at = "send"]
    BY <2>2, ContextsTyped DEF AnyContext, Follows
  <2> QED BY <2>1, <2>2, FinishMoves
<1> QED BY <1>3, FinishMoves

\* The context that is not in the queue and serves a request that is not finished
\* serves the first one.
LEMMA FirstServed ==
    ASSUME PoolInv, TellInv, ServeInv, NEW f \in 0..issued, LineAt(f),
           NEW c \in Contexts, ctx[c].at \notin Idle, ctx[c].at # "queued",
           finishes[ctx[c].req] = 0
    PROVE  ctx[c].req = f + 1
<1> DEFINE r == ctx[c].req
<1>1. r \in 1..issued /\ r \in Requests /\ issued \in Nat /\ queue \in Seq(Contexts)
  BY ServingContexts DEF PoolInv, PoolTypes
<1>2. r > f
  BY <1>1 DEF LineAt
<1>3. ASSUME r # f + 1
      PROVE  FALSE
  <2> DEFINE i == r - f - 1
  <2>1. i \in 1..(issued - f - 1) /\ f < issued
    BY <1>1, <1>2, <1>3
  <2>2. i \in DOMAIN queue
    BY <1>1, <2>1 DEF LineAt
  <2>3. f + 1 + i = r
    BY <1>1, <2>1
  <2> HIDE DEF i
  <2>6. ctx[queue[i]].req = r
    BY <2>2, <2>3 DEF LineAt
  <2>4. queue[i] \in Contexts /\ ctx[queue[i]].at = "queued"
    BY <1>1, <2>2 DEF PoolInv, QueueSound
  <2>5. queue[i] # c /\ ctx[queue[i]].at \notin Idle
    BY <2>4 DEF Idle
  <2> QED BY <2>4, <2>5, <2>6, ServingContexts
<1> QED BY <1>1, <1>3

\* finish() keeps the line: the first request leaves it, and the next one is sent.
LEMMA FinishLine ==
    ASSUME PoolInv, TellInv, ServeInv, client' = client, issued' = issued,
           NEW c \in Live, ctx[c].at \notin Idle, ctx[c].at # "queued", NEW y,
           NEW r, r = ctx[c].req, NEW n \in 0..2, Finish(r, n, [ctx EXCEPT ![c] = y])
    PROVE  LineKept'
<1>1. /\ c \in Contexts /\ r \in Requests /\ r \in 1..issued /\ issued \in Nat /\ queue \in Seq(Contexts)
      /\ finishes \in [Requests -> 0..2] /\ scheduled \in Int
      /\ \A q \in Requests : q \in Int
  BY ServingContexts, HttpClientAssumption DEF Live, PoolInv, PoolTypes, ServeInv, ServeTypes,
     Requests
<1>2. /\ finishes' = [finishes EXCEPT ![r] = finishes[r] + n]
      /\ scheduled' = IF client.order THEN scheduled - n ELSE scheduled
      /\ queue' = SubSeq(queue, Len(Popped(n)) + 1, Len(queue))
  BY <1>1 DEF Finish
<1>3. /\ ctx'[c] = y /\ \A d \in Contexts \ {c} : Follows(ctx[d], ctx'[d])
  <2>1. n \in Nat
    OBVIOUS
  <2> QED BY <2>1, FinishFollows
<1> SUFFICES ASSUME client.order, Twice' = {}
             PROVE  \E f \in 0..issued : LineAt(f)'
  BY DEF LineKept
<1>4. \A q \in Requests : finishes'[q] <= 1 /\ finishes[q] <= finishes'[q]
  <2> SUFFICES ASSUME NEW q \in Requests
               PROVE  finishes'[q] <= 1 /\ finishes[q] <= finishes'[q]
    OBVIOUS
  <2>2. finishes'[q] = IF q = r THEN finishes[r] + n ELSE finishes[q]
    BY <1>1, <1>2
  <2> QED BY <1>1, <2>2 DEF Twice
<1>5. Twice = {}
  <2>1. \A q \in Requests : finishes[q] \in 0..2 /\ finishes'[q] \in 0..4
    BY <1>1, <1>2
  <2> QED BY <1>4, <2>1 DEF Twice
<1>6. PICK f \in 0..issued : LineAt(f)
  BY <1>5 DEF ServeInv, LineKept
<1>8. \A i \in DOMAIN queue : ctx'[queue[i]].req = ctx[queue[i]].req
  BY <1>1, <1>3 DEF Follows, PoolInv, QueueSound
<1> DEFINE l == IF n < Len(queue) THEN n ELSE Len(queue)
<1>9. l \in Nat /\ l <= Len(queue) /\ Len(queue) \in Nat
  BY <1>1
<1>10. Popped(n) = SubSeq(queue, 1, l)
  BY DEF Popped
<1>11. Len(Popped(n)) = l
  <2> HIDE DEF l
  <2> QED BY <1>1, <1>9, <1>10
<1>12. CASE n = 0
  <2>1. l = 0 /\ finishes' = finishes /\ scheduled' = scheduled
    BY <1>1, <1>2, <1>9, <1>12
  <2> HIDE DEF l
  <2>2. queue' = queue
    BY <1>1, <1>2, <1>11, <2>1, SubSeqFull
  <2> QED BY <1>6, <1>8, <2>1, <2>2 DEF LineAt
<1>13. CASE n = 1
  <2>2. r = f + 1
    BY <1>1, <1>2, <1>4, <1>6, <1>13, FirstServed
  <2> DEFINE g == f + 1
  <2>3. g \in 0..issued /\ f < issued
    BY <1>1, <2>2
  <2>4. scheduled' = issued - g
    BY <1>1, <1>2, <1>6, <1>13 DEF LineAt
  <2>5. \A q \in Requests : finishes'[q] > 0 <=> q <= g
    <3>1. \A q \in Requests : finishes[q] > 0 <=> q <= f
      BY <1>6 DEF LineAt
    <3> QED BY <1>1, <1>2, <1>4, <1>13, <2>2, <3>1
  <2>6. Len(queue) = issued - f - 1 /\ \A i \in DOMAIN queue : ctx[queue[i]].req = f + 1 + i
    BY <1>6, <2>3 DEF LineAt
  <2>7. CASE Len(queue) = 0
    <3>2. ~(g < issued)
      BY <1>1, <2>6, <2>7
    <3> HIDE DEF g
    <3> QED BY <1>1, <1>2, <1>11, <2>3, <2>4, <2>5, <2>7, <3>2 DEF LineAt
  <2>8. CASE Len(queue) > 0
    <3>1. l = 1
      <4> DEFINE m == Len(queue)
      <4>1. m \in Nat /\ m > 0 /\ l = IF n < m THEN n ELSE m
        BY <1>9, <2>8
      <4> HIDE DEF m, l
      <4> QED BY <1>13, <4>1
    <3> HIDE DEF l
    <3>3. /\ Len(queue') = Len(queue) - 1 /\ DOMAIN queue' = 1..(Len(queue) - 1)
          /\ \A i \in DOMAIN queue' : i \in Int /\ i + 1 \in DOMAIN queue /\ queue'[i] = queue[i + 1]
      <4> DEFINE m == Len(queue)
      <4>1. m \in Nat /\ m > 0
        BY <1>9, <2>8
      <4>2. queue' = SubSeq(queue, 2, m)
        BY <1>2, <1>11, <3>1
      <4> HIDE DEF m
      <4>5. Len(queue') = m - 1 /\ DOMAIN queue' = 1..(m - 1)
        BY <1>1, <4>1, <4>2, SubSeqProperties
      <4> QED BY <1>1, <4>1, <4>2, <4>5, SubSeqProperties DEF m
    <3>4. \A i \in DOMAIN queue' : ctx'[queue'[i]].req = g + 1 + i
      BY <1>8, <2>6, <3>3
    <3>5. g < issued /\ Len(queue') = issued - g - 1
      BY <1>1, <2>6, <2>8, <3>3
    <3> HIDE DEF g
    <3> QED BY <2>3, <2>4, <2>5, <3>4, <3>5 DEF LineAt
  <2> QED BY <1>9, <2>7, <2>8
<1>14. CASE n = 2
  BY <1>1, <1>2, <1>4, <1>14
<1> QED BY <1>12, <1>13, <1>14

-----------------------------------------------------------------------------
(* The steps that end a request, or answer it.                                *)

\* The context c of the request r calls finish() n times and goes on as y, with
\* what the request told, and what is left of its content.
LEMMA FinishServes ==
    ASSUME PoolInv, TellInv, ServeInv, client' = client, issued' = issued,
           cancelled' = cancelled, consumed' = consumed, prev' = prev, epoch' = epoch,
           NEW c \in Contexts, ctx[c].at \notin Idle, ctx[c].at # "queued",
           NEW r \in Requests, r = ctx[c].req,
           NEW y, NEW n \in 0..2, Finish(r, n, [ctx EXCEPT ![c] = y]),
           NEW told, answer' = [answer EXCEPT ![r] = told],
           NEW rest \in Contents, content' = [content EXCEPT ![r] = rest],
           NEW m \in 0..2, m = finishes[r] + n, RequestStage(m, told, rest),
           y.left = ctx[c].left, y.at \notin Begins \cup {"unused"},
           y.at # "done" =>
               /\ y.req = r /\ y.uploaded = ctx[c].uploaded /\ y.resent = ctx[c].resent
               /\ Stage(y.at, m, told, rest) /\ ctx[c].at \in AfterBody,
           m = 0 => y.at # "done"
    PROVE  ServeInv'
<1>1. /\ c \in Live /\ r \in 1..issued /\ r \in Requests
  BY ServingContexts
<1>2. /\ answer \in [Requests -> Answers] /\ content \in [Requests -> Contents]
      /\ finishes \in [Requests -> 0..2] /\ scheduled \in Int /\ n \in Nat
  BY DEF TellInv, AnswersTyped, ServeInv, ServeTypes
<1>5. /\ finishes'[r] = m /\ answer'[r] = told /\ content'[r] = rest
      /\ \A q \in Requests : q # r =>
            /\ finishes'[q] = finishes[q] /\ answer'[q] = answer[q] /\ content'[q] = content[q]
            /\ q \in consumed' => q \in consumed
  BY <1>1, <1>2 DEF Finish
<1>6. ServeTypes'
  BY <1>1, <1>2 DEF ServeInv, ServeTypes, Finish
<1>8. Served(y, client.bodies, finishes', answer', content', consumed')
  BY <1>5 DEF Served, Idle, SentInFull, ServeInv, ContextsServed
<1>10. RequestStage(finishes'[r], answer'[r], content'[r])
  BY <1>5
<1>12. RequestsStaged' /\ Owned' /\ ContextsServed'
  <2>1. c \in Contexts /\ r \in Requests
    BY <1>1
  <2>2. ctx'[c] = y
    BY <1>1, <1>2, FinishFollows
  <2>3. \A d \in Contexts \ {c} : Follows(ctx[d], ctx'[d])
    BY <1>1, <1>2, FinishFollows
  <2>5. y.at \notin Idle => y.req = r
    BY <1>5 DEF Idle
  <2>6. finishes'[r] = 0 => y.at \notin Idle
    BY <1>5 DEF Idle
  <2> QED BY <1>5, <1>8, <1>10, <2>1, <2>2, <2>3, <2>5, <2>6, OneServes
<1> QED BY <1>1, <1>6, <1>12, FinishLine DEF ServeInv

LEMMA StageMeans ==
    ASSUME NEW point, NEW n \in 0..2, NEW told, NEW rest, Stage(point, n, told, rest)
    PROVE  /\ n \in 0..1
           /\ n = 1 => told = "response" /\ rest = "failed"
           /\ n = 0 => told \in {"none", "response"} /\ rest = "none"
           /\ point \in BodyPoints => told = "response"
           /\ point \notin BodyPoints => n = 0 /\ told = "none"
<1>1. CASE point \in BodyPoints
  BY <1>1 DEF Stage
<1>2. CASE point \notin BodyPoints
  BY <1>2 DEF Stage
<1> QED BY <1>1, <1>2

\* What a context in use knows of its request.
LEMMA ServingContext ==
    ASSUME PoolInv, TellInv, ServeInv, NEW c \in Contexts, ctx[c].at \notin Idle
    PROVE  LET r == ctx[c].req IN
           /\ c \in Live /\ r \in 1..issued /\ r \in Requests /\ ctx[c] \in AnyContext
           /\ Stage(ctx[c].at, finishes[r], answer[r], content[r])
           /\ answer \in [Requests -> Answers] /\ content \in [Requests -> Contents]
           /\ finishes \in [Requests -> 0..2] /\ ctx \in [Contexts -> AnyContext]
           /\ ctx[c].left \in 0..2 /\ (ctx[c].at \in Begins => ctx[c].left # 0)
           /\ r \in consumed => ctx[c].uploaded \/ ctx[c].resent
           /\ ctx[c].at \in AfterBody => SentInFull(ctx[c], client.bodies)
  BY ServingContexts, ContextsTyped DEF TellInv, AnswersTyped, ServeInv, ServeTypes,
     ContextsServed, Served, PoolInv, PoolTypes

Reasons == {"error", "timed_out", "canceled"}

LEMMA ErrorIsGiven ==
    ASSUME NEW c
    PROVE  Error(c) \in Reasons
  BY DEF Error, Reasons

\* report_exception() ends the content of a request that was answered by a
\* failure.
LEMMA ReportServes ==
    ASSUME PoolInv, TellInv, ServeInv, NEW c \in Contexts, ctx[c].at \notin Idle \cup {"queued"},
           NEW what \in Reasons, Report(c, what)
    PROVE  ServeInv'
<1> DEFINE r == ctx[c].req
           y == [ctx[c] EXCEPT !.at = "done"]
           why == IF r \in cancelled THEN "canceled" ELSE what
           told == IF answer[r] = "none" THEN why ELSE answer[r]
           rest == IF content[r] # "none" THEN content[r]
                   ELSE IF answer[r] = "none" THEN "complete" ELSE "failed"
           m == finishes[r] + 1
<1>1. /\ r \in Requests /\ ctx[c] \in AnyContext
      /\ Stage(ctx[c].at, finishes[r], answer[r], content[r])
      /\ answer \in [Requests -> Answers] /\ content \in [Requests -> Contents]
      /\ finishes \in [Requests -> 0..2]
  BY ServingContext
<1>2. /\ client' = client /\ issued' = issued /\ cancelled' = cancelled /\ consumed' = consumed
      /\ prev' = prev /\ epoch' = epoch
      /\ answer' = [answer EXCEPT ![r] = told] /\ content' = [content EXCEPT ![r] = rest]
      /\ Finish(r, 1, [ctx EXCEPT ![c] = y])
  BY <1>1 DEF Report, Reported, poolVars
<1>3. why \in Reasons /\ told # "none" /\ rest # "none" /\ rest \in Contents
  BY <1>1 DEF Reasons, Contents
<1>4. m \in 0..2 /\ m > 0 /\ (m > 1 => rest = "failed" /\ told = "response")
  <2>2. /\ finishes[r] \in 0..1
        /\ finishes[r] = 1 => answer[r] = "response" /\ content[r] = "failed"
    BY <1>1, StageMeans
  <2> QED BY <2>2
<1>5. RequestStage(m, told, rest)
  BY <1>3, <1>4 DEF RequestStage
<1>6. y.left = ctx[c].left /\ y.at = "done" /\ y.at \notin Begins \cup {"unused"}
  BY <1>1 DEF AnyContext, Begins, Resolving
<1>7. m = finishes[r] + 1
  OBVIOUS
<1>8. /\ ctx[c].at \notin Idle /\ ctx[c].at # "queued" /\ 1 \in 0..2
      /\ y.at # "done" => FALSE
      /\ m = 0 => FALSE
  BY <1>4, <1>6
<1> HIDE DEF y, told, rest, m
<1> QED BY <1>1, <1>2, <1>3, <1>4, <1>5, <1>6, <1>7, <1>8, FinishServes

\* complete_request(), at the end of the body.
LEMMA CompleteRequestServes ==
    ASSUME PoolInv, TellInv, ServeInv, NEW c \in Contexts, ctx[c].at \in BodyPoints,
           CompleteRequest(c)
    PROVE  ServeInv'
<1> DEFINE r == ctx[c].req
           y == [ctx[c] EXCEPT !.at = "done"]
           told == answer[r]
           rest == IF content[r] = "none" THEN "complete" ELSE content[r]
           m == finishes[r] + 1
<1>1. ctx[c].at \notin Idle \cup {"queued"}
  BY DEF BodyPoints, Idle
<1>2. /\ r \in Requests /\ ctx[c] \in AnyContext /\ ctx \in [Contexts -> AnyContext]
      /\ Stage(ctx[c].at, finishes[r], answer[r], content[r])
      /\ answer \in [Requests -> Answers] /\ content \in [Requests -> Contents]
      /\ finishes \in [Requests -> 0..2]
  BY <1>1, ServingContext
<1>4. /\ client' = client /\ issued' = issued /\ cancelled' = cancelled /\ consumed' = consumed
      /\ prev' = prev /\ epoch' = epoch
      /\ answer' = [answer EXCEPT ![r] = told] /\ content' = [content EXCEPT ![r] = rest]
      /\ Finish(r, 1, [ctx EXCEPT ![c] = y])
  BY <1>2 DEF CompleteRequest, poolVars
<1>5. told = "response" /\ rest # "none" /\ rest \in Contents
  BY <1>2, StageMeans DEF Contents
<1>6. m \in 0..2 /\ m > 0 /\ (m > 1 => rest = "failed")
  BY <1>2, StageMeans
<1>7. RequestStage(m, told, rest)
  BY <1>5, <1>6 DEF RequestStage
<1>8. y.left = ctx[c].left /\ y.at = "done" /\ y.at \notin Begins \cup {"unused"}
  BY <1>2 DEF AnyContext, Begins, Resolving
<1>9. m = finishes[r] + 1
  OBVIOUS
<1>11. /\ ctx[c].at \notin Idle /\ ctx[c].at # "queued" /\ 1 \in 0..2
       /\ y.at # "done" => FALSE
       /\ m = 0 => FALSE
  BY <1>1, <1>6, <1>8
<1> HIDE DEF y, told, rest, m
<1> QED BY <1>2, <1>11, <1>4, <1>5, <1>6, <1>7, <1>8, <1>9, FinishServes

\* The headers answer the request; finish() is called for an encoding nobody knows
\* and for a response with no body, so twice for both.
LEMMA HeadersServe ==
    ASSUME PoolInv, TellInv, ServeInv, NEW c \in Contexts, ctx[c].at = "status", ctx[c].result = "ok",
           NEW reply, NEW throws, throws => NoBody(reply), Headers(c, reply, throws)
    PROVE  ServeInv'
<1> DEFINE w == Reset(ctx[c])
           length == reply.length
           x == [w EXCEPT !.length = length]
           r == ctx[c].req
           known == reply.encoding = "known"
           broken == ~known \/ throws
           closed == sock[x.conn] = "closed" \/ broken
           n == (IF known THEN 0 ELSE 1) + (IF NoBody(reply) THEN 1 ELSE 0)
           told == IF answer[r] = "none" THEN "response" ELSE answer[r]
           rest == IF broken THEN "failed" ELSE IF NoBody(reply) THEN "complete" ELSE content[r]
           m == finishes[r] + n
<1>1. ctx[c].at \notin Idle \cup {"queued"} /\ ctx[c].at \in AfterBody /\ ctx[c].at \notin BodyPoints
      /\ ctx[c].at \notin Begins
  BY DEF BodyPoints, Idle, AfterBody, Begins, Resolving
<1>2. /\ r \in Requests /\ ctx[c] \in AnyContext /\ ctx \in [Contexts -> AnyContext]
      /\ Stage(ctx[c].at, finishes[r], answer[r], content[r])
      /\ answer \in [Requests -> Answers] /\ content \in [Requests -> Contents]
      /\ finishes \in [Requests -> 0..2]
  BY <1>1, ServingContext
<1>4. /\ w \in AnyContext /\ w.req = r /\ w.at = "status" /\ w.left = ctx[c].left
      /\ w.uploaded = ctx[c].uploaded /\ w.resent = ctx[c].resent
  BY <1>2 DEF Reset, AnyContext, Alarms
<1>5. /\ x.req = r /\ x.at = "status" /\ x.left = ctx[c].left
      /\ x.uploaded = ctx[c].uploaded /\ x.resent = ctx[c].resent
      /\ {"at", "result", "req", "left", "uploaded", "resent"} \subseteq DOMAIN x
  <2> HIDE DEF w, length
  <2> QED BY <1>4 DEF AnyContext
<1>6. PICK y \in IF NoBody(reply) THEN {[x EXCEPT !.at = "done"]}
                 ELSE MayBeBuffered(x, closed, BodyPoint(reply)) :
        Finish(x.req, n, [ctx EXCEPT ![c] = y])
  BY DEF Headers
<1>7. /\ client' = client /\ issued' = issued /\ cancelled' = cancelled /\ consumed' = consumed
      /\ prev' = prev /\ epoch' = epoch
      /\ answer' = [answer EXCEPT ![r] = told] /\ content' = [content EXCEPT ![r] = rest]
  BY <1>2, <1>5 DEF Headers, poolVars
<1> HIDE DEF x, closed, w
<1>8. /\ y.left = ctx[c].left
      /\ NoBody(reply) => y.at = "done"
      /\ ~NoBody(reply) =>
            /\ y.at \in {"content", "chunkHeader"} /\ y.req = r
            /\ y.uploaded = ctx[c].uploaded /\ y.resent = ctx[c].resent
  <2>1. CASE NoBody(reply)
    BY <1>5, <1>6, <2>1
  <2>2. CASE ~NoBody(reply)
    <3>1. PICK result \in {"ok", "refused", "none"} :
            y = [x EXCEPT !.at = BodyPoint(reply), !.result = result]
      BY <1>6, <2>2 DEF MayBeBuffered
    <3> QED BY <1>5, <2>2, <3>1 DEF BodyPoint
  <2> QED BY <2>1, <2>2
<1>10. n \in 0..2 /\ m = n /\ told = "response"
  BY <1>1, <1>2 DEF Stage
<1>11. /\ n = 0 => ~NoBody(reply) /\ known /\ ~broken
       /\ n = 1 => NoBody(reply) \/ ~known
       /\ n = 2 => ~known
       /\ ~NoBody(reply) /\ n = 1 => ~known
  OBVIOUS
<1>12. /\ rest \in Contents
       /\ n = 0 => rest = "none"
       /\ n > 0 => rest # "none"
       /\ ~known => rest = "failed"
  BY <1>1, <1>2, <1>10, <1>11 DEF Contents, Stage
<1> HIDE DEF known, broken, n, told, rest
<1>13. RequestStage(m, told, rest)
  BY <1>10, <1>11, <1>12 DEF RequestStage
<1>14. /\ y.at \notin Begins \cup {"unused"}
       /\ y.at # "done" =>
            /\ y.req = r /\ y.uploaded = ctx[c].uploaded /\ y.resent = ctx[c].resent
            /\ Stage(y.at, m, told, rest) /\ ctx[c].at \in AfterBody
       /\ m = 0 => y.at # "done"
  <2>1. CASE NoBody(reply)
    BY <1>8, <1>10, <1>11, <2>1 DEF Begins, Resolving
  <2>2. CASE ~NoBody(reply)
    BY <1>1, <1>8, <1>10, <1>11, <1>12, <2>2 DEF BodyPoints, Begins, Resolving, Stage, n
  <2> QED BY <2>1, <2>2
<1>15. m \in 0..2 /\ m = finishes[r] + n /\ ctx[c].at \notin Idle /\ ctx[c].at # "queued"
  BY <1>1, <1>10
<1>16. /\ r \in Requests /\ r = ctx[c].req /\ n \in 0..2 /\ rest \in Contents
       /\ y.left = ctx[c].left
  BY <1>2, <1>8, <1>10, <1>12
<1> HIDE DEF m, r
<1> QED BY <1>5, <1>6, <1>7, <1>13, <1>14, <1>15, <1>16, FinishServes

-----------------------------------------------------------------------------
(* The steps that leave the request as it is.                                 *)

\* The context x goes on as y with the same request, on the same side of the
\* headers; past the body, it was sent.
GoesFor(x, y) ==
    /\ y.req = x.req /\ y.uploaded = x.uploaded /\ y.resent = x.resent
    /\ y.at \notin Idle
    /\ y.at \in BodyPoints <=> x.at \in BodyPoints
    /\ y.at \in AfterBody => x.at \in AfterBody \/ SentInFull(x, client.bodies)
    /\ y.left \in 0..2 /\ (y.at \in Begins => y.left # 0)

LEMMA MoveServes ==
    ASSUME PoolInv, TellInv, ServeInv, NEW c \in Contexts, ctx[c].at \notin Idle,
           NEW y, ctx' = [ctx EXCEPT ![c] = y], GoesFor(ctx[c], y),
           client' = client, issued' = issued, cancelled' = cancelled, consumed' = consumed,
           finishes' = finishes, answer' = answer, content' = content,
           scheduled' = scheduled, queue' = queue, prev' = prev, epoch' = epoch
    PROVE  ServeInv'
  BY ServingContext, OneServes, LineStays DEF ServeInv, ServeTypes, Follows, GoesFor, Served,
     Stage, SentInFull, Idle, RequestsStaged

LEMMA GoServes ==
    ASSUME PoolInv, TellInv, ServeInv, NEW c \in Contexts, ctx[c].at \notin Idle,
           NEW y, Go(c, y), GoesFor(ctx[c], y)
    PROVE  ServeInv'
  BY MoveServes DEF Go, results, line, poolVars

\* What the handlers do to the fields of a context keeps those of its request.
Stays(x, z) ==
    /\ z \in AnyContext
    /\ z.req = x.req /\ z.left = x.left /\ z.uploaded = x.uploaded /\ z.resent = x.resent

LEMMA TimersStay ==
    ASSUME NEW x \in AnyContext
    PROVE  /\ Stays(x, Reset(x)) /\ Reset(x).at = x.at
           /\ Stays(x, Started(x)) /\ Started(x).at = x.at
           /\ Stays(x, Aborted(x)) /\ Aborted(x).at = x.at
  BY DEF Started, AnyContext, Stays, Aborted, Pending, Reset, Clocks, Alarms, Results

LEMMA OpStays ==
    ASSUME NEW x, NEW z, Stays(x, z), NEW point \in Points
    PROVE  Stays(x, Op(z, point)) /\ Op(z, point).at = point
  BY DEF Op, Stays, AnyContext, Results

LEMMA WriteStays ==
    ASSUME NEW x, NEW z, Stays(x, z)
    PROVE  Stays(x, WriteRequest(z)) /\ WriteRequest(z).at \in {"handshake", "headers"}
<1> DEFINE point == IF client.mode # "plain" /\ z.conn \notin reused THEN "handshake" ELSE "headers"
<1>1. point \in {"handshake", "headers"} /\ point \in Points
  BY JoinedPoints
<1>2. WriteRequest(z) = Op(z, point)
  BY DEF WriteRequest
<1> HIDE DEF point
<1> QED BY <1>1, <1>2, OpStays

LEMMA MovedStays ==
    ASSUME NEW x, NEW z, Stays(x, z), NEW point \in Points, NEW result \in Results
    PROVE  LET y == [z EXCEPT !.at = point, !.result = result] IN Stays(x, y) /\ y.at = point
  BY DEF Stays, AnyContext

\* The context goes on at a point that is not before the resolving.
LEMMA StaysServe ==
    ASSUME PoolInv, TellInv, ServeInv, NEW c \in Contexts, ctx[c].at \notin Idle,
           NEW y, Go(c, y), Stays(ctx[c], y),
           y.at \notin Idle, y.at \in Begins => ctx[c].at \in Begins,
           y.at \in BodyPoints <=> ctx[c].at \in BodyPoints,
           y.at \in AfterBody => ctx[c].at \in AfterBody \/ SentInFull(ctx[c], client.bodies)
    PROVE  ServeInv'
  BY ServingContext, GoServes DEF GoesFor, Stays

\* Before the body: where a context may go without having sent it.
Early == {"connect", "tunnelConnect", "tunnelWrite", "tunnelStatus", "handshake", "headers",
          "large", "chunked", "getn"}

LEMMA EarlyPoints ==
    /\ Early \cap (Idle \cup Begins \cup BodyPoints \cup AfterBody) = {}
    /\ Resolving \subseteq Begins /\ "send" \in Begins
    /\ Begins \cap (Idle \cup BodyPoints \cup AfterBody) = {}
    /\ BodyPoints \subseteq AfterBody /\ AfterBody \cap Idle = {}
    /\ {"status", "last"} \subseteq AfterBody
    /\ {"status", "last"} \cap BodyPoints = {}
    /\ Early \cup Resolving \subseteq Points
  BY DEF Early, Idle, Begins, Resolving, BodyPoints, AfterBody, Points, OnSocket, Writes, Reads,
     Connecting

LEMMA EarlyNames ==
    {"tunnelWrite", "tunnelStatus", "handshake", "headers"} \subseteq Early
  BY DEF Early

LEMMA EarlyOp ==
    ASSUME NEW x, NEW z, Stays(x, z), NEW point \in Early
    PROVE  Stays(x, Op(z, point)) /\ Op(z, point).at = point /\ Op(z, point).at \in Early
  BY EarlyPoints, OpStays

LEMMA EarlyServe ==
    ASSUME PoolInv, TellInv, ServeInv, NEW c \in Contexts, ctx[c].at \in Early \cup Begins,
           NEW y, Go(c, y), Stays(ctx[c], y), y.at \in Early \/ (y.at \in Resolving /\ ctx[c].at = "send")
    PROVE  ServeInv'
  BY EarlyPoints, StaysServe

LEMMA ChangesFollow ==
    ASSUME PoolInv, NEW c \in Contexts, NEW y, ctx' = [ctx EXCEPT ![c] = y], Follows(ctx[c], y)
    PROVE  \A d \in Contexts : Follows(ctx[d], ctx'[d])
  BY DEF PoolInv, PoolTypes, Follows

\* The timer, the timeout and the network have nothing of a request.
LEMMA RingServes ==
    ASSUME PoolInv, TellInv, ServeInv, NEW c \in Contexts, Ring(c)
    PROVE  ServeInv'
<1> DEFINE y == [ctx[c] EXCEPT !.alarm = "rung"]
<1>1. Go(c, y) /\ ctx[c] \in AnyContext
  BY DEF Ring, PoolInv, PoolTypes
<1>2. Follows(ctx[c], y)
  BY <1>1 DEF AnyContext, Follows
<1> HIDE DEF y
<1> QED
  BY <1>1, <1>2, ChangesFollow, NothingServed DEF Go, results, line, poolVars, ServeInv,
     ServeTypes

LEMMA TimeoutServes ==
    ASSUME PoolInv, TellInv, ServeInv, NEW c \in Contexts, Timeout(c)
    PROVE  ServeInv'
<1> DEFINE x == Aborted(ctx[c])
           y == [x EXCEPT !.clock = "timedout", !.alarm = "idle"]
<1>2. /\ ctx' = [ctx EXCEPT ![c] = y]
      /\ client' = client /\ issued' = issued /\ cancelled' = cancelled /\ consumed' = consumed
      /\ finishes' = finishes /\ answer' = answer /\ content' = content
      /\ scheduled' = scheduled /\ queue' = queue /\ prev' = prev /\ epoch' = epoch
  BY DEF Timeout, results, line, poolVars, PoolInv, PoolTypes
<1>3. Stays(ctx[c], x) /\ x.at = ctx[c].at
  BY TimersStay DEF PoolInv, PoolTypes
<1> HIDE DEF x
<1>4. Follows(ctx[c], y)
  BY <1>3 DEF AnyContext, Follows, Stays
<1> HIDE DEF y
<1> QED BY <1>2, <1>4, ChangesFollow, NothingServed DEF ServeInv, ServeTypes

LEMMA CompleteServes ==
    ASSUME PoolInv, TellInv, ServeInv, NEW c \in Contexts, Complete(c)
    PROVE  ServeInv'
<1>2. PICK result \in Outcomes(ctx[c]) : ctx' = [ctx EXCEPT ![c].result = result]
  BY DEF Complete
<1> DEFINE y == [ctx[c] EXCEPT !.result = result]
<1>3. ctx' = [ctx EXCEPT ![c] = y]
  BY <1>2 DEF PoolInv, PoolTypes
<1>5. Follows(ctx[c], y)
  BY DEF AnyContext, Follows, PoolInv, PoolTypes
<1> HIDE DEF y
<1> QED
  BY <1>3, <1>5, ChangesFollow, NothingServed DEF Complete, results, line, poolVars, ServeInv,
     ServeTypes

\* The pool, the peer and the callback of a token: the contexts stay where they are.
LEMMA PoolServes ==
    ASSUME PoolInv, TellInv, ServeInv, PoolTimer \/ \E k \in Conns : PeerCloses(k)
    PROVE  ServeInv'
<1>2. cancelled \subseteq 1..issued /\ prev <= epoch /\ epoch \in Nat
  BY DEF ServeInv, ServeTypes, PoolInv, PoolTypes
<1>4. prev' <= epoch'
  BY <1>2 DEF PoolTimer, PeerCloses, results, line, poolVars
<1> QED BY <1>2, <1>4, NothingServed DEF Follows, PoolTimer, PeerCloses, results, line, poolVars

LEMMA CancelServes ==
    ASSUME PoolInv, TellInv, ServeInv, NEW r \in Requests, CancelToken(r)
    PROVE  ServeInv'
<1> DEFINE live == {c \in Contexts : ctx[c].req = r /\ ctx[c].listening /\ ctx[c].at # "done"}
<1>1. /\ r <= issued /\ cancelled' = cancelled \cup {r}
      /\ ctx' = [c \in Contexts |-> IF c \in live THEN Aborted(ctx[c]) ELSE ctx[c]]
      /\ client' = client /\ issued' = issued /\ consumed' = consumed
      /\ finishes' = finishes /\ answer' = answer /\ content' = content
      /\ scheduled' = scheduled /\ queue' = queue /\ epoch' = epoch /\ prev' = prev
  BY DEF CancelToken, results, line, poolVars
<1> HIDE DEF live
<1>2. \A d \in Contexts : Follows(ctx[d], ctx'[d])
  <2> SUFFICES ASSUME NEW d \in Contexts
               PROVE  Follows(ctx[d], ctx'[d])
    OBVIOUS
  <2>1. ctx[d] \in AnyContext /\ ctx'[d] = IF d \in live THEN Aborted(ctx[d]) ELSE ctx[d]
    BY <1>1, ContextsTyped
  <2>2. Stays(ctx[d], Aborted(ctx[d])) /\ Aborted(ctx[d]).at = ctx[d].at
    BY <2>1, TimersStay
  <2> QED BY <2>1, <2>2 DEF Follows, Stays
<1>3. cancelled \subseteq 1..issued /\ prev <= epoch /\ issued \in Nat /\ r \in 1..issued
  BY <1>1, HttpClientAssumption DEF ServeInv, ServeTypes, PoolInv, PoolTypes, Requests
<1>4. cancelled' \subseteq 1..issued /\ prev' <= epoch'
  BY <1>1, <1>3
<1> QED BY <1>1, <1>2, <1>4, NothingServed

\* ~asio_context() is the end of a context that serves nobody.
LEMMA ReleaseServes ==
    ASSUME PoolInv, TellInv, ServeInv, NEW c \in Contexts, Release(c)
    PROVE  ServeInv'
<1>1. /\ ctx[c].at = "done" /\ ctx' = [ctx EXCEPT ![c] = Unused]
      /\ client' = client /\ issued' = issued /\ cancelled' = cancelled /\ consumed' = consumed
      /\ finishes' = finishes /\ answer' = answer /\ content' = content
      /\ scheduled' = scheduled /\ queue' = queue
      /\ \/ epoch' = epoch /\ prev' = prev
         \/ epoch' = epoch + 1 /\ (prev' = prev \/ prev' = epoch)
  BY DEF Release, At, results, line, poolVars
<1>2. /\ ctx'[c] = Unused /\ \A d \in Contexts \ {c} : ctx'[d] = ctx[d]
  BY <1>1 DEF PoolInv, PoolTypes
<1>4. client.endpoints \in 1..2 /\ epoch \in Nat /\ prev \in Nat /\ prev <= epoch
  BY DEF PoolInv, PoolTypes, AllClients, ServeInv, ServeTypes
<1>9. Owned'
  BY <1>1, <1>2 DEF ServeInv, Owned, Idle
<1> QED
  BY <1>1, <1>2, <1>4, <1>9, LineStays DEF ServeInv, RequestsStaged, ServeTypes, ContextsServed,
     Served, Idle, Begins, Resolving, Unused

\* An address is taken of those that are left.
LEMMA ResolvedServes ==
    ASSUME PoolInv, TellInv, ServeInv, NEW c \in Contexts, Resolved(c)
    PROVE  ServeInv'
<1> DEFINE x == Reset(ctx[c])
           k == x.conn
           free == sock[k] \in {"new", "closed"}
           late == x.clock = "timedout"
           point == IF x.at = "resolve" THEN "connect" ELSE "tunnelConnect"
           result == IF ~free THEN "refused" ELSE IF late THEN "abort" ELSE "none"
           left == x.left - 1
           y == [x EXCEPT !.at = point, !.left = left, !.result = result]
<1>1. ctx[c].at \in Resolving /\ ctx[c].at \in Begins /\ ctx[c].at \notin Idle
  BY EarlyPoints DEF Resolved
<1>3. Stays(ctx[c], x)
  BY <1>1, ServingContext, TimersStay
<1>4. /\ ctx' = [ctx EXCEPT ![c] = y]
      /\ client' = client /\ issued' = issued /\ cancelled' = cancelled /\ consumed' = consumed
      /\ finishes' = finishes /\ answer' = answer /\ content' = content
      /\ scheduled' = scheduled /\ queue' = queue /\ prev' = prev /\ epoch' = epoch
  BY DEF Resolved, results, line, poolVars
<1> HIDE DEF x
<1>5. point \in Early /\ left \in 0..2
  BY <1>1, <1>3, ServingContext DEF Early, Stays
<1> HIDE DEF point, left, result
<1>6. y.req = ctx[c].req /\ y.left = left /\ y.uploaded = ctx[c].uploaded
      /\ y.resent = ctx[c].resent /\ y.at = point
  BY <1>3 DEF Stays, AnyContext
<1> HIDE DEF y
<1> QED BY <1>1, <1>4, <1>5, <1>6, EarlyPoints, MoveServes DEF GoesFor

LEMMA NextEndpointServes ==
    ASSUME PoolInv, TellInv, ServeInv, NEW c \in Contexts, ctx[c].at \in Connecting,
           NEW k \in Conns, ctx[c].left > 0, NextEndpoint(c, k)
    PROVE  ServeInv'
<1> DEFINE x == Reset(ctx[c])
           free == SockOf(k) \in {"new", "closed"}
           result == IF free THEN "none" ELSE "refused"
           left == ctx[c].left - 1
           y == [x EXCEPT !.conn = k, !.left = left, !.result = result]
<1>2. ctx[c] \in AnyContext /\ ctx[c].left \in 0..2 /\ ctx \in [Contexts -> AnyContext]
  BY ServingContext DEF Connecting, Early, Idle
<1>3. Stays(ctx[c], x) /\ x.at = ctx[c].at
  BY <1>2, TimersStay
<1>4. /\ ctx' = [ctx EXCEPT ![c] = y]
      /\ client' = client /\ issued' = issued /\ cancelled' = cancelled /\ consumed' = consumed
      /\ finishes' = finishes /\ answer' = answer /\ content' = content
      /\ scheduled' = scheduled /\ queue' = queue /\ prev' = prev /\ epoch' = epoch
  BY <1>2 DEF NextEndpoint, results, line
<1> HIDE DEF x
<1>5. left \in 0..2
  BY <1>2
<1> HIDE DEF left, result
<1>6. y.req = ctx[c].req /\ y.left = left /\ y.uploaded = ctx[c].uploaded
      /\ y.resent = ctx[c].resent /\ y.at = ctx[c].at
  BY <1>3 DEF Stays, AnyContext
<1> HIDE DEF y
<1> QED BY <1>4, <1>5, <1>6, EarlyPoints, MoveServes DEF GoesFor, Connecting, Early, Idle

LEMMA FlowServes ==
    ASSUME PoolInv, TellInv, ServeInv, NEW c \in Contexts, Flow(c),
           ctx[c].at = "tunnelStatus" \/ (ctx[c].at = "send" /\ client.mode # "tunnel")
    PROVE  ServeInv'
<1> DEFINE x == IF ctx[c].clock = "started" THEN ctx[c] ELSE Started(ctx[c])
           y == [x EXCEPT !.listening = TRUE]
           z == [y EXCEPT !.at = "resolve", !.result = "none"]
<1>1. ctx[c].at \in Early \cup Begins /\ ctx[c].at \notin Idle \cup {"queued"}
  BY DEF Early, Begins, Idle
<1>3. \/ Report(c, "canceled")
      \/ Report(c, "error")
      \/ Go(c, WriteRequest(y))
      \/ Go(c, z) /\ client.mode # "tunnel"
  BY DEF Flow
<1>4. Stays(ctx[c], x)
  BY <1>1, ServingContext, TimersStay DEF Stays
<1> HIDE DEF x
<1>5. Stays(ctx[c], y)
  BY <1>4 DEF Stays, AnyContext
<1> HIDE DEF y
<1>6. CASE Report(c, "canceled") \/ Report(c, "error")
  BY <1>1, <1>6, ReportServes DEF Reasons
<1>7. CASE Go(c, WriteRequest(y))
  BY <1>1, <1>5, <1>7, WriteStays, EarlyServe DEF Early
<1>8. CASE Go(c, z) /\ client.mode # "tunnel"
  <2>3. Stays(ctx[c], z) /\ z.at = "resolve"
    BY <1>5 DEF Stays, AnyContext, Points, Results, Resolving
  <2> HIDE DEF z
  <2> QED
    BY <1>1, <1>8, <2>3, LiveExplained, EarlyServe DEF Points, Results, Resolving, Explained,
       Tunnelling, Live, Idle
<1> QED BY <1>3, <1>6, <1>7, <1>8

LEMMA SendServes ==
    ASSUME PoolInv, TellInv, ServeInv, NEW c \in Contexts, Send(c)
    PROVE  ServeInv'
<1> DEFINE x == Started(ctx[c])
           y == [x EXCEPT !.at = "tunnelResolve"]
<1>1. /\ ctx[c].at = "send" /\ ctx[c].at \in Early \cup Begins /\ ctx[c].at \notin Idle \cup {"queued"}
  BY DEF Send, At, Begins, Idle
<1>4. CASE Report(c, "canceled") \/ Report(c, "error")
  BY <1>1, <1>4, ReportServes DEF Reasons
<1>5. CASE Go(c, y)
  <2>1. Stays(ctx[c], x)
    BY <1>1, ServingContext, TimersStay
  <2> HIDE DEF x
  <2>3. Stays(ctx[c], y) /\ y.at = "tunnelResolve"
    BY <2>1 DEF Stays, AnyContext, Points, Resolving
  <2> HIDE DEF y
  <2> QED BY <1>1, <1>5, <2>3, EarlyServe DEF Points, Resolving
<1>6. CASE client.mode # "tunnel" /\ Flow(c)
  BY <1>1, <1>6, FlowServes
<1> QED BY <1>4, <1>5, <1>6 DEF Send

LEMMA ConnectedServes ==
    ASSUME PoolInv, TellInv, ServeInv, NEW c \in Contexts, Connected(c) \/ TunnelConnected(c)
    PROVE  ServeInv'
<1> DEFINE x == Reset(ctx[c])
<1>1. /\ ctx[c].at \in Connecting /\ ctx[c].at \in Early /\ ctx[c].at \notin Idle \cup {"queued"}
  BY DEF Connected, TunnelConnected, At, Connecting, Early, Idle
<1>3. \/ Report(c, "canceled")
      \/ Report(c, Error(c))
      \/ ctx[c].left > 0 /\ \E k \in Conns : NextEndpoint(c, k)
      \/ Go(c, WriteRequest(x))
      \/ Go(c, Op(x, "tunnelWrite"))
  BY DEF Connected, TunnelConnected
<1>4. Stays(ctx[c], x)
  BY <1>1, ServingContext, TimersStay
<1> HIDE DEF x
<1>5. CASE Report(c, "canceled") \/ Report(c, Error(c))
  BY <1>1, <1>5, ErrorIsGiven, ReportServes DEF Reasons
<1>6. CASE ctx[c].left > 0 /\ \E k \in Conns : NextEndpoint(c, k)
  BY <1>1, <1>6, NextEndpointServes
<1>7. CASE Go(c, WriteRequest(x))
  BY <1>1, <1>4, <1>7, WriteStays, EarlyServe DEF Early
<1>8. CASE Go(c, Op(x, "tunnelWrite"))
  BY <1>1, <1>4, <1>8, EarlyOp, EarlyNames, EarlyServe
<1> QED BY <1>3, <1>5, <1>6, <1>7, <1>8

LEMMA WritingServes ==
    ASSUME PoolInv, TellInv, ServeInv, NEW c \in Contexts,
           TunnelWritten(c) \/ Handshaken(c) \/ AllWritten(c)
    PROVE  ServeInv'
<1> DEFINE x == Reset(ctx[c])
<1>1. \/ ctx[c].at \in {"tunnelWrite", "handshake"} /\ Go(c, Op(x, "tunnelStatus"))
      \/ ctx[c].at \in {"tunnelWrite", "handshake"} /\ Go(c, Op(ctx[c], "headers"))
      \/ ctx[c].at = "last" /\ Go(c, Op(x, "status"))
  BY DEF TunnelWritten, Handshaken, AllWritten, Ok
<1>3. Stays(ctx[c], x) /\ Stays(ctx[c], ctx[c])
  BY <1>1, TimersStay DEF Stays, Idle, PoolInv, PoolTypes
<1> HIDE DEF x
<1>4. CASE ctx[c].at \in {"tunnelWrite", "handshake"} /\ Go(c, Op(x, "tunnelStatus"))
  BY <1>3, <1>4, EarlyOp, EarlyNames, EarlyServe
<1>5. CASE ctx[c].at \in {"tunnelWrite", "handshake"} /\ Go(c, Op(ctx[c], "headers"))
  BY <1>3, <1>5, EarlyOp, EarlyNames, EarlyServe
<1>6. CASE ctx[c].at = "last" /\ Go(c, Op(x, "status"))
  <2>1. Stays(ctx[c], Op(x, "status")) /\ Op(x, "status").at = "status"
    BY <1>3, OpStays, JoinedPoints
  <2> QED BY <1>1, <1>6, <2>1, EarlyPoints, StaysServe DEF Idle, PoolInv, PoolTypes
<1> QED BY <1>1, <1>4, <1>5, <1>6

LEMMA TunnelEstablishedServes ==
    ASSUME PoolInv, TellInv, ServeInv, NEW c \in Contexts, TunnelEstablished(c)
    PROVE  ServeInv'
  BY ErrorIsGiven, ReportServes, FlowServes DEF TunnelEstablished, Ok, Idle

LEMMA FailingServes ==
    ASSUME PoolInv, TellInv, ServeInv, NEW c \in Contexts, OperationFailed(c) \/ ProgressThrows(c)
    PROVE  ServeInv'
  BY JoinedPoints, BusyPoints, ErrorIsGiven, ReportServes DEF OperationFailed, ProgressThrows, Unbounded,
     Idle, ProgressPoints, Reasons

\* The headers and a body were written: the answer comes next if it was the whole
\* body.
LEMMA BodyWrittenServes ==
    ASSUME PoolInv, TellInv, ServeInv, NEW c \in Contexts, BodyWritten(c)
    PROVE  ServeInv'
<1> DEFINE x == Reset(ctx[c])
           y == [x EXCEPT !.at = "getn", !.result = "none"]
<1>1. ctx[c].at \in {"headers", "large", "chunked"} /\ ctx[c].at \notin Idle /\ ctx[c].at \in Early
  BY DEF BodyWritten, Idle, Early
<1>3. Stays(ctx[c], x)
  BY <1>1, ServingContext, TimersStay
<1>4. Go(c, y) \/ (~MoreToSend(x) /\ Go(c, Op(x, "status")))
  BY DEF BodyWritten
<1> HIDE DEF x
<1>5. CASE Go(c, y)
  <2>2. Stays(ctx[c], y) /\ y.at = "getn"
    BY <1>3, JoinedPoints DEF Stays, AnyContext, Early, Results
  <2> HIDE DEF y
  <2> QED BY <1>1, <1>5, <2>2, JoinedPoints, EarlyServe DEF Early, Results
<1>6. CASE ~MoreToSend(x) /\ Go(c, Op(x, "status"))
  <2>1. Stays(ctx[c], Op(x, "status")) /\ Op(x, "status").at = "status"
    BY <1>3, OpStays, JoinedPoints
  <2>3. SentInFull(ctx[c], client.bodies)
    BY <1>1, <1>3, <1>6, ServingContext DEF SentInFull, MoreToSend, Stays, PoolInv, PoolTypes,
       AllClients, Requests
  <2> QED BY <1>1, <1>6, <2>1, <2>3, EarlyPoints, StaysServe
<1> QED BY <1>4, <1>5, <1>6

\* The body is read from its stream: what there is of it is sent, and a stream
\* that was read before was read for this context, or for the first attempt.
LEMMA BodyReadServes ==
    ASSUME PoolInv, TellInv, ServeInv, NEW c \in Contexts, BodyRead(c)
    PROVE  ServeInv'
<1> DEFINE r == ctx[c].req
           some == r \notin consumed
           point == IF client.bodies[r] = "sized" THEN "large" ELSE IF some THEN "chunked" ELSE "last"
           up == some \/ ctx[c].uploaded
           x == [ctx[c] EXCEPT !.uploaded = up]
           y == Op(x, point)
<1>1. ctx[c].at = "getn" /\ ctx[c].at \notin Idle \cup {"queued"} /\ ctx[c].at \notin BodyPoints
  BY DEF BodyRead, At, Idle, BodyPoints
<1>2. /\ r \in Requests /\ r \in 1..issued /\ ctx[c] \in AnyContext
      /\ Stage(ctx[c].at, finishes[r], answer[r], content[r])
      /\ ctx \in [Contexts -> AnyContext] /\ ctx[c].left \in 0..2
      /\ r \in consumed => ctx[c].uploaded \/ ctx[c].resent
  BY <1>1, ServingContext
<1>4. CASE Report(c, "error")
  BY <1>1, <1>4, ReportServes DEF Reasons
<1>5. CASE ~Report(c, "error")
  <2>1. /\ some \/ client.bodies[r] = "chunked"
        /\ consumed' = consumed \cup {r}
        /\ ctx' = [ctx EXCEPT ![c] = y]
        /\ client' = client /\ issued' = issued /\ cancelled' = cancelled
        /\ finishes' = finishes /\ answer' = answer /\ content' = content
        /\ scheduled' = scheduled /\ queue' = queue /\ prev' = prev /\ epoch' = epoch
    BY <1>5 DEF BodyRead, results, line, poolVars
  <2>2. point \in {"large", "chunked", "last"} /\ (point = "last" => client.bodies[r] = "chunked" /\ ~some)
    BY <2>1
  <2>4. /\ up \in BOOLEAN /\ (some => up) /\ (ctx[c].uploaded => up)
        /\ ~some => ctx[c].uploaded \/ ctx[c].resent
    BY <1>2
  <2> HIDE DEF up, point, some
  <2>5. x \in AnyContext /\ x.req = r /\ x.left = ctx[c].left /\ x.uploaded = up
        /\ x.resent = ctx[c].resent
    BY <1>2, <2>4 DEF AnyContext
  <2> HIDE DEF x
  <2>6. y.req = r /\ y.left = ctx[c].left /\ y.uploaded = up /\ y.resent = ctx[c].resent /\ y.at = point
    BY <2>2, <2>5, JoinedPoints DEF Op, AnyContext
  <2> HIDE DEF y
  <2>10. Served(y, client.bodies, finishes', answer', content', consumed')
    BY <1>1, <1>2, <2>1, <2>2, <2>4, <2>6 DEF Served, Stage, Idle, SentInFull, BodyPoints, Begins,
       Resolving, AfterBody
  <2> QED
    BY <1>1, <1>2, <2>1, <2>2, <2>6, <2>10, OneServes, LineStays DEF ServeInv, ServeTypes,
       Follows, RequestsStaged, Idle, BodyPoints, Begins, Resolving, AfterBody
<1> QED BY <1>4, <1>5

LEMMA StatusReadServes ==
    ASSUME PoolInv, TellInv, ServeInv, NEW c \in Contexts, StatusRead(c)
    PROVE  ServeInv'
  BY ErrorIsGiven, ReportServes, HeadersServe DEF StatusRead, Ok, Idle

LEMMA BufferedServes ==
    ASSUME PoolInv, TellInv, ServeInv, NEW c \in Contexts, ctx[c].at \in BodyPoints,
           NEW x, Stays(ctx[c], x), NEW closed, NEW point \in {"content", "chunk", "chunkHeader"},
           NEW y \in MayBeBuffered(x, closed, point), Go(c, y)
    PROVE  ServeInv'
<1>1. PICK result \in {"ok", "refused", "none"} : y = [x EXCEPT !.at = point, !.result = result]
  BY DEF MayBeBuffered
<1>3. Stays(ctx[c], y) /\ y.at = point
  BY <1>1, JoinedPoints DEF Stays, AnyContext, Results, BodyPoints
<1> QED BY <1>3, JoinedPoints, EarlyPoints, StaysServe DEF Results, BodyPoints

LEMMA ChunkHeaderReadServes ==
    ASSUME PoolInv, TellInv, ServeInv, NEW c \in Contexts, ChunkHeaderRead(c)
    PROVE  ServeInv'
<1> DEFINE x == Reset(ctx[c])
           closed == sock[ctx[c].conn] = "closed"
<1>1. ctx[c].at \in BodyPoints /\ ctx[c].at \notin Idle \cup {"queued"} /\ ctx[c] \in AnyContext
  BY DEF ChunkHeaderRead, Ok, BodyPoints, Idle, PoolInv, PoolTypes
<1>2. Stays(ctx[c], x)
  BY <1>1, TimersStay
<1>3. Report(c, Error(c)) \/ \E y \in MayBeBuffered(x, closed, "chunk") : Go(c, y)
  BY DEF ChunkHeaderRead
<1> HIDE DEF x, closed
<1>4. CASE Report(c, Error(c))
  BY <1>1, <1>4, ErrorIsGiven, ReportServes
<1>5. CASE \E y \in MayBeBuffered(x, closed, "chunk") : Go(c, y)
  BY <1>1, <1>2, <1>5, BufferedServes
<1> QED BY <1>3, <1>4, <1>5

LEMMA ReadingServes ==
    ASSUME PoolInv, TellInv, ServeInv, NEW c \in Contexts, ChunkRead(c) \/ ContentRead(c)
    PROVE  ServeInv'
<1> DEFINE x == Reset(ctx[c])
           y == [x EXCEPT !.at = "store", !.result = "none"]
           z == [y EXCEPT !.length = "sized"]
<1>1. ctx[c].at \in BodyPoints /\ ctx[c].at \notin Idle /\ ctx[c] \in AnyContext
  BY DEF ChunkRead, ContentRead, Ok, At, BodyPoints, Idle, PoolInv, PoolTypes
<1>2. Stays(ctx[c], x)
  BY <1>1, TimersStay
<1>3. CompleteRequest(c) \/ Go(c, y) \/ Go(c, z)
  BY DEF ChunkRead, ContentRead
<1> HIDE DEF x
<1>4. "store" \in Points /\ "none" \in Results /\ "sized" \in Lengths /\ "store" \in BodyPoints
  BY DEF Points, Results, Lengths, BodyPoints
<1>5. Stays(ctx[c], y) /\ y.at = "store"
  BY <1>2, <1>4 DEF Stays, AnyContext
<1>6. Stays(ctx[c], z) /\ z.at = "store"
  BY <1>2, <1>4 DEF Stays, AnyContext
<1> HIDE DEF y, z
<1>7. CASE CompleteRequest(c)
  BY <1>1, <1>7, CompleteRequestServes
<1>8. CASE Go(c, y)
  BY <1>1, <1>4, <1>5, <1>8, EarlyPoints, StaysServe
<1>9. CASE Go(c, z)
  BY <1>1, <1>4, <1>6, <1>9, EarlyPoints, StaysServe
<1> QED BY <1>3, <1>7, <1>8, <1>9

LEMMA StoredServes ==
    ASSUME PoolInv, TellInv, ServeInv, NEW c \in Contexts, Stored(c)
    PROVE  ServeInv'
<1> DEFINE x == [ctx[c] EXCEPT !.downloaded = TRUE]
           closed == sock[x.conn] = "closed"
           y == [x EXCEPT !.at = "content", !.result = "ok"]
<1>1. ctx[c].at \in BodyPoints /\ ctx[c].at \notin Idle \cup {"queued"} /\ ctx[c] \in AnyContext
  BY DEF Stored, At, BodyPoints, Idle, PoolInv, PoolTypes
<1>2. Stays(ctx[c], x)
  BY <1>1 DEF Stays, AnyContext
<1>3. \/ Report(c, "error")
      \/ \E w \in MayBeBuffered(x, closed, "chunkHeader") : Go(c, w)
      \/ Go(c, y) \/ Go(c, Op(x, "content"))
  BY DEF Stored
<1> HIDE DEF x, closed
<1>4. "content" \in Points /\ "ok" \in Results /\ "content" \in BodyPoints
  BY JoinedPoints DEF Results, BodyPoints
<1>5. Stays(ctx[c], y) /\ y.at = "content"
  BY <1>2, <1>4 DEF Stays, AnyContext
<1> HIDE DEF y
<1>6. CASE Report(c, "error")
  BY <1>1, <1>6, ReportServes DEF Reasons
<1>7. CASE \E w \in MayBeBuffered(x, closed, "chunkHeader") : Go(c, w)
  BY <1>1, <1>2, <1>7, BufferedServes
<1>8. CASE Go(c, y)
  BY <1>1, <1>4, <1>5, <1>8, EarlyPoints, StaysServe
<1>9. CASE Go(c, Op(x, "content"))
  BY <1>1, <1>2, <1>4, <1>9, OpStays, EarlyPoints, StaysServe
<1> QED BY <1>3, <1>6, <1>7, <1>8, <1>9

-----------------------------------------------------------------------------
(* Requests that begin, or begin again.                                       *)

LEMMA FreshIsNew ==
    ASSUME NEW r, NEW k
    PROVE  /\ Fresh(r, k).req = r /\ Fresh(r, k).at = "send" /\ Fresh(r, k).left = client.endpoints
           /\ Fresh(r, k).uploaded = FALSE /\ Fresh(r, k).resent = FALSE
  BY DEF Fresh, Unused

\* A request enters the line: it is sent if every earlier one is finished.
LEMMA PropagateLine ==
    ASSUME PoolInv, ServeInv, NEW c \in Contexts, ctx[c].at = "unused",
           client' = client, finishes' = finishes, issued < N, issued' = issued + 1,
           queue' = IF First THEN queue ELSE Append(queue, c),
           scheduled' = IF client.order THEN scheduled + 1 ELSE scheduled,
           ctx'[c].req = issued + 1, \A d \in Contexts \ {c} : ctx'[d] = ctx[d]
    PROVE  LineKept'
<1> SUFFICES ASSUME client.order, Twice = {}
             PROVE  \E f \in 0..issued' : LineAt(f)'
  BY DEF LineKept, Twice
<1>1. PICK f \in 0..issued : LineAt(f)
  BY DEF ServeInv, LineKept
<1>2. issued \in Nat /\ queue \in Seq(Contexts) /\ scheduled = issued - f
      /\ Len(queue) = IF f < issued THEN issued - f - 1 ELSE 0
  BY <1>1 DEF PoolInv, PoolTypes, LineAt
<1>3. \A i \in DOMAIN queue : queue[i] \in Contexts \ {c}
  BY <1>2 DEF PoolInv, QueueSound
<1>4. f \in 0..issued'
  BY <1>2
<1>5. /\ \A r \in Requests : finishes'[r] > 0 <=> r <= f
      /\ \A i \in DOMAIN queue : ctx'[queue[i]].req = f + 1 + i
      /\ scheduled' = issued' - f
  BY <1>1, <1>2, <1>3 DEF LineAt
<1>6. CASE f = issued
  <2>1. First /\ queue' = queue
    BY <1>2, <1>6 DEF First
  <2>2. Len(queue') = issued' - f - 1 /\ f < issued'
    BY <1>2, <1>6, <2>1
  <2>3. LineAt(f)'
    BY <1>5, <2>1, <2>2 DEF LineAt
  <2> QED BY <1>4, <2>3
<1>7. CASE f < issued
  <2>1. ~First /\ queue' = Append(queue, c)
    BY <1>2, <1>7 DEF First
  <2>2. Len(queue') = Len(queue) + 1 /\ DOMAIN queue' = 1..(Len(queue) + 1)
        /\ queue'[Len(queue) + 1] = c
        /\ \A i \in 1..Len(queue) : queue'[i] = queue[i]
    BY <1>2, <2>1
  <2>3. Len(queue') = issued' - f - 1 /\ f < issued'
    BY <1>2, <1>7, <2>2
  <2>4. ASSUME NEW i \in DOMAIN queue'
        PROVE  ctx'[queue'[i]].req = f + 1 + i
    <3>1. CASE i = Len(queue) + 1
      <4>1. f + 1 + i = issued + 1
        BY <1>2, <1>7, <3>1
      <4> QED BY <2>2, <3>1, <4>1
    <3>2. CASE i # Len(queue) + 1
      <4>1. i \in 1..Len(queue) /\ i \in DOMAIN queue
        BY <1>2, <2>2, <2>4, <3>2
      <4> QED BY <1>5, <2>2, <4>1
    <3> QED BY <3>1, <3>2
  <2>5. LineAt(f)'
    BY <1>5, <2>3, <2>4 DEF LineAt
  <2> QED BY <1>4, <2>5
<1> QED BY <1>2, <1>6, <1>7

LEMMA PropagateServes ==
    ASSUME PoolInv, TellInv, ServeInv, NEW c \in Contexts, NEW k \in Conns, Propagate(c, k)
    PROVE  ServeInv'
<1> DEFINE r == issued + 1
           x == Fresh(r, k)
           point == IF First THEN "send" ELSE "queued"
           y == [x EXCEPT !.at = point]
<1>1. /\ ctx[c].at = "unused" /\ issued' = r /\ issued < N
      /\ ctx' = [ctx EXCEPT ![c] = y]
      /\ client' = client /\ cancelled' = cancelled /\ consumed' = consumed
      /\ finishes' = finishes /\ answer' = answer /\ content' = content
      /\ queue' = (IF First THEN queue ELSE Append(queue, c))
      /\ scheduled' = (IF client.order THEN scheduled + 1 ELSE scheduled)
      /\ epoch' = epoch /\ prev' = prev
  BY DEF Propagate, At, results
<1>2. /\ issued \in 0..N /\ r \in 0..N /\ r \in 1..r /\ N \in Nat /\ r \in Requests /\ r > issued
      /\ ctx \in [Contexts -> AnyContext] /\ client.endpoints \in 1..2
  BY <1>1, HttpClientAssumption DEF PoolInv, PoolTypes, Requests, AllClients
<1>3. /\ x.req = r /\ x.at = "send" /\ x.left = client.endpoints
      /\ x \in AnyContext
  <2>1. x.req = r /\ x.at = "send" /\ x.left = client.endpoints
    BY FreshIsNew
  <2> QED BY <1>2, <2>1, FreshContext
<1> HIDE DEF x
<1>4. point \in {"send", "queued"}
  OBVIOUS
<1> HIDE DEF point
<1>5. y.req = r /\ y.at = point /\ y.left = client.endpoints
  BY <1>3 DEF AnyContext
<1> HIDE DEF y
<1>6. ctx'[c] = y /\ \A d \in Contexts \ {c} : ctx'[d] = ctx[d]
  BY <1>1, <1>2
<1>8. y.at \notin Idle \cup BodyPoints \cup AfterBody /\ y.at # "unused"
  BY <1>4, <1>5, EarlyPoints DEF Idle, BodyPoints, AfterBody
<1>13. Owned'
  <2> SUFFICES ASSUME NEW q \in 1..issued', finishes'[q] = 0
               PROVE  \E d \in Contexts : ctx'[d].req = q /\ ctx'[d].at \notin Idle
    BY DEF Owned
  <2>1. CASE q = r
    BY <1>5, <1>6, <1>8, <2>1
  <2>2. CASE q # r
    <3>2. PICK d \in Contexts : ctx[d].req = q /\ ctx[d].at \notin Idle
      BY <1>1, <1>2, <2>2 DEF ServeInv, Owned
    <3> QED BY <1>1, <1>6, <3>2 DEF Idle
  <2> QED BY <2>1, <2>2
<1> QED
  BY <1>1, <1>2, <1>5, <1>6, <1>8, <1>13, PropagateLine DEF ServeInv, ContextsServed,
     RequestsStaged, Requests, Served, Stage, ServeTypes

\* A new context takes the request over; what was sent of a body is not sent again.
LEMMA ResendServes ==
    ASSUME PoolInv, TellInv, ServeInv, NEW c \in Contexts, NEW d \in Contexts, NEW k \in Conns,
           Resend(c, d, k)
    PROVE  ServeInv'
<1> DEFINE r == ctx[c].req
           x == Fresh(r, k)
           y == [x EXCEPT !.resent = TRUE]
           z == [ctx[c] EXCEPT !.at = "done"]
<1>1. /\ ctx[d].at = "unused" /\ c # d /\ ctx[c].at \in {"status", "tunnelStatus"}
      /\ ctx' = [ctx EXCEPT ![c].at = "done", ![d] = y]
      /\ client' = client /\ issued' = issued /\ cancelled' = cancelled /\ consumed' = consumed
      /\ finishes' = finishes /\ answer' = answer /\ content' = content
      /\ queue' = queue /\ scheduled' = scheduled /\ epoch' = epoch /\ prev' = prev
  BY DEF Resend, At, results, line
<1>2. ctx[c].at \notin Idle \cup BodyPoints /\ ctx[c].at # "queued"
  BY <1>1 DEF Idle, BodyPoints
<1>3. /\ r \in Requests /\ r \in 1..issued /\ r \in 0..N /\ ctx[c] \in AnyContext
      /\ Stage(ctx[c].at, finishes[r], answer[r], content[r])
      /\ ctx \in [Contexts -> AnyContext] /\ ctx[c].left \in 0..2
  BY <1>2, ServingContext, ContextFields
<1>4. x.req = r /\ x.at = "send" /\ x.left = client.endpoints /\ x \in AnyContext
  <2>1. x.req = r /\ x.at = "send" /\ x.left = client.endpoints
    BY FreshIsNew
  <2> QED BY <1>3, <2>1, FreshContext
<1> HIDE DEF x
<1>5. y.req = r /\ y.at = "send" /\ y.left = client.endpoints /\ y.resent
  BY <1>4 DEF AnyContext
<1> HIDE DEF y
<1>6. ctx'[d] = y /\ ctx'[c] = z /\ \A e \in Contexts \ {c, d} : ctx'[e] = ctx[e]
  BY <1>1, <1>3
<1>7. z.at = "done" /\ z.left = ctx[c].left /\ z.req = r
  BY <1>3 DEF AnyContext
<1> HIDE DEF z
<1>10. Served(y, client'.bodies, finishes', answer', content', consumed')
  BY <1>1, <1>2, <1>3, <1>5 DEF Served, Stage, Idle, BodyPoints, AfterBody, PoolInv, PoolTypes,
     AllClients
<1>15. Owned'
  <2> SUFFICES ASSUME NEW q \in 1..issued, finishes[q] = 0
               PROVE  \E e \in Contexts : ctx'[e].req = q /\ ctx'[e].at \notin Idle
    BY <1>1 DEF Owned
  <2>1. PICK e \in Contexts : ctx[e].req = q /\ ctx[e].at \notin Idle
    BY DEF ServeInv, Owned
  <2>2. CASE e = c
    BY <1>5, <1>6, <2>1, <2>2 DEF Idle, BodyPoints, AfterBody
  <2>3. CASE e # c
    BY <1>1, <1>6, <2>1, <2>3 DEF Idle
  <2> QED BY <2>2, <2>3
<1> QED
  BY <1>1, <1>2, <1>3, <1>6, <1>7, <1>10, <1>15, LineStays DEF ServeInv, RequestsStaged,
     ServeTypes, ContextsServed, Served, Idle, Begins, Resolving

-----------------------------------------------------------------------------
LEMMA ServeInvInit == Init => ServeInv
<1> SUFFICES ASSUME Init
             PROVE  ServeInv
  OBVIOUS
<1>2. /\ issued = 0 /\ cancelled = {} /\ consumed = {} /\ prev = 0 /\ epoch = 0
      /\ scheduled = 0 /\ queue = <<>>
      /\ answer = [r \in Requests |-> "none"] /\ content = [r \in Requests |-> "none"]
      /\ finishes = [r \in Requests |-> 0]
      /\ ctx = [c \in Contexts |-> Unused]
  BY DEF Init
<1>7. ContextsServed
  BY <1>2, HttpClientAssumption DEF ContextsServed, Served, Unused, Init, AllClients, Begins,
     Resolving, Idle
<1>8. LineAt(0)
  BY <1>2 DEF LineAt, Requests
<1> QED
  BY <1>2, <1>7, <1>8, HttpClientAssumption DEF ServeInv, RequestsStaged, RequestStage, Owned,
     LineKept, ServeTypes, Contents, Init, AllClients

LEMMA HandlerServes ==
    ASSUME PoolInv, TellInv, ServeInv, NEW c \in Contexts, Handler(c)
    PROVE  ServeInv'
<1>1. CASE Send(c)
  BY <1>1, SendServes
<1>2. CASE Resolved(c)
  BY <1>2, ResolvedServes
<1>3. CASE Connected(c) \/ TunnelConnected(c)
  BY <1>3, ConnectedServes
<1>4. CASE TunnelWritten(c) \/ Handshaken(c) \/ AllWritten(c)
  BY <1>4, WritingServes
<1>5. CASE TunnelEstablished(c)
  BY <1>5, TunnelEstablishedServes
<1>6. CASE OperationFailed(c) \/ ProgressThrows(c)
  BY <1>6, FailingServes
<1>7. CASE BodyWritten(c)
  BY <1>7, BodyWrittenServes
<1>8. CASE BodyRead(c)
  BY <1>8, BodyReadServes
<1>9. CASE StatusRead(c)
  BY <1>9, StatusReadServes
<1>10. CASE ChunkHeaderRead(c)
  BY <1>10, ChunkHeaderReadServes
<1>11. CASE ChunkRead(c) \/ ContentRead(c)
  BY <1>11, ReadingServes
<1>12. CASE Stored(c)
  BY <1>12, StoredServes
<1>13. CASE \E d \in Contexts, k \in Conns : Resend(c, d, k)
  BY <1>13, ResendServes
<1> QED
  BY <1>1, <1>2, <1>3, <1>4, <1>5, <1>6, <1>7, <1>8, <1>9, <1>10, <1>11, <1>12, <1>13 DEF Handler

LEMMA ServeInvStep == PoolInv /\ TellInv /\ ServeInv /\ [Next]_vars => ServeInv'
<1> SUFFICES ASSUME PoolInv, TellInv, ServeInv, [Next]_vars
             PROVE  ServeInv'
  OBVIOUS
<1>1. CASE \E c \in Contexts : ContextStep(c)
  BY <1>1, HandlerServes, RingServes, TimeoutServes, ReleaseServes DEF ContextStep
<1>2. CASE \E c \in Contexts : Complete(c)
  BY <1>2, CompleteServes
<1>3. CASE \E c \in Contexts, k \in Conns : Propagate(c, k)
  BY <1>3, PropagateServes
<1>4. CASE \E r \in Requests : CancelToken(r)
  BY <1>4, CancelServes
<1>5. CASE PoolTimer \/ \E k \in Conns : PeerCloses(k)
  BY <1>5, PoolServes
<1>6. CASE UNCHANGED vars
  BY <1>6, NothingServed DEF ServeInv, ServeTypes, vars, results, poolVars, line, Follows
<1> QED BY <1>1, <1>2, <1>3, <1>4, <1>5, <1>6 DEF Next

LEMMA ServeInvAnswers == ServeInv => Answered
  BY DEF ServeInv, ContextsServed, Served, Stage, BodyPoints, Idle, Answered, At

\* A failure is told for what it is, whatever the timeout, the cancellation, the
\* retry and the next addresses did to the connection before: what explains the
\* state of each context (TellInv) tells a connection that somebody closed from
\* one that failed (report_exception() and report_error(), http_client_asio.cpp).
THEOREM FailureIsTold == Spec => FailureTold
<1>1. Init => TellInv /\ ServeInv
  BY TellInvInit, ServeInvInit
<1>2. PoolInv /\ TellInv /\ ServeInv /\ [Next]_vars => TellInv' /\ ServeInv' /\ [ToldRight]_vars
  BY ServeInvAnswers, TellInvStep, ServeInvStep
<1>3. Spec => [][ToldRight]_vars
  BY <1>1, <1>2, PoolInvariant, PTL DEF Spec
<1> QED BY <1>3, PTL DEF FailureTold, ToldRight

\* A request that was issued has one context, or none once it is finished.
LEMMA ActiveOnce ==
    ASSUME PoolInv, TellInv, ServeInv, NEW r \in 1..issued
    PROVE  /\ r \in Requests
           /\ \A c \in Active(r) : c \in Contexts /\ ctx[c].at \notin Idle /\ ctx[c].req = r
           /\ Active(r) # {} => Cardinality(Active(r)) = 1
           /\ Active(r) = {} => Cardinality(Active(r)) = 0
           /\ finishes[r] = 0 => Active(r) # {}
<1>1. r \in Requests /\ r # 0
  BY ContextsTyped DEF PoolInv, PoolTypes
<1>3. Active(r) # {} => Cardinality(Active(r)) = 1
  <2> SUFFICES ASSUME NEW c \in Active(r)
               PROVE  Cardinality(Active(r)) = 1
    OBVIOUS
  <2>1. Active(r) = {c}
    BY <1>1, ServingContexts DEF Active, ServeInv, ContextsServed, Served, Idle
  <2> QED BY <2>1, FS_Singleton
<1> QED BY <1>1, <1>3, FS_EmptySet DEF ServeInv, Owned, Active, Idle, ContextsServed, Served

LEMMA ServeInvOwned == PoolInv /\ TellInv /\ ServeInv => OwnedOnce
<1> SUFFICES ASSUME PoolInv, TellInv, ServeInv, NEW r \in 1..issued
             PROVE  IF r \in Finished THEN r \notin Twice => Cardinality(Active(r)) <= 1
                    ELSE Cardinality(Active(r)) = 1
  BY DEF OwnedOnce
<1> QED BY ActiveOnce DEF Finished, ServeInv, ServeTypes

LEMMA ServeInvEnded == PoolInv /\ TellInv /\ ServeInv => EndedOnce
<1> SUFFICES ASSUME PoolInv, TellInv, ServeInv, NEW r \in Requests
             PROVE  /\ r \in Finished => answer[r] # "none" /\ content[r] # "none"
                    /\ r \notin Finished => content[r] = "none" /\ answer[r] \in {"none", "response"}
                    /\ r \in Twice \/ (r \in Finished /\ Active(r) # {}) =>
                        answer[r] = "response" /\ content[r] = "failed"
  BY DEF EndedOnce
<1>1. /\ finishes[r] \in 0..2 /\ RequestStage(finishes[r], answer[r], content[r])
      /\ r > issued => finishes[r] = 0
  BY DEF ServeInv, ServeTypes, RequestsStaged
<1>2. /\ r \in Finished => finishes[r] > 0
      /\ r \notin Finished => finishes[r] = 0
      /\ r \in Twice => finishes[r] > 1
  BY <1>1 DEF Finished, Twice
<1>3. ASSUME r \in Finished, NEW c \in Active(r)
      PROVE  answer[r] = "response" /\ content[r] = "failed"
  <2>3. Stage(ctx[c].at, finishes[r], answer[r], content[r])
    BY <1>1, <1>2, <1>3, ActiveOnce, ServingContext DEF PoolInv, PoolTypes, Requests
  <2> QED BY <1>1, <1>2, <1>3, <2>3, StageMeans
<1> QED BY <1>1, <1>2, <1>3 DEF RequestStage

LEMMA ServeInvInOrder == PoolInv /\ TellInv /\ ServeInv => InOrder
<1> SUFFICES ASSUME PoolInv, TellInv, ServeInv, client.order, Twice = {}
             PROVE  /\ scheduled = issued - Cardinality(Finished)
                    /\ \A i \in DOMAIN queue : ctx[queue[i]].req = issued - Len(queue) + i
                    /\ \A r \in 1..issued, q \in 1..issued :
                        r < q /\ r \notin Finished => \A c \in Active(q) : At(c, "queued")
  BY DEF InOrder
<1>1. PICK f \in 0..issued : LineAt(f)
  BY DEF ServeInv, LineKept
<1>2. /\ issued \in 0..N /\ N \in Nat /\ f \in Nat /\ issued \in Nat /\ f <= issued
      /\ queue \in Seq(Contexts) /\ finishes \in [Requests -> 0..2]
  BY HttpClientAssumption DEF PoolInv, PoolTypes, ServeInv, ServeTypes
<1>3. scheduled = issued - Cardinality(Finished)
  <2>1. Finished = 1..f
    BY <1>1, <1>2 DEF Finished, LineAt, Requests
  <2>2. Cardinality(1..f) = f
    BY <1>2, FS_Interval
  <2> QED BY <1>1, <2>1, <2>2 DEF LineAt
<1>4. \A i \in DOMAIN queue : ctx[queue[i]].req = issued - Len(queue) + i
  <2> SUFFICES ASSUME NEW i \in DOMAIN queue
               PROVE  ctx[queue[i]].req = issued - Len(queue) + i
    OBVIOUS
  <2>1. i \in Nat /\ i > 0 /\ i <= Len(queue) /\ Len(queue) \in Nat
    BY <1>2
  <2>2. ctx[queue[i]].req = f + 1 + i
    BY <1>1 DEF LineAt
  <2>3. Len(queue) = issued - f - 1
    BY <1>1, <1>2, <2>1 DEF LineAt
  <2> QED BY <1>2, <2>1, <2>2, <2>3
<1>5. ASSUME NEW r \in 1..issued, NEW q \in 1..issued, r < q, r \notin Finished, NEW c \in Active(q)
      PROVE  At(c, "queued")
  <2>1. r \in Requests /\ q \in Requests /\ finishes[q] \in 0..2
    BY <1>2 DEF Requests
  <2>2. r > f /\ q > f + 1
    BY <1>1, <1>2, <1>5, <2>1 DEF Finished, LineAt
  <2>3. finishes[q] = 0
    BY <1>1, <1>2, <2>1, <2>2 DEF LineAt
  <2>4. c \in Contexts /\ ctx[c].at \notin Idle /\ ctx[c].req = q
    BY ActiveOnce
  <2>5. ctx[c].at # "queued" => q = f + 1
    BY <1>1, <2>3, <2>4, FirstServed
  <2> QED BY <1>2, <2>2, <2>5 DEF At
<1> QED BY <1>3, <1>4, <1>5

LEMMA ServeInvWhole == PoolInv /\ TellInv /\ ServeInv => SentWhole
<1> SUFFICES ASSUME PoolInv, TellInv, ServeInv, NEW c \in Live,
                    ctx[c].at \in {"status", "content", "chunkHeader", "chunk"}
             PROVE  client.bodies[ctx[c].req] = "none" \/ ctx[c].uploaded
                        \/ (ctx[c].resent /\ client.bodies[ctx[c].req] = "chunked")
  BY DEF SentWhole
<1> QED BY ServingContext DEF SentInFull, Live, Idle, AfterBody, BodyPoints

LEMMA ServeInvSound == PoolInv /\ TellInv /\ ServeInv => RequestsSound
  BY ServeInvOwned, ServeInvEnded, ServeInvInOrder, ServeInvWhole DEF RequestsSound

LEMMA ServeInvTypes == PoolInv /\ TellInv /\ ServeInv => TypeOK
<1> SUFFICES ASSUME PoolInv, TellInv, ServeInv
             PROVE  TypeOK
  OBVIOUS
<1>3. /\ sock \in [Conns -> {"unused", "new", "connecting", "open", "dead", "closed"}]
      /\ pool \in Seq([epoch : Nat, conn : Conns])
  BY DEF PoolInv, PoolTypes, SocketStates, PoolEntry
<1>4. ctx \in [Contexts -> Context]
  <2>1. ctx \in [Contexts -> AnyContext]
    BY DEF PoolInv, PoolTypes
  <2> QED
    BY <2>1 DEF ServeInv, ContextsServed, Served, AnyContext, Context, ConnNames, Clocks, Alarms,
       Lengths
<1> QED
  BY <1>3, <1>4 DEF TypeOK, PoolInv, PoolTypes, ServeInv, ServeTypes, TellInv, AnswersTyped,
     Answers, Contents

-----------------------------------------------------------------------------
(* The client over WinHTTP: the inductive invariant.                          *)

\* The stream from where a request found it, up to p.
Part(p) == SubSeq(Body, world.start + 1, p)

\* How much of the stream was sent: a block that is held is not yet behind pos.
Ahead(y) == IF y.held THEN y.pos + 1 ELSE y.pos

\* Of a request with a body: where the stream stands and what was sent of it.  The
\* stream of a chunked body may have been replaced by what was copied of it.
StreamSound(r, y) ==
    /\ y.startingPosition = world.start
    /\ y.data # Body => world.bodies[r] = "chunked" /\ ~y.copying
    /\ y.held => world.bodies[r] = "sized" /\ y.pos < Len(y.data)
    /\ y.copying /\ world.bodies[r] = "chunked" =>
        y.bodyType = "chunked" /\ y.copy = Part(y.pos)
    /\ y.data = Body =>
        IF y.bodyType = "none" THEN y.sent = Whole
        ELSE world.start <= y.pos /\ y.sent = Part(Ahead(y))
    /\ y.bodyType = "sized" => y.remaining = Pieces - Ahead(y) /\ y.remaining > 0
NoStream(y) == y.startingPosition = Nowhere /\ ~y.held /\ ~y.copying

\* A context between two operations.
Alive(r, y) ==
    /\ y \in WinContext /\ y.at = "live"
    /\ y.content = "none" /\ y.answer \in {"none", "response"}
    /\ y.bodyType \in {"none", world.bodies[r]}
    /\ y.pos <= Len(y.data) /\ y.data \in {Body, Whole}
    /\ y.copying => ~y.seekable
    /\ IF world.bodies[r] = "none" THEN NoStream(y) ELSE StreamSound(r, y)

\* What an operation needs, and what is known when it completes.
OpSound(y, op) ==
    /\ y.held => op = "writing"
    /\ y.answer = "response" <=> op \in {"querying", "reading", "putn"}
    /\ op = "receiving" => y.bodyType = "none"
    /\ op = "getn" => y.bodyType # "none"
    /\ op = "querying" => ~world.chunksize
    /\ op = "reading" => y.asked > 0 /\ (world.chunksize => y.asked = Chunk)
    /\ op = "putn" /\ world.chunksize /\ ~y.packed /\ y.bytes < Chunk => y.left = 0

\* A context that was deleted.
Over(y) ==
    /\ y \in WinContext /\ y.at = "gone" /\ y.pending = {} /\ y.handle # "open" /\ ~y.held
    /\ y.answer # "none" /\ y.content # "none"
    /\ y.content = "failed" => y.answer = "response"
    /\ y.answer = "response" /\ y.content = "complete" => y.left = 0 \/ (y.packed /\ world.chunksize)

Waits(x) ==
    /\ x.at \in {"unused", "queued", "task"} /\ x.canceled \in BOOLEAN
    /\ x = [NewContext EXCEPT !.at = x.at, !.canceled = x.canceled]
Lives(r, x) == \E op \in KernelOps \cup StreamOps : x.pending = {op} /\ Alive(r, x) /\ OpSound(x, op)
RequestSound(r) == Waits(request[r]) \/ Lives(r, request[r]) \/ Over(request[r])

\* With guarantee_order the first g requests are gone, the next is sent, and those
\* after it, of the first i, wait.
LineIs(g, i) ==
    /\ g <= i
    /\ \A r \in WinRequests :
        /\ Gone(r) <=> r <= g
        /\ Issued(r) <=> r <= i
        /\ request[r].at = "queued" <=> g + 1 < r /\ r <= i
    /\ calls = i - g
    /\ Len(waiting) = IF g < i THEN i - g - 1 ELSE 0
    /\ \A j \in DOMAIN waiting : waiting[j] = g + 1 + j
LineSound ==
    IF world.order THEN \E g, i \in 0..WinN : LineIs(g, i)
    ELSE calls = 0 /\ waiting = <<>> /\ \A r \in WinRequests : request[r].at # "queued"

WinInv ==
    /\ world \in Worlds
    /\ DOMAIN request = WinRequests /\ \A r \in WinRequests : RequestSound(r)
    /\ calls \in Nat /\ waiting \in Seq(WinRequests) /\ LineSound

AllOps == KernelOps \cup StreamOps

-----------------------------------------------------------------------------
(* The worlds, and the stream of a request.                                   *)

LEMMA WorldFacts ==
    ASSUME world \in Worlds
    PROVE  /\ world.order \in BOOLEAN /\ world.seekable \in BOOLEAN
           /\ world.buffer \in BOOLEAN /\ world.chunksize \in BOOLEAN
           /\ world.start \in 0..(Pieces - 1)
           /\ world.bodies \in [WinRequests -> {"none", "sized", "chunked"}]
           /\ world.replies \subseteq AllWinReplies
           /\ WinN \in Nat \ {0} /\ Pieces \in Nat \ {0} /\ Chunk \in Nat \ {0}
  BY WinHttpClientAssumption DEF AllWorlds, WinRequests

LEMMA BodyFacts ==
    ASSUME world \in Worlds
    PROVE  Body \in Seq(1..Pieces) /\ Len(Body) = Pieces /\ \A i \in 1..Pieces : Body[i] = i
  BY WorldFacts, SeqDef, LenProperties DEF Body

LEMMA PartFacts ==
    ASSUME world \in Worlds, NEW p \in world.start..Pieces
    PROVE  /\ Part(p) \in Seq(1..Pieces) /\ Len(Part(p)) = p - world.start
           /\ \A i \in 1..(p - world.start) : Part(p)[i] = world.start + i
<1>1. world.start \in Int /\ world.start >= 0 /\ Pieces \in Int
  BY WorldFacts
<1>2. /\ p \in Int /\ world.start + 1 \in Int
      /\ \A i \in (world.start + 1)..p : Body[i] \in 1..Pieces
  BY <1>1 DEF Body
<1>3. /\ Part(p) \in Seq(1..Pieces)
      /\ Len(Part(p)) = IF world.start + 1 <= p THEN p - (world.start + 1) + 1 ELSE 0
      /\ \A i \in 1..(p - (world.start + 1) + 1) : Part(p)[i] = Body[(world.start + 1) + i - 1]
  BY <1>2, SubSeqProperties DEF Part
<1>4. Len(Part(p)) = p - world.start
  BY <1>1, <1>2, <1>3
<1>5. ASSUME NEW i \in 1..(p - world.start) PROVE Part(p)[i] = world.start + i
  <2>1. i \in 1..(p - (world.start + 1) + 1) /\ (world.start + 1) + i - 1 = world.start + i
    BY <1>1, <1>2
  <2>2. world.start + i \in 1..Pieces
    BY <1>1, <1>2
  <2> QED BY <2>1, <2>2, <1>3 DEF Body
<1> QED BY <1>3, <1>4, <1>5

LEMMA PartGrows ==
    ASSUME world \in Worlds
    PROVE  /\ Part(world.start) = <<>> /\ Part(Pieces) = Whole /\ Len(Whole) = Pieces - world.start
           /\ Whole \in Seq(1..Pieces)
           /\ \A p \in world.start..(Pieces - 1) : Append(Part(p), Body[p + 1]) = Part(p + 1)
<1>1. world.start \in Nat /\ Pieces \in Nat /\ world.start < Pieces
  BY WorldFacts
<1>2. Part(world.start) = <<>>
  BY <1>1, SubSeqEmpty DEF Part
<1>3. Part(Pieces) = Whole /\ Pieces \in world.start..Pieces
  BY <1>1 DEF Part, Whole
<1>4. ASSUME NEW p \in world.start..(Pieces - 1)
      PROVE  Append(Part(p), Body[p + 1]) = Part(p + 1)
  <2>1. p \in world.start..Pieces /\ p + 1 \in world.start..Pieces /\ p + 1 \in 1..Pieces /\ p \in Nat
    BY <1>1
  <2> DEFINE s == Append(Part(p), p + 1)
             t == Part(p + 1)
  <2>3. /\ Part(p) \in Seq(1..Pieces) /\ Len(Part(p)) = p - world.start
        /\ \A i \in 1..(p - world.start) : Part(p)[i] = world.start + i
    BY <2>1, PartFacts
  <2>4. /\ s \in Seq(1..Pieces) /\ Len(s) = Len(Part(p)) + 1
        /\ \A i \in 1..Len(Part(p)) : s[i] = Part(p)[i]
        /\ s[Len(Part(p)) + 1] = p + 1
    BY <2>1, <2>3, AppendProperties
  <2>5. /\ t \in Seq(1..Pieces) /\ Len(t) = p + 1 - world.start
        /\ \A i \in 1..(p + 1 - world.start) : t[i] = world.start + i
    <3> DEFINE q == p + 1
    <3> HIDE DEF q
    <3>3. q = p + 1
      BY DEF q
    <3>4. t = Part(q)
      BY <3>3
    <3> HIDE DEF t
    <3> QED BY <1>1, <2>1, <3>3, <3>4, PartFacts
  <2> HIDE DEF s, t
  <2>7. ASSUME NEW i \in 1..Len(s) PROVE s[i] = t[i]
    <3>1. i \in 1..(p + 1 - world.start) /\ i \in Nat
      BY <1>1, <2>1, <2>3, <2>4, <2>5
    <3>2. CASE i = p + 1 - world.start
      <4>1. i = Len(Part(p)) + 1 /\ world.start + i = p + 1
        <5>1. Len(Part(p)) = p - world.start
          BY <2>3
        <5> HIDE DEF s, t
        <5> QED BY <5>1, <3>2, <1>1, <2>1
      <4> QED BY <2>4, <2>5, <3>1, <4>1
    <3>3. CASE i # p + 1 - world.start
      <4>1. i \in 1..(p - world.start)
        BY <3>1, <3>3, <1>1, <2>1
      <4> QED BY <4>1, <3>1, <2>3, <2>4, <2>5
    <3> QED BY <3>2, <3>3
  <2>8. s = t
    BY <1>1, <2>1, <2>3, <2>4, <2>5, <2>7, SeqEqual
  <2> QED BY <2>1, <2>8 DEF s, t, Body
<1> QED BY <1>2, <1>3, <1>4, PartFacts

-----------------------------------------------------------------------------
(* Contexts.                                                                  *)

\* A context that can be deleted, whatever happened.
Ready(y) == y \in WinContext /\ y.pending = {} /\ y.answer \in {"none", "response"}

LEMMA WinContextFields ==
    ASSUME NEW y \in WinContext
    PROVE  /\ y.at \in {"unused", "queued", "task", "live", "gone"}
           /\ y.pending \in SUBSET AllOps /\ y.handle \in {"none", "open", "closed"}
           /\ y.listening \in BOOLEAN /\ y.canceled \in BOOLEAN
           /\ y.answer \in {"none", "response", "error", "canceled"}
           /\ y.content \in {"none", "complete", "failed"}
           /\ y.bodyType \in {"none", "sized", "chunked"} /\ y.remaining \in 0..Pieces
           /\ y.data \in Seq(1..Pieces) /\ y.pos \in 0..Pieces /\ y.seekable \in BOOLEAN
           /\ y.copying \in BOOLEAN /\ y.copy \in Seq(1..Pieces)
           /\ y.startingPosition \in Nowhere..Pieces
           /\ y.sent \in Seq(1..Pieces) /\ y.held \in BOOLEAN
           /\ y.tried \in SUBSET {"server", "proxy"} /\ y.resends \in Nat
           /\ y.left \in Nat /\ y.packed \in BOOLEAN /\ y.asked \in Nat /\ y.bytes \in Nat
  BY DEF WinContext, AllOps

LEMMA NewContextTyped == world \in Worlds => NewContext \in WinContext
<1> SUFFICES ASSUME world \in Worlds PROVE NewContext \in WinContext
  OBVIOUS
<1> QED BY WorldFacts, BodyFacts, EmptySeq DEF NewContext, WinContext, Nowhere

LEMMA DeletedIsOver ==
    ASSUME world \in Worlds, NEW y \in WinContext, y.pending = {}, y.answer # "none",
           y.content # "none", y.content = "failed" => y.answer = "response",
           y.answer = "response" /\ y.content = "complete" =>
               y.left = 0 \/ (y.packed /\ world.chunksize)
    PROVE  Over(Deleted(y))
<1> DEFINE h == IF y.handle = "open" THEN "closed" ELSE y.handle
           d == Deleted(y)
<1>1. h \in {"none", "closed"}
  BY WinContextFields
<1> HIDE DEF h
<1>2. d = [NewContext EXCEPT !.at = "gone", !.canceled = y.canceled, !.pending = y.pending,
                !.answer = y.answer, !.content = y.content, !.left = y.left,
                !.packed = y.packed, !.handle = h]
  BY DEF Deleted, h
<1> HIDE DEF d
<1>3. /\ d \in WinContext /\ d.at = "gone" /\ d.pending = {} /\ d.handle = h
      /\ d.answer = y.answer /\ d.content = y.content /\ d.left = y.left /\ d.packed = y.packed
      /\ d.held = FALSE
  <2>1. NewContext \in WinContext /\ NewContext.held = FALSE
    BY NewContextTyped DEF NewContext
  <2> QED
    <3>1. /\ y.canceled \in BOOLEAN /\ y.pending = {} /\ y.left \in Nat /\ y.packed \in BOOLEAN
          /\ y.answer \in {"none", "response", "error", "canceled"}
          /\ y.content \in {"none", "complete", "failed"}
      BY WinContextFields
    <3> QED BY <3>1, <2>1, <1>1, <1>2 DEF WinContext
<1> QED BY <1>1, <1>3 DEF d, Over

LEMMA FailedIsOver ==
    ASSUME world \in Worlds, NEW y, Ready(y)
    PROVE  Over(Deleted([y EXCEPT
               !.answer = IF @ # "none" THEN @ ELSE IF y.canceled THEN "canceled" ELSE "error",
               !.content = IF y.answer = "none" THEN "complete" ELSE "failed"]))
<1> DEFINE a == IF y.answer # "none" THEN y.answer ELSE IF y.canceled THEN "canceled" ELSE "error"
           b == IF y.answer = "none" THEN "complete" ELSE "failed"
           z == [y EXCEPT !.answer = a, !.content = b]
<1>1. y \in WinContext /\ y.pending = {} /\ y.answer \in {"none", "response"}
  BY DEF Ready
<1>2. /\ a \in {"response", "error", "canceled"} /\ b \in {"complete", "failed"}
      /\ b = "failed" => a = "response"
      /\ a = "response" => b # "complete"
  BY <1>1
<1> HIDE DEF a, b
<1>3. /\ z \in WinContext /\ z.pending = {} /\ z.answer = a /\ z.content = b
  BY <1>1, <1>2 DEF WinContext
<1> HIDE DEF z
<1>4. Over(Deleted(z))
  BY <1>2, <1>3, DeletedIsOver
<1> QED BY <1>1, <1>4 DEF z, a, b, WinContext

-----------------------------------------------------------------------------
(* How the steps end: a context goes on or is deleted.                        *)

LEMMA WorldSame ==
    ASSUME world' = world, NEW r, NEW y, NEW op
    PROVE  /\ Alive(r, y) => Alive(r, y)'
           /\ OpSound(y, op) => OpSound(y, op)'
           /\ Over(y) => Over(y)'
           /\ Waits(y) => Waits(y)'
<1>3. Over(y) => Over(y)'
  BY DEF Over
<1> QED BY <1>3 DEF OpSound, Alive, NoStream, StreamSound, Ahead, Part, Whole, Waits, NewContext

LEMMA ThenWaits ==
    ASSUME world' = world, NEW s, NEW y, request'[s] = y, Waits(y)
    PROVE  RequestSound(s)'
  BY WorldSame DEF RequestSound, Waits, NewContext

LEMMA ThenOver ==
    ASSUME world' = world, NEW s, NEW y, request'[s] = y, Over(y)
    PROVE  RequestSound(s)'
  BY WorldSame DEF RequestSound, Over

LEMMA ThenLives ==
    ASSUME world' = world, NEW s, NEW y, NEW op \in AllOps, request'[s] = y,
           Alive(s, y), OpSound(y, op), y.pending = {op}
    PROVE  RequestSound(s)'
<1>5. Lives(s, request[s])'
  BY WorldSame DEF Lives, AllOps, OpSound, Alive, NoStream, StreamSound, Ahead, Part, Whole
<1> QED BY <1>5 DEF RequestSound

LEMMA ThenSame ==
    ASSUME world' = world, NEW s, RequestSound(s), request'[s] = request[s]
    PROVE  RequestSound(s)'
<1>1. PICK y : y = request[s]
  OBVIOUS
<1>2. CASE Waits(request[s])
  BY <1>1, <1>2, ThenWaits
<1>3. CASE Over(request[s])
  BY <1>1, <1>3, ThenOver
<1>4. CASE Lives(s, request[s])
  <2>1. PICK op \in AllOps : request[s].pending = {op} /\ Alive(s, request[s]) /\ OpSound(request[s], op)
    BY <1>4 DEF Lives, AllOps
  <2> QED BY <1>1, <2>1, ThenLives
<1> QED BY <1>2, <1>3, <1>4 DEF RequestSound

\* The line does not change where a request neither begins, is scheduled nor ends.
LEMMA WinLineStays ==
    ASSUME LineSound, world' = world, calls' = calls, waiting' = waiting,
           \A s \in WinRequests :
               \/ request'[s].at = request[s].at
               \/ request'[s].at = "live" /\ request[s].at = "task"
    PROVE  LineSound'
<1>2. CASE world.order
  <2>1. PICK g, i \in 0..WinN : LineIs(g, i)
    BY <1>2 DEF LineSound
  <2>2. LineIs(g, i)'
    BY <2>1 DEF LineIs, Gone, Issued
  <2> QED BY <2>2, <1>2 DEF LineSound
<1>3. CASE ~world.order
  BY <1>3 DEF LineSound, Gone, Issued
<1> QED BY <1>2, <1>3

\* A request whose turn it is.
WinStarted(r) == request[r].at \in {"task", "live"}

LEMMA GoesSound ==
    ASSUME WinInv, NEW r \in WinRequests, WinStarted(r), NEW y, NEW op \in AllOps, Becomes(r, y),
           Alive(r, y), OpSound(y, op), y.pending = {op}, y.at = request[r].at \/ request[r].at = "task"
    PROVE  WinInv'
<1>1. /\ world' = world /\ calls' = calls /\ waiting' = waiting
      /\ request' = [request EXCEPT ![r] = y] /\ DOMAIN request = WinRequests
  BY DEF WinInv, Becomes
<1>2. ASSUME NEW s \in WinRequests PROVE RequestSound(s)'
  <2>1. CASE s = r
    BY <1>1, <2>1, ThenLives
  <2>2. CASE s # r
    BY <1>1, <2>2, ThenSame DEF WinInv
  <2> QED BY <2>1, <2>2
<1>3. LineSound'
  <2>1. ASSUME NEW s \in WinRequests
        PROVE  \/ request'[s].at = request[s].at
               \/ request'[s].at = "live" /\ request[s].at = "task"
    BY <1>1 DEF Alive
  <2> QED BY <2>1, <1>1, WinLineStays DEF WinInv
<1> QED BY <1>1, <1>2, <1>3 DEF WinInv

LEMMA WaitsFields ==
    ASSUME world \in Worlds, NEW x, Waits(x)
    PROVE  /\ x \in WinContext /\ x.canceled \in BOOLEAN /\ x.seekable = world.seekable
           /\ x.pending = {} /\ x.content = "none" /\ x.answer = "none" /\ x.handle = "none"
           /\ x.held = FALSE /\ x.left = 0 /\ x.copying = FALSE /\ x.bodyType = "none"
           /\ x.data = Body /\ x.pos = world.start /\ x.copy = <<>> /\ x.sent = <<>>
           /\ x.startingPosition = Nowhere /\ x.remaining = 0
<1>1. PICK a \in {"unused", "queued", "task"}, b \in BOOLEAN :
          x = [NewContext EXCEPT !.at = a, !.canceled = b]
  BY DEF Waits
<1>3. x \in WinContext
  BY <1>1, NewContextTyped DEF WinContext
<1> QED BY <1>1, <1>3 DEF NewContext

\* The request that is being sent is the one after those that are gone.
LEMMA TurnIsNext ==
    ASSUME NEW g \in 0..WinN, NEW i \in 0..WinN, LineIs(g, i), NEW r \in WinRequests, WinStarted(r)
    PROVE  r = g + 1 /\ g < i
  BY DEF LineIs, WinStarted, Gone, Issued, WinRequests

LEMMA FinishedLine ==
    ASSUME WinInv, world.order, NEW r \in WinRequests, WinStarted(r), NEW y, Finishes(r, y)
    PROVE  LineSound'
<1>1. PICK g, i \in 0..WinN : LineIs(g, i)
  BY DEF WinInv, LineSound
<1>2. r = g + 1 /\ g < i
  BY <1>1, TurnIsNext
<1>3. /\ \A s \in WinRequests :
          /\ Gone(s) <=> s <= g
          /\ Issued(s) <=> s <= i
          /\ request[s].at = "queued" <=> g + 1 < s /\ s <= i
      /\ calls = i - g
      /\ Len(waiting) = i - g - 1
      /\ \A j \in DOMAIN waiting : waiting[j] = g + 1 + j
  BY <1>1, <1>2 DEF LineIs
<1>4. /\ g \in Nat /\ i \in Nat /\ WinN \in Nat /\ g + 1 \in 0..WinN /\ g + 1 <= i
      /\ world' = world /\ calls' = calls - 1
      /\ waiting \in Seq(WinRequests) /\ waiting' = IF waiting = <<>> THEN waiting ELSE Tail(waiting)
  BY <1>2, WorldFacts DEF WinInv, Finishes
<1> DEFINE h == g + 1
<1>5. calls' = i - h
  BY <1>3, <1>4
<1>6. /\ Len(waiting)' = IF h < i THEN i - h - 1 ELSE 0
      /\ \A j \in DOMAIN waiting' : waiting'[j] = h + 1 + j
  <2>1. CASE waiting = <<>>
    BY <1>3, <1>4, <2>1, EmptySeq, LenProperties
  <2>2. CASE waiting # <<>>
    <3>1. Len(waiting) \in Nat \ {0} /\ DOMAIN waiting = 1..Len(waiting)
      BY <2>2, <1>4, EmptySeq, LenProperties
    <3>2. /\ waiting' \in Seq(WinRequests) /\ Len(waiting') = Len(waiting) - 1
          /\ \A j \in 1..Len(waiting') : waiting'[j] = waiting[j + 1]
      BY <2>2, <1>4, HeadTailProperties
    <3>5. ASSUME NEW j \in DOMAIN waiting' PROVE waiting'[j] = h + 1 + j
      <4>1. j \in 1..Len(waiting') /\ j + 1 \in DOMAIN waiting
        BY <3>1, <3>2, LenProperties
      <4> QED BY <1>3, <1>4, <3>1, <3>2, <4>1
    <3> QED BY <1>3, <1>4, <3>1, <3>2, <3>5
  <2> QED BY <2>1, <2>2
<1>7. ASSUME NEW s \in WinRequests
      PROVE  /\ Gone(s)' <=> s <= h
             /\ Issued(s)' <=> s <= i
             /\ request'[s].at = "queued" <=> h + 1 < s /\ s <= i
  <2>1. s \in Int
    BY DEF WinRequests
  <2>2. request'[s] = IF s = r THEN Deleted(y)
                      ELSE IF waiting # <<>> /\ s = Head(waiting)
                           THEN [request[s] EXCEPT !.at = "task"]
                           ELSE request[s]
    BY DEF Finishes
  <2>3. CASE s = r
    BY <1>2, <1>4, <2>1, <2>2, <2>3 DEF Gone, Issued, Deleted, NewContext
  <2>4. CASE s # r /\ waiting # <<>> /\ s = Head(waiting)
    <3>3. s = h + 1 /\ h < i
      BY <1>3, <1>4, <2>4, EmptySeq, LenProperties
    <3>5. request'[s].at = "task"
      <4>4. Waits(request[s])
        BY <1>3, <1>4, <2>1, <3>3 DEF RequestSound, WinInv, Over, Lives, Alive
      <4> QED BY <2>2, <2>4, <4>4 DEF Waits, NewContext
    <3> QED BY <3>3, <3>5, <2>1, <1>4 DEF Gone, Issued
  <2>5. CASE s # r /\ ~(waiting # <<>> /\ s = Head(waiting))
    <3>2. ~(s = h + 1 /\ h < i)
      <4> SUFFICES ASSUME s = h + 1, h < i PROVE FALSE
        OBVIOUS
      <4> QED BY <1>3, <1>4, <2>5, EmptySeq, LenProperties
    <3> QED BY <1>2, <1>3, <1>4, <2>1, <2>2, <2>5, <3>2 DEF Gone, Issued
  <2> QED BY <2>3, <2>4, <2>5
<1> HIDE DEF h
<1> QED BY <1>4, <1>5, <1>6, <1>7 DEF LineSound, h, LineIs

LEMMA FinishesSound ==
    ASSUME WinInv, NEW r \in WinRequests, WinStarted(r), NEW y, Finishes(r, y), Over(Deleted(y))
    PROVE  WinInv'
<1>1. /\ world' = world /\ world \in Worlds /\ calls \in Nat /\ waiting \in Seq(WinRequests)
      /\ calls' = IF world.order THEN calls - 1 ELSE calls
      /\ waiting' = IF waiting = <<>> THEN waiting ELSE Tail(waiting)
      /\ DOMAIN request' = WinRequests
  BY DEF WinInv, Finishes
<1>2. CASE world.order
  <2>1. PICK g, i \in 0..WinN : LineIs(g, i)
    BY <1>2 DEF WinInv, LineSound
  <2>5. ASSUME NEW s \in WinRequests, waiting # <<>>, s = Head(waiting)
        PROVE  request[s].at = "queued"
    BY <1>1, <2>1, <2>5, TurnIsNext, EmptySeq, LenProperties DEF LineIs
  <2> QED
    <3>1. ASSUME NEW s \in WinRequests PROVE RequestSound(s)'
      <4>1. request'[s] = IF s = r THEN Deleted(y)
                          ELSE IF waiting # <<>> /\ s = Head(waiting)
                               THEN [request[s] EXCEPT !.at = "task"]
                               ELSE request[s]
        BY DEF Finishes
      <4>2. CASE s = r
        BY <4>1, <4>2, <1>1, ThenOver
      <4>3. CASE s # r /\ waiting # <<>> /\ s = Head(waiting)
        <5>2. Waits(request[s])
          BY <2>5, <4>3 DEF RequestSound, Lives, Alive, Over, WinInv
        <5>3. PICK z : z = [request[s] EXCEPT !.at = "task"]
          OBVIOUS
        <5>4. Waits(z)
          BY <5>2, <5>3 DEF Waits, NewContext
        <5> QED BY <5>3, <5>4, <4>1, <4>3, <1>1, ThenWaits
      <4>4. CASE s # r /\ ~(waiting # <<>> /\ s = Head(waiting))
        BY <1>1, <4>1, <4>4, ThenSame DEF WinInv
      <4> QED BY <4>2, <4>3, <4>4
    <3> QED
      BY <1>1, <1>2, <2>1, <3>1, TurnIsNext, FinishedLine, HeadTailProperties DEF WinInv, LineIs
<1>3. CASE ~world.order
  <2>1. /\ calls = 0 /\ waiting = <<>>
        /\ \A s \in WinRequests : request[s].at # "queued"
    BY <1>3 DEF WinInv, LineSound
  <2>3. ASSUME NEW s \in WinRequests PROVE RequestSound(s)' /\ request'[s].at # "queued"
    <3>2. CASE s = r
      BY <1>1, <2>1, <3>2, ThenOver DEF Over, Finishes
    <3>3. CASE s # r
      BY <1>1, <2>1, <3>3, ThenSame DEF WinInv, Finishes
    <3> QED BY <3>2, <3>3
  <2> QED BY <1>1, <1>3, <2>1, <2>3 DEF WinInv, LineSound
<1> QED BY <1>2, <1>3

LEMMA FailSound ==
    ASSUME WinInv, NEW r \in WinRequests, WinStarted(r), NEW y, Ready(y), Fail(r, y)
    PROVE  WinInv'
<1>1. PICK z : z = [y EXCEPT
        !.answer = IF @ # "none" THEN @ ELSE IF y.canceled THEN "canceled" ELSE "error",
        !.content = IF y.answer = "none" THEN "complete" ELSE "failed"]
  OBVIOUS
<1> QED BY <1>1, FailedIsOver, FinishesSound DEF WinInv, Fail

LEMMA CompletesSound ==
    ASSUME WinInv, NEW r \in WinRequests, WinStarted(r), NEW y, Ready(y), y.answer = "response",
           y.left = 0 \/ (y.packed /\ world.chunksize), Completes(r, y)
    PROVE  WinInv'
<1>1. PICK z : z = [y EXCEPT !.content = "complete"]
  OBVIOUS
<1>2. /\ z \in WinContext /\ z.pending = {} /\ z.answer = "response" /\ z.content = "complete"
      /\ z.left = y.left /\ z.packed = y.packed
  BY <1>1 DEF Ready, WinContext
<1> QED BY <1>1, <1>2, DeletedIsOver, FinishesSound DEF WinInv, Completes

\* A context between two operations.
Between(r, y) == Alive(r, y) /\ y.pending = {}

LEMMA BetweenIsReady ==
    ASSUME NEW r, NEW y, Between(r, y)
    PROVE  Ready(y)
  BY DEF Between, Alive, Ready

\* What Alive says of a context depends on these fields only.
LEMMA AliveSame ==
    ASSUME NEW r, NEW y, NEW z, Alive(r, y), z \in WinContext, z.at = "live",
           z.content = "none", z.answer \in {"none", "response"},
           z.bodyType = y.bodyType, z.pos = y.pos, z.data = y.data, z.copying = y.copying,
           z.seekable = y.seekable, z.startingPosition = y.startingPosition,
           z.held = y.held, z.copy = y.copy, z.sent = y.sent, z.remaining = y.remaining
    PROVE  Alive(r, z)
<1>1. CASE world.bodies[r] = "none"
  BY <1>1 DEF Alive, NoStream
<1>2. CASE world.bodies[r] # "none"
  BY <1>2 DEF Alive, StreamSound, Ahead
<1> QED BY <1>1, <1>2

\* The operation op is begun.
Begun(y, op) == [y EXCEPT !.pending = @ \cup {op}]

LEMMA Operates ==
    ASSUME NEW r, NEW y, NEW op \in AllOps, Between(r, y), OpSound(y, op)
    PROVE  /\ Alive(r, Begun(y, op)) /\ OpSound(Begun(y, op), op)
           /\ Begun(y, op).pending = {op} /\ Begun(y, op).at = "live"
<1> DEFINE z == Begun(y, op)
<1>2. /\ z \in WinContext /\ z.pending = {op}
      /\ z.at = "live" /\ z.content = y.content /\ z.answer = y.answer
      /\ z.bodyType = y.bodyType /\ z.pos = y.pos /\ z.data = y.data /\ z.copying = y.copying
      /\ z.seekable = y.seekable /\ z.startingPosition = y.startingPosition
      /\ z.held = y.held /\ z.copy = y.copy /\ z.sent = y.sent /\ z.remaining = y.remaining
      /\ z.left = y.left /\ z.packed = y.packed /\ z.asked = y.asked /\ z.bytes = y.bytes
  BY DEF WinContext, AllOps, Begun, Between, Alive
<1> HIDE DEF z
<1>3. Alive(r, z)
  BY <1>2, AliveSame DEF Between, Alive
<1> QED BY <1>2, <1>3 DEF z, OpSound

LEMMA OperatesSound ==
    ASSUME WinInv, NEW r \in WinRequests, WinStarted(r), NEW y, NEW op \in AllOps,
           Between(r, y), OpSound(y, op), Becomes(r, [y EXCEPT !.pending = @ \cup {op}])
    PROVE  WinInv'
<1>2. /\ Alive(r, Begun(y, op)) /\ OpSound(Begun(y, op), op)
      /\ Begun(y, op).pending = {op} /\ Begun(y, op).at = "live"
  <2> HIDE DEF Becomes
  <2>1. Alive(r, Begun(y, op))
    BY Operates
  <2>2. OpSound(Begun(y, op), op)
    BY Operates
  <2> QED BY <2>1, <2>2 DEF Alive, Begun, WinContext, Between, AllOps
<1> QED BY <1>2, GoesSound DEF WinStarted, Begun

LEMMA ApiSound ==
    ASSUME WinInv, NEW r \in WinRequests, WinStarted(r), NEW y, NEW op \in AllOps,
           Between(r, y), OpSound(y, op), Api(r, y, op)
    PROVE  WinInv'
<1>1. CASE Becomes(r, [y EXCEPT !.pending = @ \cup {op}])
  BY <1>1, OperatesSound
<1>2. CASE Fail(r, y)
  BY <1>2, FailSound, BetweenIsReady
<1> QED BY <1>1, <1>2 DEF Api

\* The operation that was outstanding has completed.
LEMMA Completed ==
    ASSUME WinInv, NEW r \in WinRequests, NEW op \in request[r].pending, NEW y, y = Done(r, op)
    PROVE  /\ WinStarted(r) /\ op \in AllOps /\ Between(r, y) /\ OpSound(y, op)
           /\ request[r].pending = {op}
           /\ y.left = request[r].left
<1>3. PICK o \in AllOps : request[r].pending = {o} /\ Alive(r, request[r]) /\ OpSound(request[r], o)
  BY WaitsFields DEF Lives, AllOps, RequestSound, Over, WinInv
<1>5. PICK x : x = request[r]
  OBVIOUS
<1>6. /\ x \in WinContext /\ x.at = "live" /\ Alive(r, x) /\ x.pending = {op}
      /\ x.content = "none" /\ x.answer \in {"none", "response"}
      /\ y = [x EXCEPT !.pending = {}]
  BY <1>3, <1>5 DEF Alive, Done
<1>7. /\ y \in WinContext /\ y.pending = {}
      /\ y.at = "live" /\ y.content = x.content /\ y.answer = x.answer
      /\ y.bodyType = x.bodyType /\ y.pos = x.pos /\ y.data = x.data /\ y.copying = x.copying
      /\ y.seekable = x.seekable /\ y.startingPosition = x.startingPosition
      /\ y.held = x.held /\ y.copy = x.copy /\ y.sent = x.sent /\ y.remaining = x.remaining
      /\ y.left = x.left /\ y.packed = x.packed /\ y.asked = x.asked /\ y.bytes = x.bytes
  BY <1>6 DEF WinContext
<1>8. Alive(r, y)
  <2>1. y.content = "none" /\ y.answer \in {"none", "response"}
    BY <1>6, <1>7
  <2> QED BY <1>6, <1>7, <2>1, AliveSame
<1> QED BY <1>3, <1>5, <1>6, <1>7, <1>8 DEF Between, WinStarted, OpSound

-----------------------------------------------------------------------------
(* The body is sent.                                                          *)

\* A request that is to be sent, for the first time or again: its stream is where
\* the request found it, and all of its body is still to be written.
WinFresh(r, y) ==
    /\ y \in WinContext /\ y.at = "live" /\ y.pending = {}
    /\ y.content = "none" /\ y.answer = "none" /\ y.held = FALSE
    /\ y.bodyType = world.bodies[r]
    /\ y.remaining = IF world.bodies[r] = "sized" THEN Len(Whole) ELSE 0
    /\ y.data \in {Body, Whole} /\ y.pos <= Len(y.data)
    /\ y.copying => ~y.seekable
    /\ IF world.bodies[r] = "none" THEN NoStream(y)
       ELSE /\ y.pos = world.start
            /\ y.data # Body => world.bodies[r] = "chunked" /\ ~y.copying
            /\ y.copying /\ world.bodies[r] = "chunked" => y.copy = <<>>

\* The record that _start_request_send() gives to Api.
Sending(y) ==
    [y EXCEPT !.sent = <<>>, !.startingPosition = IF y.bodyType = "none" THEN @ ELSE y.pos]

LEMMA SendingBetween ==
    ASSUME world \in Worlds, NEW r \in WinRequests, NEW y, WinFresh(r, y)
    PROVE  Between(r, Sending(y)) /\ OpSound(Sending(y), "sending")
<1> DEFINE z == Sending(y)
           p == IF y.bodyType = "none" THEN y.startingPosition ELSE y.pos
<1>2. p \in Nowhere..Pieces /\ <<>> \in Seq(1..Pieces)
  BY WinContextFields, WorldFacts, EmptySeq DEF Nowhere, WinFresh
<1>3. z = [y EXCEPT !.sent = <<>>, !.startingPosition = p]
  BY DEF Sending
<1> HIDE DEF z, p
<1>4. /\ z \in WinContext /\ z.pending = {} /\ z.at = "live" /\ z.content = "none"
      /\ z.answer = "none" /\ z.held = FALSE
      /\ z.bodyType = y.bodyType /\ z.pos = y.pos /\ z.data = y.data /\ z.copying = y.copying
      /\ z.seekable = y.seekable /\ z.copy = y.copy /\ z.remaining = y.remaining
      /\ z.startingPosition = p /\ z.sent = <<>>
  BY <1>2, <1>3 DEF WinContext, WinFresh
<1>7. CASE world.bodies[r] = "none"
  BY <1>4, <1>7 DEF Between, Alive, z, WinFresh, NoStream, p, OpSound
<1>8. CASE world.bodies[r] # "none"
  <2>4. world.start \in Int /\ Pieces \in Int /\ world.start < Pieces
    BY WorldFacts
  <2> QED
    BY <1>4, <1>8, <2>4, PartGrows DEF Between, Alive, z, OpSound, StreamSound, WinFresh, p, Ahead
<1> QED BY <1>7, <1>8

LEMMA StartSendSound ==
    ASSUME WinInv, NEW r \in WinRequests, WinStarted(r), NEW y, WinFresh(r, y), StartRequestSend(r, y)
    PROVE  WinInv'
  BY SendingBetween, ApiSound DEF WinInv, StartRequestSend, Sending, AllOps, KernelOps

\* The request is sent again: z is y with the stream back at its beginning.
LEMMA AgainFresh ==
    ASSUME world \in Worlds, NEW r \in WinRequests, NEW y, Between(r, y), y.answer = "none", ~y.held, Rewinds(y),
           NEW z \in WinContext, z.at = "live", z.pending = {}, z.content = "none",
           z.answer = "none", z.held = y.held, z.bodyType = world.bodies[r],
           z.remaining = IF world.bodies[r] = "sized" THEN Len(Whole) ELSE 0,
           z.pos = IF y.startingPosition = Nowhere THEN y.pos ELSE y.startingPosition,
           z.data = y.data, z.copying = y.copying, z.seekable = y.seekable,
           z.startingPosition = y.startingPosition, z.copy = y.copy
    PROVE  WinFresh(r, z)
<1>1. Alive(r, y) /\ z.held = FALSE
  BY WinContextFields DEF Between
<1>4. CASE world.bodies[r] = "none"
  BY <1>1, <1>4 DEF WinFresh, Alive, NoStream, Rewinds
<1>5. CASE world.bodies[r] # "none"
  BY <1>1, <1>5, WorldFacts DEF WinFresh, StreamSound, Rewinds, Nowhere, Alive
<1> QED BY <1>4, <1>5

LEMMA RewoundFields ==
    ASSUME world \in Worlds, NEW r \in WinRequests, NEW y, Between(r, y)
    PROVE  LET z == Rewound(r, y) IN
           /\ z \in WinContext /\ z.at = "live" /\ z.pending = {} /\ z.content = "none"
           /\ z.answer = y.answer /\ z.held = y.held /\ z.bodyType = world.bodies[r]
           /\ z.remaining = IF world.bodies[r] = "sized" THEN Len(Whole) ELSE 0
           /\ z.pos = IF y.startingPosition = Nowhere THEN y.pos ELSE y.startingPosition
           /\ z.data = y.data /\ z.copying = y.copying /\ z.seekable = y.seekable
           /\ z.startingPosition = y.startingPosition /\ z.copy = y.copy
<1> DEFINE p == IF y.startingPosition = Nowhere THEN y.pos ELSE y.startingPosition
           n == IF world.bodies[r] = "sized" THEN Len(Whole) ELSE 0
           x == [y EXCEPT !.pos = p]
           z == [x EXCEPT !.bodyType = world.bodies[r], !.remaining = n]
<1>2. p \in 0..Pieces
  BY WinContextFields, WorldFacts DEF Nowhere, Between, Alive
<1>3. n \in 0..Pieces /\ world.bodies[r] \in {"none", "sized", "chunked"}
  BY PartGrows, WorldFacts
<1>4. Rewound(r, y) = z
  BY DEF Rewound, WithBody
<1> HIDE DEF p, n
<1>5. /\ x \in WinContext /\ x.at = "live" /\ x.pending = {} /\ x.content = "none"
      /\ x.answer = y.answer /\ x.held = y.held /\ x.pos = p
      /\ x.data = y.data /\ x.copying = y.copying /\ x.seekable = y.seekable
      /\ x.startingPosition = y.startingPosition /\ x.copy = y.copy
  BY <1>2 DEF WinContext, Between, Alive
<1> HIDE DEF x
<1>6. /\ z \in WinContext /\ z.at = "live" /\ z.pending = {} /\ z.content = "none"
      /\ z.answer = y.answer /\ z.held = y.held /\ z.bodyType = world.bodies[r]
      /\ z.remaining = n /\ z.pos = p
      /\ z.data = y.data /\ z.copying = y.copying /\ z.seekable = y.seekable
      /\ z.startingPosition = y.startingPosition /\ z.copy = y.copy
  BY <1>5, <1>3 DEF WinContext
<1> HIDE DEF z
<1> QED BY <1>4, <1>6 DEF p, n

\* A piece of a stream that has not been replaced is the next part of it.
LEMMA WrittenFields ==
    ASSUME world \in Worlds, NEW r \in WinRequests, NEW y, Between(r, y), ~y.held,
           y.bodyType # "none", y.pos < Len(y.data)
    PROVE  LET w == Written(y) IN
           /\ w \in WinContext /\ w.at = "live" /\ w.pending = {} /\ w.content = "none"
           /\ w.answer = y.answer /\ w.held = FALSE /\ w.pos = y.pos /\ w.data = y.data
           /\ w.copying = y.copying /\ w.seekable = y.seekable
           /\ w.startingPosition = y.startingPosition /\ w.copy = y.copy
           /\ w.remaining = IF y.bodyType = "sized" THEN y.remaining - 1 ELSE 0
           /\ w.bodyType = IF y.bodyType = "sized" /\ y.remaining = 1 THEN "none" ELSE y.bodyType
           /\ w.data = Body => w.sent = Part(y.pos + 1) /\ y.pos < Pieces
           /\ world.start <= y.pos \/ w.data # Body
           /\ world.bodies[r] = y.bodyType /\ StreamSound(r, y)
           /\ y.pos \in Nat /\ y.data[y.pos + 1] \in 1..Pieces
<1> DEFINE w == Written(y)
           m == IF y.bodyType = "sized" THEN y.remaining - 1 ELSE 0
           b == IF y.bodyType = "sized" /\ m = 0 THEN "none" ELSE y.bodyType
           s == Append(y.sent, y.data[y.pos + 1])
<1>1. /\ y \in WinContext /\ y.at = "live" /\ y.pending = {} /\ y.content = "none"
      /\ Alive(r, y) /\ y.held = FALSE
  BY WinContextFields DEF Between, Alive
<1>2. /\ y.remaining \in 0..Pieces /\ y.sent \in Seq(1..Pieces) /\ y.data \in Seq(1..Pieces)
      /\ y.pos \in 0..Pieces /\ y.bodyType \in {"sized", "chunked"} /\ Pieces \in Nat
      /\ world.start \in Nat
  BY <1>1, WinContextFields, WorldFacts
<1>3. world.bodies[r] = y.bodyType /\ StreamSound(r, y)
  BY <1>1, <1>2 DEF Alive
<1>4. y.data[y.pos + 1] \in 1..Pieces
  <2>2. y.pos + 1 \in 1..Len(y.data)
    BY <1>2, LenProperties
  <2> QED BY <2>2, <1>2, ElementOfSeq
<1>5. s \in Seq(1..Pieces)
  BY <1>2, <1>4, AppendProperties
<1>6. m \in 0..Pieces /\ b \in {"none", "sized", "chunked"}
  BY <1>2, <1>3 DEF StreamSound
<1>7. w = [y EXCEPT !.sent = s, !.remaining = m, !.bodyType = b]
  BY DEF Written
<1>8. y.data = Body => s = Part(y.pos + 1) /\ y.pos < Pieces /\ world.start <= y.pos
  <2> SUFFICES ASSUME y.data = Body PROVE s = Part(y.pos + 1) /\ y.pos < Pieces /\ world.start <= y.pos
    OBVIOUS
  <2>3. y.pos \in world.start..(Pieces - 1)
    BY <1>1, <1>2, <1>3, BodyFacts DEF StreamSound, Ahead
  <2> QED BY <1>1, <1>2, <1>3, <2>3, BodyFacts, PartGrows DEF StreamSound, Ahead
<1>9. b = IF y.bodyType = "sized" /\ y.remaining = 1 THEN "none" ELSE y.bodyType
  BY <1>2
<1> HIDE DEF w, m, b, s
<1>10. /\ w \in WinContext /\ w.at = "live" /\ w.pending = {} /\ w.content = "none"
       /\ w.answer = y.answer /\ w.held = FALSE /\ w.pos = y.pos /\ w.data = y.data
       /\ w.copying = y.copying /\ w.seekable = y.seekable
       /\ w.startingPosition = y.startingPosition /\ w.copy = y.copy
       /\ w.remaining = m /\ w.bodyType = b /\ w.sent = s
  BY <1>1, <1>5, <1>6, <1>7 DEF WinContext
<1> QED BY <1>2, <1>3, <1>4, <1>8, <1>9, <1>10 DEF w, m

\* A block that the stream lends is written from the place where it is.
Lent(y) == [Written(y) EXCEPT !.held = TRUE]

LEMMA LentBetween ==
    ASSUME world \in Worlds, NEW r \in WinRequests, NEW y, Between(r, y), ~y.held,
           y.bodyType = "sized", y.pos < Len(y.data), y.answer = "none"
    PROVE  Between(r, Lent(y)) /\ OpSound(Lent(y), "writing")
<1> DEFINE w == Written(y)
           z == Lent(y)
<1>1. /\ w \in WinContext /\ w.at = "live" /\ w.pending = {} /\ w.content = "none"
      /\ w.answer = y.answer /\ w.pos = y.pos /\ w.data = y.data
      /\ w.copying = y.copying /\ w.seekable = y.seekable
      /\ w.startingPosition = y.startingPosition
      /\ w.remaining = y.remaining - 1
      /\ w.bodyType = IF y.remaining = 1 THEN "none" ELSE "sized"
      /\ w.data = Body => w.sent = Part(y.pos + 1)
      /\ world.start <= y.pos \/ w.data # Body
      /\ world.bodies[r] = "sized" /\ StreamSound(r, y) /\ y.pos \in Nat
  BY WrittenFields
<1>2. z = [w EXCEPT !.held = TRUE]
  BY DEF Lent
<1> HIDE DEF w, z
<1>3. /\ z \in WinContext /\ z.at = "live" /\ z.pending = {} /\ z.content = "none"
      /\ z.answer = y.answer /\ z.held = TRUE /\ z.pos = y.pos /\ z.data = y.data
      /\ z.copying = y.copying /\ z.seekable = y.seekable
      /\ z.startingPosition = y.startingPosition
      /\ z.remaining = y.remaining - 1 /\ z.sent = w.sent
      /\ z.bodyType = IF y.remaining = 1 THEN "none" ELSE "sized"
  BY <1>1, <1>2 DEF WinContext
<1>4. y.data = Body
  BY <1>1 DEF StreamSound
<1>6. y.remaining = Pieces - y.pos /\ y.remaining > 0 /\ y.pos < Pieces
  BY <1>1, <1>4, BodyFacts DEF StreamSound, Ahead
<1>7. y.pos \in Nat /\ Pieces \in Nat /\ world.start \in Nat
  BY <1>1, WorldFacts
<1> QED
  BY <1>1, <1>3, <1>4, <1>6, <1>7, PartGrows DEF Between, z, OpSound, Alive, StreamSound, Ahead

LEMMA ContinueSound ==
    ASSUME WinInv, NEW r \in WinRequests, WinStarted(r), NEW y, Between(r, y), y.answer = "none",
           y.held = FALSE, Continue(r, y)
    PROVE  WinInv'
<1>1. world \in Worlds /\ {"getn", "writing", "receiving"} \subseteq AllOps
  BY DEF WinInv, AllOps, KernelOps, StreamOps
<1>2. CASE y.bodyType \in {"chunked", "sized"} /\ Becomes(r, [y EXCEPT !.pending = @ \cup {"getn"}])
  BY <1>1, <1>2, OperatesSound DEF OpSound
<1>3. CASE y.bodyType = "sized" /\ Fail(r, y)
  BY <1>3, FailSound, BetweenIsReady
<1>4. CASE /\ y.bodyType = "sized" /\ y.pos < Len(y.data)
           /\ Api(r, [Written(y) EXCEPT !.held = TRUE], "writing")
  BY <1>1, <1>4, LentBetween, ApiSound DEF Lent
<1>5. CASE y.bodyType = "none" /\ Api(r, y, "receiving")
  BY <1>1, <1>5, ApiSound DEF OpSound
<1> QED BY <1>2, <1>3, <1>4, <1>5 DEF Continue

LEMMA SendRequestCompleteSound ==
    ASSUME WinInv, NEW r \in WinRequests, SendRequestComplete(r)
    PROVE  WinInv'
<1>2. PICK y : y = Done(r, "sending")
  OBVIOUS
<1>4. y.answer = "none" /\ y.held = FALSE
  BY <1>2, Completed, WinContextFields DEF OpSound, Between, Alive, SendRequestComplete
<1> QED BY <1>2, <1>4, Completed, ContinueSound DEF SendRequestComplete

LEMMA WriteCompleteSound ==
    ASSUME WinInv, NEW r \in WinRequests, WriteComplete(r)
    PROVE  WinInv'
<1>1. PICK y : y = Done(r, "writing")
  OBVIOUS
<1>2. "writing" \in request[r].pending
      /\ Continue(r, IF y.held THEN [y EXCEPT !.held = FALSE, !.pos = @ + 1] ELSE y)
  BY <1>1 DEF WriteComplete
<1>3. WinStarted(r) /\ Between(r, y) /\ OpSound(y, "writing")
  BY <1>1, <1>2, Completed
<1>4. y.answer = "none" /\ y.held \in BOOLEAN /\ y \in WinContext /\ Alive(r, y)
      /\ y.at = "live" /\ y.content = "none" /\ y.pending = {}
  BY <1>3, WinContextFields DEF OpSound, Between, Alive
<1>5. CASE ~y.held
  BY <1>2, <1>3, <1>4, <1>5, ContinueSound
<1>6. CASE y.held
  <2>1. PICK z : z = [y EXCEPT !.held = FALSE, !.pos = @ + 1]
    OBVIOUS
  <2>2. world.bodies[r] = "sized" /\ StreamSound(r, y) /\ y.pos < Len(y.data) /\ y.data = Body
    BY <1>4, <1>6 DEF Alive, NoStream, StreamSound
  <2>3. y.pos \in Nat /\ y.pos < Pieces /\ Pieces \in Nat
    BY <2>2, <1>4, WinContextFields, BodyFacts, WorldFacts DEF WinInv
  <2>4. /\ z \in WinContext /\ z.at = "live" /\ z.pending = {} /\ z.content = "none"
        /\ z.answer = "none" /\ z.held = FALSE /\ z.pos = y.pos + 1 /\ z.data = y.data
        /\ z.copying = y.copying /\ z.seekable = y.seekable /\ z.bodyType = y.bodyType
        /\ z.startingPosition = y.startingPosition /\ z.remaining = y.remaining
        /\ z.sent = y.sent
    <3>1. y.pos + 1 \in 0..Pieces
      BY <2>3
    <3> QED BY <3>1, <1>4, <2>1 DEF WinContext
  <2>5. Ahead(z) = Ahead(y)
    BY <2>4, <1>6 DEF Ahead
  <2>7. Alive(r, z)
    BY <1>4, <2>2, <2>3, <2>4, <2>5, WorldFacts, BodyFacts DEF Alive, WinInv, StreamSound
  <2> QED BY <1>2, <1>3, <1>6, <2>1, <2>4, <2>7, ContinueSound DEF Between
<1> QED BY <1>4, <1>5, <1>6

\* A piece that was read, and what there is of the copy.
Got(y) ==
    [Written(y) EXCEPT !.pos = @ + 1,
        !.copy = IF y.copying /\ y.bodyType = "chunked" THEN Append(@, y.data[y.pos + 1]) ELSE @]

LEMMA GotBetween ==
    ASSUME world \in Worlds, NEW r \in WinRequests, NEW y, Between(r, y), ~y.held,
           y.bodyType # "none", y.pos < Len(y.data), y.answer = "none"
    PROVE  Between(r, Got(y)) /\ OpSound(Got(y), "writing")
<1> DEFINE w == Written(y)
           c == IF y.copying /\ y.bodyType = "chunked" THEN Append(w.copy, y.data[y.pos + 1]) ELSE w.copy
           z == Got(y)
<1>1. /\ w \in WinContext /\ w.at = "live" /\ w.pending = {} /\ w.content = "none"
      /\ w.answer = y.answer /\ w.held = FALSE /\ w.pos = y.pos /\ w.data = y.data
      /\ w.copying = y.copying /\ w.seekable = y.seekable
      /\ w.startingPosition = y.startingPosition /\ w.copy = y.copy
      /\ w.remaining = IF y.bodyType = "sized" THEN y.remaining - 1 ELSE 0
      /\ w.bodyType = IF y.bodyType = "sized" /\ y.remaining = 1 THEN "none" ELSE y.bodyType
      /\ w.data = Body => w.sent = Part(y.pos + 1) /\ y.pos < Pieces
      /\ world.start <= y.pos \/ w.data # Body
      /\ world.bodies[r] = y.bodyType /\ StreamSound(r, y)
      /\ y.pos \in Nat /\ y.data[y.pos + 1] \in 1..Pieces
  BY WrittenFields
<1>2. /\ y.data \in {Body, Whole} /\ (y.copying => ~y.seekable) /\ y.bodyType \in {"sized", "chunked"}
      /\ y.copy \in Seq(1..Pieces) /\ y.copying \in BOOLEAN /\ y.held = FALSE
  BY WinContextFields DEF Alive, Between
<1>3. Pieces \in Nat /\ world.start \in Nat
  BY WorldFacts
<1>4. y.pos + 1 \in 0..Pieces /\ y.pos + 1 <= Len(y.data)
  <2>1. Len(y.data) \in Nat /\ Len(y.data) <= Pieces
    <3>1. Len(Body) = Pieces /\ Len(Whole) = Pieces - world.start
      BY BodyFacts, PartGrows
    <3> QED BY <3>1, <1>2, <1>3, WorldFacts
  <2> QED BY <1>1, <1>3, <2>1
<1>5. c \in Seq(1..Pieces)
  BY <1>1, <1>2, AppendProperties
<1>6. z = [w EXCEPT !.pos = y.pos + 1, !.copy = c]
  BY <1>1 DEF Got
<1>7. y.copying /\ y.bodyType = "chunked" => c = Part(y.pos + 1)
  <2> SUFFICES ASSUME y.copying, y.bodyType = "chunked" PROVE c = Part(y.pos + 1)
    OBVIOUS
  <2>1. y.data = Body /\ y.copy = Part(y.pos)
    BY <1>1 DEF StreamSound
  <2>2. y.pos \in world.start..(Pieces - 1)
    BY <2>1, <1>1, <1>3
  <2> QED BY <1>1, <2>1, <2>2, PartGrows
<1> HIDE DEF w, c, z
<1>8. /\ z \in WinContext /\ z.at = "live" /\ z.pending = {} /\ z.content = "none"
      /\ z.answer = "none" /\ z.held = FALSE /\ z.pos = y.pos + 1 /\ z.data = y.data
      /\ z.copying = y.copying /\ z.seekable = y.seekable
      /\ z.startingPosition = y.startingPosition /\ z.copy = c
      /\ z.remaining = w.remaining /\ z.sent = w.sent /\ z.bodyType = w.bodyType
  BY <1>1, <1>4, <1>5, <1>6 DEF WinContext
<1>10. z.data = Body =>
          IF z.bodyType = "none" THEN z.sent = Whole
          ELSE world.start <= z.pos /\ z.sent = Part(Ahead(z))
  <2> SUFFICES ASSUME z.data = Body
               PROVE  IF z.bodyType = "none" THEN z.sent = Whole
                      ELSE world.start <= z.pos /\ z.sent = Part(Ahead(z))
    OBVIOUS
  <2>2. z.bodyType = "none" => y.pos + 1 = Pieces
    BY <1>1, <1>2, <1>3, <1>8 DEF StreamSound, Ahead
  <2> QED BY <1>1, <1>3, <1>8, <2>2, PartGrows DEF Ahead
<1>13. StreamSound(r, z)
  BY <1>1, <1>2, <1>3, <1>7, <1>8, <1>10 DEF StreamSound, Ahead
<1> QED BY <1>1, <1>2, <1>4, <1>8, <1>13 DEF Between, z, OpSound, Alive

LEMMA AtEndBetween ==
    ASSUME world \in Worlds, NEW r \in WinRequests, NEW y, Between(r, y), ~y.held,
           y.bodyType = "chunked", y.pos = Len(y.data), y.answer = "none"
    PROVE  Between(r, AtEnd(y)) /\ OpSound(AtEnd(y), "writing")
<1>1. /\ y \in WinContext /\ y.at = "live" /\ y.pending = {} /\ y.content = "none" /\ Alive(r, y)
      /\ y.held = FALSE /\ y.copying \in BOOLEAN /\ y.copy \in Seq(1..Pieces)
  BY WinContextFields DEF Between, Alive
<1>2. /\ world.bodies[r] = "chunked" /\ StreamSound(r, y) /\ y.data \in {Body, Whole}
      /\ (y.copying => ~y.seekable)
  BY <1>1 DEF Alive
<1> DEFINE x == [y EXCEPT !.bodyType = "none"]
<1>4. /\ x \in WinContext /\ x.at = "live" /\ x.pending = {} /\ x.content = "none"
      /\ x.answer = "none" /\ x.held = FALSE /\ x.bodyType = "none" /\ x.pos = y.pos
      /\ x.data = y.data /\ x.copying = y.copying /\ x.seekable = y.seekable
      /\ x.startingPosition = y.startingPosition /\ x.sent = y.sent
  BY <1>1 DEF WinContext
<1>5. AtEnd(y) = IF y.copying
                 THEN [x EXCEPT !.data = y.copy, !.pos = 0, !.seekable = TRUE, !.copying = FALSE]
                 ELSE x
  BY DEF AtEnd
<1> HIDE DEF x
<1>6. CASE ~y.copying
  BY <1>1, <1>2, <1>4, <1>5, <1>6, BodyFacts, PartGrows DEF Between, OpSound, Alive, StreamSound,
     Ahead
<1>7. CASE y.copying
  <2> DEFINE z == [x EXCEPT !.data = y.copy, !.pos = 0, !.seekable = TRUE, !.copying = FALSE]
  <2>1. y.data = Body /\ y.copy = Whole /\ y.sent = Whole
    BY <1>1, <1>2, <1>7, BodyFacts, PartGrows DEF StreamSound, Ahead
  <2>2. 0 \in 0..Pieces /\ Len(Whole) \in Nat
    BY WorldFacts, PartGrows, LenProperties
  <2>3. /\ z \in WinContext /\ z.at = "live" /\ z.pending = {} /\ z.content = "none"
        /\ z.answer = "none" /\ z.held = FALSE /\ z.bodyType = "none" /\ z.pos = 0
        /\ z.data = Whole /\ z.copying = FALSE
        /\ z.startingPosition = y.startingPosition /\ z.sent = Whole
    BY <1>1, <1>4, <2>1, <2>2 DEF WinContext
  <2>4. AtEnd(y) = z
    BY <1>5, <1>7
  <2> HIDE DEF z
  <2> QED BY <1>2, <2>2, <2>3, <2>4 DEF Between, OpSound, Alive, StreamSound
<1> QED BY <1>1, <1>6, <1>7

LEMMA PieceReadSound ==
    ASSUME WinInv, NEW r \in WinRequests, PieceRead(r)
    PROVE  WinInv'
<1>1. PICK y : y = Done(r, "getn")
  OBVIOUS
<1>3. WinStarted(r) /\ Between(r, y) /\ OpSound(y, "getn")
  BY <1>1, Completed DEF PieceRead, Got
<1>6. CASE Fail(r, y)
  BY <1>3, <1>6, FailSound, BetweenIsReady
<1>7. CASE y.pos < Len(y.data) /\ Api(r, Got(y), "writing")
  BY <1>3, <1>7, GotBetween, ApiSound DEF OpSound, Between, Alive, WinInv, AllOps, KernelOps
<1>8. CASE y.pos = Len(y.data) /\ y.bodyType = "chunked" /\ Api(r, AtEnd(y), "writing")
  BY <1>3, <1>8, AtEndBetween, ApiSound DEF OpSound, Between, Alive, WinInv, AllOps, KernelOps
<1> QED BY <1>1, <1>6, <1>7, <1>8 DEF PieceRead, Got

-----------------------------------------------------------------------------
(* The response is read.                                                      *)

LEMMA ReadNextSound ==
    ASSUME WinInv, NEW r \in WinRequests, WinStarted(r), NEW y, Between(r, y), y.answer = "response",
           ~y.held, NEW bytes \in Nat, NEW first \in BOOLEAN,
           world.chunksize /\ ~first /\ bytes < Chunk => y.left = 0 \/ y.packed,
           ReadNextResponseChunk(r, y, bytes, first)
    PROVE  WinInv'
<1>3. CASE ~world.chunksize
  BY <1>3, ApiSound DEF AllOps, KernelOps, OpSound, ReadNextResponseChunk
<1>4. CASE world.chunksize /\ bytes < Chunk /\ ~first
  BY <1>4, CompletesSound, BetweenIsReady DEF ReadNextResponseChunk
<1>5. CASE world.chunksize /\ ~(bytes < Chunk /\ ~first)
  <2> DEFINE z == [y EXCEPT !.asked = Chunk]
  <2>1. Api(r, z, "reading")
    BY <1>5 DEF ReadNextResponseChunk
  <2>3. /\ z \in WinContext /\ z.at = "live" /\ z.pending = {} /\ z.content = "none"
        /\ z.answer = "response" /\ z.asked = Chunk
        /\ z.bodyType = y.bodyType /\ z.pos = y.pos /\ z.data = y.data /\ z.copying = y.copying
        /\ z.seekable = y.seekable /\ z.startingPosition = y.startingPosition
        /\ z.held = y.held /\ z.copy = y.copy /\ z.sent = y.sent /\ z.remaining = y.remaining
    BY WorldFacts DEF WinContext, Between, Alive, WinInv
  <2> HIDE DEF z
  <2>6. Between(r, z)
    BY <2>3, AliveSame DEF Between, Alive
  <2> QED BY <2>1, <2>3, <2>6, WorldFacts, ApiSound DEF AllOps, KernelOps, OpSound, WinInv
<1> QED BY <1>3, <1>4, <1>5

LEMMA RespondSound ==
    ASSUME WinInv, NEW r \in WinRequests, WinStarted(r), NEW y, Between(r, y), ~y.held,
           NEW reply \in world.replies, Respond(r, y, reply)
    PROVE  WinInv'
<1>1. /\ y \in WinContext /\ y.at = "live" /\ y.pending = {} /\ y.content = "none" /\ Alive(r, y)
  BY DEF Between, Alive
<1>2. /\ reply.length \in Nat /\ reply.encoding \in {"plain", "packed", "unknown"}
      /\ Chunk \in Nat
  BY WorldFacts DEF WinInv, AllWinReplies
<1> DEFINE b == (reply.encoding = "packed")
           z == [y EXCEPT !.answer = "response", !.left = reply.length, !.packed = b]
           e == [z EXCEPT !.left = 0]
<1>3. b \in BOOLEAN
  OBVIOUS
<1>4. \/ Fail(r, y)
      \/ Completes(r, e)
      \/ ReadNextResponseChunk(r, z, 0, TRUE)
  BY DEF Respond
<1> HIDE DEF b
<1>5. /\ z \in WinContext /\ z.at = "live" /\ z.pending = {} /\ z.content = "none"
      /\ z.answer = "response"
      /\ z.bodyType = y.bodyType /\ z.pos = y.pos /\ z.data = y.data /\ z.copying = y.copying
      /\ z.seekable = y.seekable /\ z.startingPosition = y.startingPosition
      /\ z.held = y.held /\ z.copy = y.copy /\ z.sent = y.sent /\ z.remaining = y.remaining
  BY <1>1, <1>2, <1>3 DEF WinContext
<1> HIDE DEF z
<1>6. e \in WinContext /\ e.pending = {} /\ e.answer = "response" /\ e.left = 0
  BY <1>5 DEF WinContext
<1> HIDE DEF e
<1>8. CASE Fail(r, y)
  BY <1>8, FailSound, BetweenIsReady
<1>9. CASE Completes(r, e)
  BY <1>6, <1>9, CompletesSound DEF Ready
<1>10. CASE ReadNextResponseChunk(r, z, 0, TRUE)
  BY <1>1, <1>5, <1>10, AliveSame, ReadNextSound DEF Between
<1> QED BY <1>4, <1>8, <1>9, <1>10

LEMMA HeadersAvailableSound ==
    ASSUME WinInv, NEW r \in WinRequests, HeadersAvailable(r)
    PROVE  WinInv'
<1>1. PICK y : y = Done(r, "receiving")
  OBVIOUS
<1>3. WinStarted(r) /\ Between(r, y) /\ OpSound(y, "receiving")
  BY <1>1, WorldFacts, Completed DEF HeadersAvailable, WinInv, AllWinReplies
<1>4. y.answer = "none" /\ ~y.held
  BY <1>3 DEF OpSound, Between, Alive
<1>5. CASE Fail(r, y)
  BY <1>3, <1>5, FailSound, BetweenIsReady
<1>6. ASSUME NEW reply \in world.replies, reply.challenge \in {"none", "server", "proxy"},
             reply.challenge # "none", Rewinds(y),
             StartRequestSend(r, [Rewound(r, y) EXCEPT !.tried = @ \cup {reply.challenge}])
      PROVE  WinInv'
  <2> DEFINE x == Rewound(r, y)
             z == [x EXCEPT !.tried = @ \cup {reply.challenge}]
  <2>1. /\ x \in WinContext /\ x.at = "live" /\ x.pending = {} /\ x.content = "none"
        /\ x.answer = y.answer /\ x.held = y.held /\ x.bodyType = world.bodies[r]
        /\ x.remaining = IF world.bodies[r] = "sized" THEN Len(Whole) ELSE 0
        /\ x.pos = IF y.startingPosition = Nowhere THEN y.pos ELSE y.startingPosition
        /\ x.data = y.data /\ x.copying = y.copying /\ x.seekable = y.seekable
        /\ x.startingPosition = y.startingPosition /\ x.copy = y.copy
    BY <1>3, RewoundFields DEF WinInv
  <2> HIDE DEF x
  <2>2. /\ z \in WinContext /\ z.at = "live" /\ z.pending = {} /\ z.content = "none"
        /\ z.answer = "none" /\ z.held = y.held /\ z.bodyType = world.bodies[r]
        /\ z.remaining = x.remaining /\ z.pos = x.pos
        /\ z.data = y.data /\ z.copying = y.copying /\ z.seekable = y.seekable
        /\ z.startingPosition = y.startingPosition /\ z.copy = y.copy
    <3>1. x.tried \cup {reply.challenge} \in SUBSET {"server", "proxy"}
      BY <2>1, <1>6, WinContextFields
    <3> QED BY <2>1, <3>1, <1>4 DEF WinContext
  <2>3. StartRequestSend(r, z)
    BY <1>6 DEF x
  <2> HIDE DEF z
  <2> QED BY <1>3, <1>4, <1>6, <2>1, <2>2, <2>3, AgainFresh, StartSendSound DEF WinInv
<1>7. ASSUME NEW reply \in world.replies, Respond(r, y, reply)
      PROVE  WinInv'
  BY <1>3, <1>4, <1>7, RespondSound
<1> QED BY <1>1, <1>5, <1>6, <1>7, WorldFacts DEF HeadersAvailable, WinInv, AllWinReplies

LEMMA RequestErrorSound ==
    ASSUME WinInv, NEW r \in WinRequests, OperationError(r)
    PROVE  WinInv'
<1>1. PICK op \in request[r].pending \cap KernelOps : RequestError(r, Done(r, op), op)
  BY DEF OperationError
<1>2. PICK y : y = Done(r, op)
  OBVIOUS
<1>3. WinStarted(r) /\ Between(r, y) /\ OpSound(y, op)
  BY <1>1, <1>2, Completed
<1>5. CASE Fail(r, y)
  BY <1>3, <1>5, FailSound, BetweenIsReady
<1>6. CASE /\ op \in {"sending", "receiving"} /\ Rewinds(y)
           /\ StartRequestSend(r, [Rewound(r, y) EXCEPT !.resends = @ + 1])
  <2> DEFINE x == Rewound(r, y)
             z == [x EXCEPT !.resends = @ + 1]
  <2>1. /\ x \in WinContext /\ x.at = "live" /\ x.pending = {} /\ x.content = "none"
        /\ x.answer = y.answer /\ x.held = y.held /\ x.bodyType = world.bodies[r]
        /\ x.remaining = IF world.bodies[r] = "sized" THEN Len(Whole) ELSE 0
        /\ x.pos = IF y.startingPosition = Nowhere THEN y.pos ELSE y.startingPosition
        /\ x.data = y.data /\ x.copying = y.copying /\ x.seekable = y.seekable
        /\ x.startingPosition = y.startingPosition /\ x.copy = y.copy
    BY <1>3, RewoundFields DEF WinInv
  <2>3. StartRequestSend(r, z)
    BY <1>6
  <2> HIDE DEF x
  <2>4. /\ z \in WinContext /\ z.at = "live" /\ z.pending = {} /\ z.content = "none"
        /\ z.answer = "none" /\ z.held = y.held /\ z.bodyType = world.bodies[r]
        /\ z.remaining = x.remaining /\ z.pos = x.pos
        /\ z.data = y.data /\ z.copying = y.copying /\ z.seekable = y.seekable
        /\ z.startingPosition = y.startingPosition /\ z.copy = y.copy
    <3>1. x.resends + 1 \in Nat
      BY <2>1, WinContextFields
    <3> QED BY <1>3, <1>6, <2>1, <3>1 DEF WinContext, OpSound, Between, Alive
  <2> HIDE DEF z
  <2> QED
    BY <1>3, <1>6, <2>1, <2>3, <2>4, AgainFresh, StartSendSound DEF WinInv, OpSound, Between,
       Alive
<1> QED BY <1>1, <1>2, <1>5, <1>6 DEF RequestError

LEMMA UserThrowsSound ==
    ASSUME WinInv, NEW r \in WinRequests, UserThrows(r)
    PROVE  WinInv'
<1>1. PICK op \in request[r].pending : Fail(r, Done(r, op))
  BY DEF UserThrows
<1>2. PICK y : y = Done(r, op)
  OBVIOUS
<1> QED BY <1>1, <1>2, Completed, FailSound, BetweenIsReady

LEMMA DataAvailableSound ==
    ASSUME WinInv, NEW r \in WinRequests, DataAvailable(r)
    PROVE  WinInv'
<1>1. PICK y : y = Done(r, "querying")
  OBVIOUS
<1>3. WinStarted(r) /\ Between(r, y) /\ OpSound(y, "querying")
  BY <1>1, Completed DEF DataAvailable
<1>4. y.answer = "response" /\ ~world.chunksize /\ ~y.held /\ "reading" \in AllOps
  BY <1>3 DEF OpSound, AllOps, KernelOps
<1>5. ASSUME NEW n \in 1..y.left, Api(r, [y EXCEPT !.asked = n], "reading")
      PROVE  WinInv'
  <2> DEFINE z == [y EXCEPT !.asked = n]
  <2>1. /\ y \in WinContext /\ y.at = "live" /\ y.pending = {} /\ y.content = "none" /\ Alive(r, y)
        /\ y.left \in Nat
    BY <1>3, WinContextFields DEF Between, Alive
  <2>2. n \in Nat /\ n > 0
    BY <2>1
  <2>3. /\ z \in WinContext /\ z.at = "live" /\ z.pending = {} /\ z.content = "none"
        /\ z.answer = "response" /\ z.asked = n
        /\ z.bodyType = y.bodyType /\ z.pos = y.pos /\ z.data = y.data /\ z.copying = y.copying
        /\ z.seekable = y.seekable /\ z.startingPosition = y.startingPosition
        /\ z.held = y.held /\ z.copy = y.copy /\ z.sent = y.sent /\ z.remaining = y.remaining
    BY <2>1, <2>2, <1>4 DEF WinContext
  <2> HIDE DEF z
  <2> QED BY <1>3, <1>4, <1>5, <2>1, <2>2, <2>3, AliveSame, ApiSound DEF Between, z, OpSound
<1>6. CASE y.left = 0 /\ Completes(r, y)
  BY <1>3, <1>4, <1>6, CompletesSound, BetweenIsReady
<1> QED BY <1>1, <1>5, <1>6 DEF DataAvailable

LEMMA ReadCompleteSound ==
    ASSUME WinInv, NEW r \in WinRequests, ReadComplete(r)
    PROVE  WinInv'
<1>1. PICK y : y = Done(r, "reading")
  OBVIOUS
<1>2. PICK got : got = IF y.asked < y.left THEN y.asked ELSE y.left
  OBVIOUS
<1>3. PICK z : z = [y EXCEPT !.left = @ - got]
  OBVIOUS
<1>5. WinStarted(r) /\ Between(r, y) /\ OpSound(y, "reading")
  BY <1>1, <1>2, <1>3, Completed DEF ReadComplete
<1>6. /\ y \in WinContext /\ y.at = "live" /\ y.pending = {} /\ y.content = "none" /\ Alive(r, y)
      /\ y.left \in Nat /\ y.asked \in Nat /\ y.packed \in BOOLEAN
  BY <1>5, WinContextFields DEF Between, Alive
<1>7. /\ y.answer = "response" /\ y.asked > 0 /\ (world.chunksize => y.asked = Chunk)
      /\ ~y.held /\ "putn" \in AllOps /\ Chunk \in Nat
  BY <1>5, WorldFacts DEF OpSound, AllOps, StreamOps, WinInv
<1>8. /\ got \in Nat /\ y.left - got \in Nat
      /\ got < y.asked => y.left - got = 0
      /\ got = 0 => y.left = 0
  BY <1>2, <1>6, <1>7
<1>9. /\ z \in WinContext /\ z.at = "live" /\ z.pending = {} /\ z.content = "none"
      /\ z.answer = "response" /\ z.left = y.left - got /\ z.packed = y.packed
      /\ z.bodyType = y.bodyType /\ z.pos = y.pos /\ z.data = y.data /\ z.copying = y.copying
      /\ z.seekable = y.seekable /\ z.startingPosition = y.startingPosition
      /\ z.held = y.held /\ z.copy = y.copy /\ z.sent = y.sent /\ z.remaining = y.remaining
  BY <1>3, <1>6, <1>7, <1>8 DEF WinContext
<1>10. Between(r, z)
  BY <1>6, <1>9, AliveSame DEF Between
<1>11. CASE got = 0 /\ Completes(r, y)
  BY <1>5, <1>7, <1>8, <1>11, CompletesSound, BetweenIsReady
<1>12. CASE got > 0 /\ y.packed /\ Fail(r, z)
  BY <1>5, <1>10, <1>12, FailSound, BetweenIsReady
<1>13. ASSUME NEW bytes \in IF y.packed THEN {0, got} ELSE {got},
              \/ ReadNextResponseChunk(r, z, bytes, FALSE)
              \/ Becomes(r, [z EXCEPT !.bytes = bytes, !.pending = @ \cup {"putn"}])
       PROVE  WinInv'
  <2>1. bytes \in Nat /\ (world.chunksize /\ bytes < Chunk => z.left = 0 \/ z.packed)
    BY <1>6, <1>7, <1>8, <1>9
  <2>2. CASE ReadNextResponseChunk(r, z, bytes, FALSE)
    BY <1>5, <1>7, <1>9, <1>10, <2>1, <2>2, ReadNextSound
  <2>3. CASE Becomes(r, [z EXCEPT !.bytes = bytes, !.pending = @ \cup {"putn"}])
    <3> DEFINE x == [z EXCEPT !.bytes = bytes]
    <3>1. /\ x \in WinContext /\ x.at = "live" /\ x.pending = {} /\ x.content = "none"
          /\ x.answer = "response" /\ x.left = z.left /\ x.packed = z.packed /\ x.bytes = bytes
          /\ x.bodyType = z.bodyType /\ x.pos = z.pos /\ x.data = z.data /\ x.copying = z.copying
          /\ x.seekable = z.seekable /\ x.startingPosition = z.startingPosition
          /\ x.held = z.held /\ x.copy = z.copy /\ x.sent = z.sent /\ x.remaining = z.remaining
      BY <2>1, <1>9 DEF WinContext
    <3>2. Becomes(r, [x EXCEPT !.pending = @ \cup {"putn"}])
      BY <1>9, <2>3 DEF WinContext
    <3> HIDE DEF x
    <3>3. Between(r, x)
      BY <1>10, <3>1, AliveSame DEF Between
    <3> QED BY <1>5, <1>7, <1>9, <2>1, <3>1, <3>2, <3>3, OperatesSound DEF OpSound
  <2> QED BY <1>13, <2>2, <2>3
<1> QED BY <1>1, <1>2, <1>3, <1>11, <1>12, <1>13 DEF ReadComplete

LEMMA PutDoneSound ==
    ASSUME WinInv, NEW r \in WinRequests, PutDone(r)
    PROVE  WinInv'
<1>1. PICK y : y = Done(r, "putn")
  OBVIOUS
<1>3. WinStarted(r) /\ Between(r, y) /\ OpSound(y, "putn")
  BY <1>1, Completed DEF PutDone
<1>5. CASE Fail(r, y)
  BY <1>3, <1>5, FailSound, BetweenIsReady
<1>6. CASE ReadNextResponseChunk(r, y, y.bytes, FALSE)
  BY <1>3, <1>6, WinContextFields, ReadNextSound DEF OpSound, Between, Alive
<1> QED BY <1>1, <1>5, <1>6 DEF PutDone

-----------------------------------------------------------------------------
(* A request begins, waits, is scheduled and is cancelled.                    *)

\* A context with the handle of its request, which may be cancelled or copied.
Opened(x, h, l, c) == [x EXCEPT !.handle = h, !.listening = l, !.copying = c]

LEMMA SendRequestSound ==
    ASSUME WinInv, NEW r \in WinRequests, SendRequest(r)
    PROVE  WinInv'
<1>1. /\ request[r].at = "task" /\ world \in Worlds /\ RequestSound(r)
  BY DEF WinInv, SendRequest
<1>2. Waits(request[r]) /\ WinStarted(r)
  BY <1>1 DEF RequestSound, Lives, Alive, Over, WinStarted
<1>3. PICK x : x = [request[r] EXCEPT !.at = "live"]
  OBVIOUS
<1> DEFINE u == [x EXCEPT
                    !.handle = IF x.canceled /\ r \in world.cancellable THEN "closed" ELSE "open",
                    !.listening = r \in world.cancellable,
                    !.copying = world.buffer /\ ~x.seekable /\ world.bodies[r] # "none"]
           n == IF world.bodies[r] = "sized" THEN Len(Whole) ELSE 0
           z == WithBody(r, u)
<1>4. Fail(r, x) \/ StartRequestSend(r, z)
  BY <1>3 DEF SendRequest
<1>5. /\ x \in WinContext /\ x.at = "live" /\ x.pending = {} /\ x.content = "none"
      /\ x.answer = "none" /\ x.held = FALSE /\ x.seekable \in BOOLEAN
      /\ x.data = Body /\ x.pos = world.start /\ x.copy = <<>> /\ x.startingPosition = Nowhere
  <2>1. PICK v : v = request[r]
    OBVIOUS
  <2>2. /\ v \in WinContext /\ v.pending = {} /\ v.content = "none" /\ v.answer = "none"
        /\ v.held = FALSE /\ v.seekable \in BOOLEAN
        /\ v.data = Body /\ v.pos = world.start /\ v.copy = <<>> /\ v.startingPosition = Nowhere
    BY <2>1, <1>1, <1>2, WaitsFields, WinContextFields
  <2>3. x = [v EXCEPT !.at = "live"]
    BY <2>1, <1>3
  <2> QED BY <2>2, <2>3 DEF WinContext
<1>6. world.bodies[r] \in {"none", "sized", "chunked"} /\ n \in 0..Pieces
      /\ world.start \in 0..Pieces /\ world.buffer \in BOOLEAN
  BY <1>1, PartGrows, WorldFacts
<1>7. /\ u \in WinContext /\ u.at = "live" /\ u.pending = {} /\ u.content = "none"
      /\ u.answer = "none" /\ u.held = FALSE /\ u.seekable = x.seekable
      /\ u.data = Body /\ u.pos = world.start /\ u.copy = <<>> /\ u.startingPosition = Nowhere
      /\ u.copying => ~u.seekable /\ world.bodies[r] # "none"
  <2> DEFINE h == IF x.canceled /\ r \in world.cancellable THEN "closed" ELSE "open"
             l == r \in world.cancellable
             c == world.buffer /\ ~x.seekable /\ world.bodies[r] # "none"
  <2>1. h \in {"open", "closed"} /\ l \in BOOLEAN /\ c \in BOOLEAN
    OBVIOUS
  <2>2. c => ~x.seekable /\ world.bodies[r] # "none"
    OBVIOUS
  <2>3. u = Opened(x, h, l, c)
    BY DEF Opened
  <2>4. PICK a \in {"open", "closed"}, b \in BOOLEAN, d \in BOOLEAN :
            u = Opened(x, a, b, d) /\ (d => ~x.seekable /\ world.bodies[r] # "none")
    <3> HIDE DEF h, l, c, u
    <3> QED BY <2>1, <2>2, <2>3, Zenon
  <2> HIDE DEF h, l, c, u
  <2>5. /\ u \in WinContext /\ u.at = "live" /\ u.pending = {} /\ u.content = "none"
        /\ u.answer = "none" /\ u.held = FALSE /\ u.seekable = x.seekable /\ u.copying = d
        /\ u.data = Body /\ u.pos = world.start /\ u.copy = <<>> /\ u.startingPosition = Nowhere
    <3>1. x \in WinContext
      BY <1>5
    <3>2. /\ u \in WinContext /\ u.at = x.at /\ u.pending = x.pending /\ u.content = x.content
          /\ u.answer = x.answer /\ u.held = x.held /\ u.seekable = x.seekable /\ u.copying = d
          /\ u.data = x.data /\ u.pos = x.pos /\ u.copy = x.copy
          /\ u.startingPosition = x.startingPosition
      BY <3>1, <2>4 DEF Opened, WinContext
    <3> QED BY <3>2, <1>5
  <2> QED BY <2>4, <2>5
<1> HIDE DEF u
<1>8. z = [u EXCEPT !.bodyType = world.bodies[r], !.remaining = n]
  BY DEF WithBody
<1> HIDE DEF n, z
<1>9. /\ z \in WinContext /\ z.at = "live" /\ z.pending = {} /\ z.content = "none"
      /\ z.answer = "none" /\ z.held = FALSE /\ z.seekable = u.seekable /\ z.copying = u.copying
      /\ z.data = Body /\ z.pos = world.start /\ z.copy = <<>> /\ z.startingPosition = Nowhere
      /\ z.bodyType = world.bodies[r] /\ z.remaining = n
  BY <1>6, <1>7, <1>8 DEF WinContext
<1>10. WinFresh(r, z)
  BY <1>1, <1>7, <1>9, WorldFacts, BodyFacts DEF WinFresh, NoStream, n
<1> QED BY <1>2, <1>4, <1>5, <1>10, FailSound, StartSendSound DEF Ready

LEMMA WinCancelSound ==
    ASSUME WinInv, NEW r \in WinRequests, WinCancel(r)
    PROVE  WinInv'
<1>1. PICK x : x = request[r]
  OBVIOUS
<1> DEFINE h == IF x.listening /\ x.handle = "open" THEN "closed" ELSE x.handle
           y == [x EXCEPT !.canceled = TRUE, !.handle = h]
<1>2. Becomes(r, y) /\ x.at # "gone" /\ RequestSound(r) /\ world \in Worlds
  BY <1>1 DEF WinCancel, Gone, WinInv
<1>3. CASE Waits(x)
  <2>2. y = [x EXCEPT !.canceled = TRUE, !.handle = "none"]
    BY <1>2, <1>3, WaitsFields
  <2> HIDE DEF y, h
  <2>3. Waits(y) /\ y.at = x.at
    <3>1. PICK a \in {"unused", "queued", "task"}, b \in BOOLEAN :
            x = [NewContext EXCEPT !.at = a, !.canceled = b]
      BY <1>3 DEF Waits
    <3>2. y = [NewContext EXCEPT !.at = a, !.canceled = TRUE] /\ x.at = a
      <4>1. NewContext \in WinContext /\ NewContext.handle = "none"
        BY <1>2, NewContextTyped DEF NewContext
      <4> QED BY <4>1, <3>1, <2>2 DEF WinContext
    <3> QED BY <3>2 DEF Waits, NewContext
  <2>4. /\ world' = world /\ calls' = calls /\ waiting' = waiting
        /\ request' = [request EXCEPT ![r] = y] /\ DOMAIN request = WinRequests
    BY <1>2 DEF WinInv, Becomes
  <2>5. ASSUME NEW s \in WinRequests PROVE RequestSound(s)' /\ request'[s].at = request[s].at
    <3>1. CASE s = r
      BY <1>1, <2>3, <2>4, <3>1, ThenWaits
    <3>2. CASE s # r
      BY <2>4, <3>2, ThenSame DEF WinInv
    <3> QED BY <3>1, <3>2
  <2> QED BY <2>4, <2>5, WinLineStays DEF WinInv
<1>4. CASE Lives(r, x)
  <2>1. PICK op \in AllOps : x.pending = {op} /\ Alive(r, x) /\ OpSound(x, op)
    BY <1>4 DEF Lives, AllOps
  <2>2. x \in WinContext /\ x.at = "live" /\ x.content = "none" /\ x.answer \in {"none", "response"}
    BY <2>1 DEF Alive
  <2>3. h \in {"none", "open", "closed"}
    BY <2>2, WinContextFields
  <2> HIDE DEF h
  <2>4. /\ y \in WinContext /\ y.at = "live" /\ y.pending = {op} /\ y.content = "none"
        /\ y.answer = x.answer /\ y.left = x.left /\ y.packed = x.packed
        /\ y.bytes = x.bytes /\ y.asked = x.asked
        /\ y.bodyType = x.bodyType /\ y.pos = x.pos /\ y.data = x.data /\ y.copying = x.copying
        /\ y.seekable = x.seekable /\ y.startingPosition = x.startingPosition
        /\ y.held = x.held /\ y.copy = x.copy /\ y.sent = x.sent /\ y.remaining = x.remaining
    BY <2>1, <2>2, <2>3 DEF WinContext
  <2> HIDE DEF y
  <2> QED BY <1>1, <1>2, <2>1, <2>2, <2>4, AliveSame, GoesSound DEF WinStarted, OpSound
<1> QED BY <1>1, <1>2, <1>3, <1>4 DEF RequestSound, Over

LEMMA WinPropagateSound ==
    ASSUME WinInv, NEW r \in WinRequests, WinPropagate(r)
    PROVE  WinInv'
<1> DEFINE first == ~world.order \/ calls + 1 = 1
           a == IF first THEN "task" ELSE "queued"
           x == request[r]
           y == [x EXCEPT !.at = a]
<1>1. /\ ~Issued(r) /\ \A s \in 1..(r - 1) : Issued(s)
      /\ request' = [request EXCEPT ![r] = y]
      /\ waiting' = IF first THEN waiting ELSE Append(waiting, r)
      /\ calls' = IF world.order THEN calls + 1 ELSE calls
      /\ world' = world
  BY DEF WinPropagate
<1>2. /\ world \in Worlds /\ DOMAIN request = WinRequests /\ RequestSound(r) /\ LineSound
      /\ calls \in Nat /\ waiting \in Seq(WinRequests) /\ world.order \in BOOLEAN /\ WinN \in Nat
  BY WorldFacts DEF WinInv
<1>3. a \in {"task", "queued"} /\ (a = "queued" <=> ~first)
  OBVIOUS
<1>4. Waits(y) /\ y.at = a
  <2>2. PICK b \in {"unused", "queued", "task"}, c \in BOOLEAN :
            x = [NewContext EXCEPT !.at = b, !.canceled = c]
    BY <1>1, <1>2 DEF Waits, RequestSound, Lives, Alive, Over, Issued
  <2> HIDE DEF a, x
  <2>4. y = [NewContext EXCEPT !.at = a, !.canceled = c]
    BY <1>2, <2>2, NewContextTyped DEF WinContext
  <2> HIDE DEF y
  <2> QED BY <1>2, <1>3, <2>2, <2>4, NewContextTyped DEF Waits, WinContext
<1> HIDE DEF y, x, a, first
<1>5. request'[r] = y /\ \A s \in WinRequests \ {r} : request'[s] = request[s]
  BY <1>1, <1>2
<1>6. ASSUME NEW s \in WinRequests PROVE RequestSound(s)'
  <2>1. CASE s = r
    BY <2>1, <1>1, <1>4, <1>5, ThenWaits
  <2>2. CASE s # r
    BY <1>1, <1>5, <2>2, ThenSame DEF WinInv
  <2> QED BY <2>1, <2>2
<1>7. /\ \A s \in WinRequests \ {r} :
          /\ Gone(s)' <=> Gone(s)
          /\ Issued(s)' <=> Issued(s)
          /\ request'[s].at = "queued" <=> request[s].at = "queued"
      /\ ~Gone(r)' /\ Issued(r)' /\ ~Gone(r) /\ request[r].at # "queued"
      /\ request'[r].at = "queued" <=> ~first
  BY <1>1, <1>3, <1>4, <1>5 DEF Gone, Issued
<1>8. CASE world.order
  <2>1. PICK g, i \in 0..WinN : LineIs(g, i)
    BY <1>2, <1>8 DEF LineSound
  <2>2. /\ \A s \in WinRequests :
            /\ Gone(s) <=> s <= g
            /\ Issued(s) <=> s <= i
            /\ request[s].at = "queued" <=> g + 1 < s /\ s <= i
        /\ g <= i /\ calls = i - g
        /\ Len(waiting) = IF g < i THEN i - g - 1 ELSE 0
        /\ \A j \in DOMAIN waiting : waiting[j] = g + 1 + j
    BY <2>1 DEF LineIs
  <2>3. r \in Nat /\ 1 <= r /\ r <= WinN /\ g \in Nat /\ i \in Nat
    BY <1>2 DEF WinRequests
  <2>4. r = i + 1
    <3>2. CASE r = 1
      BY <1>1, <2>2, <2>3, <3>2
    <3>3. CASE r # 1
      <4>1. r - 1 \in 1..(r - 1) /\ r - 1 \in WinRequests
        BY <3>3, <2>3, <1>2 DEF WinRequests
      <4> QED BY <1>1, <2>2, <2>3, <4>1
    <3> QED BY <3>2, <3>3
  <2> DEFINE k == i + 1
  <2>5. k \in 0..WinN /\ g <= k /\ g < k /\ k = r
    BY <2>2, <2>3, <2>4, <1>2
  <2>6. first <=> g = i
    BY <1>8, <2>2, <2>3 DEF first
  <2>7. calls' = k - g /\ calls' \in Nat
    BY <1>1, <1>8, <2>2, <2>3
  <2>8. ASSUME NEW s \in WinRequests
        PROVE  /\ Gone(s)' <=> s <= g
               /\ Issued(s)' <=> s <= k
               /\ request'[s].at = "queued" <=> g + 1 < s /\ s <= k
    <3>1. s \in Int
      BY DEF WinRequests
    <3>2. CASE s = r
      BY <3>1, <3>2, <1>7, <2>2, <2>3, <2>4, <2>5, <2>6
    <3>3. CASE s # r
      BY <1>7, <2>2, <2>3, <2>4, <3>1, <3>3
    <3> QED BY <3>2, <3>3
  <2>9. /\ waiting' \in Seq(WinRequests)
        /\ Len(waiting)' = IF g < k THEN k - g - 1 ELSE 0
        /\ \A j \in DOMAIN waiting' : waiting'[j] = g + 1 + j
    <3>1. CASE first
      BY <1>1, <1>2, <2>2, <2>3, <2>5, <2>6, <3>1
    <3>2. CASE ~first
      <4>1. waiting' = Append(waiting, r) /\ g < i /\ Len(waiting) = i - g - 1
        BY <3>2, <1>1, <2>2, <2>3, <2>6
      <4>2. /\ waiting' \in Seq(WinRequests) /\ Len(waiting') = Len(waiting) + 1
            /\ \A j \in 1..Len(waiting) : waiting'[j] = waiting[j]
            /\ waiting'[Len(waiting) + 1] = r
        BY <4>1, <1>2, AppendProperties
      <4>5. ASSUME NEW j \in DOMAIN waiting' PROVE waiting'[j] = g + 1 + j
        <5>2. CASE j \in 1..Len(waiting)
          BY <1>2, <2>2, <4>2, <5>2, LenProperties
        <5>3. CASE j = Len(waiting) + 1
          BY <2>3, <2>4, <4>1, <4>2, <5>3
        <5> QED BY <1>2, <2>3, <4>1, <4>2, <5>2, <5>3, LenProperties
      <4> QED BY <2>3, <2>5, <4>1, <4>2, <4>5
    <3> QED BY <3>1, <3>2
  <2> HIDE DEF k
  <2> QED BY <1>1, <1>2, <1>6, <1>8, <2>5, <2>7, <2>8, <2>9 DEF WinInv, LineSound, LineIs
<1>9. CASE ~world.order
  BY <1>1, <1>2, <1>6, <1>7, <1>9 DEF WinInv, LineSound, first
<1> QED BY <1>8, <1>9

-----------------------------------------------------------------------------
(* The invariant.                                                             *)

LEMMA WinInvInit == WinInit => WinInv
<1> SUFFICES ASSUME WinInit PROVE WinInv
  OBVIOUS
<1>1. /\ world \in Worlds /\ request = [r \in WinRequests |-> NewContext]
      /\ calls = 0 /\ waiting = <<>>
  BY DEF WinInit
<1>3. NewContext \in WinContext /\ NewContext.at = "unused" /\ NewContext.canceled = FALSE
  BY <1>1, NewContextTyped DEF NewContext
<1>5. \A r \in WinRequests : RequestSound(r) /\ ~Gone(r) /\ ~Issued(r) /\ request[r].at # "queued"
  BY <1>1, <1>3 DEF RequestSound, Gone, Issued, Waits, WinContext
<1>6. LineSound
  <2>1. CASE world.order
    <3>1. ASSUME NEW r \in WinRequests PROVE ~(r <= 0) /\ ~(0 + 1 < r /\ r <= 0)
      BY DEF WinRequests
    <3> QED BY <1>1, <1>5, <2>1, <3>1, WorldFacts, EmptySeq, LenProperties DEF LineSound, LineIs
  <2>2. CASE ~world.order
    BY <2>2, <1>1, <1>5 DEF LineSound
  <2> QED BY <2>1, <2>2
<1> QED BY <1>1, <1>5, <1>6, WorldFacts, EmptySeq, LenProperties DEF WinInv

LEMMA WinInvStep == WinInv /\ [WinNext]_winVars => WinInv'
<1> SUFFICES ASSUME WinInv, [WinNext]_winVars PROVE WinInv'
  OBVIOUS
<1>1. CASE WinNext
  <2>1. PICK r \in WinRequests : WinStep(r) \/ WinPropagate(r) \/ WinCancel(r)
    BY <1>1 DEF WinNext
  <2>2. CASE SendRequest(r)
    BY <2>2, SendRequestSound
  <2>3. CASE SendRequestComplete(r)
    BY <2>3, SendRequestCompleteSound
  <2>4. CASE WriteComplete(r)
    BY <2>4, WriteCompleteSound
  <2>5. CASE PieceRead(r)
    BY <2>5, PieceReadSound
  <2>6. CASE HeadersAvailable(r)
    BY <2>6, HeadersAvailableSound
  <2>7. CASE DataAvailable(r)
    BY <2>7, DataAvailableSound
  <2>8. CASE ReadComplete(r)
    BY <2>8, ReadCompleteSound
  <2>9. CASE PutDone(r)
    BY <2>9, PutDoneSound
  <2>10. CASE OperationError(r)
    BY <2>10, RequestErrorSound
  <2>11. CASE UserThrows(r)
    BY <2>11, UserThrowsSound
  <2>12. CASE WinPropagate(r)
    BY <2>12, WinPropagateSound
  <2>13. CASE WinCancel(r)
    BY <2>13, WinCancelSound
  <2> QED
    BY <2>1, <2>2, <2>3, <2>4, <2>5, <2>6, <2>7, <2>8, <2>9, <2>10, <2>11, <2>12, <2>13 DEF
       WinStep
<1>2. CASE UNCHANGED winVars
  BY <1>2, WinLineStays, ThenSame DEF WinInv, winVars
<1> QED BY <1>1, <1>2

LEMMA WinInvTypes == WinInv => WinTypeOK
<1> SUFFICES ASSUME WinInv PROVE WinTypeOK
  OBVIOUS
<1>1. world \in Worlds /\ WinN \in Nat /\ world.order \in BOOLEAN
  BY WorldFacts DEF WinInv
<1>2. ASSUME NEW r \in WinRequests PROVE request[r] \in WinContext
  BY <1>1, WaitsFields DEF WinInv, RequestSound, Lives, Alive, Over
<1>3. calls \in 0..WinN
  <2>1. CASE world.order
    <3>1. PICK g, i \in 0..WinN : LineIs(g, i)
      BY <2>1 DEF WinInv, LineSound
    <3> QED BY <3>1, <1>1 DEF LineIs
  <2>2. CASE ~world.order
    BY <2>2, <1>1 DEF WinInv, LineSound
  <2> QED BY <2>1, <2>2
<1> QED BY <1>1, <1>2, <1>3 DEF WinInv, WinTypeOK

LEMMA WinInvSound == WinInv => WinRequestsSound
<1> SUFFICES ASSUME WinInv PROVE WinRequestsSound
  OBVIOUS
<1>1. world \in Worlds /\ WinN \in Nat /\ world.order \in BOOLEAN /\ world.start \in Nat
  BY WorldFacts DEF WinInv
<1>2. ASSUME NEW r \in WinRequests
      PROVE  /\ request[r] \in WinContext
             /\ \/ /\ request[r].at \in {"unused", "queued", "task"} /\ request[r].pending = {}
                   /\ request[r].content = "none" /\ request[r].answer = "none"
                \/ \E op \in AllOps : /\ request[r].pending = {op} /\ Alive(r, request[r])
                                      /\ OpSound(request[r], op)
                \/ Over(request[r])
  <2>2. CASE Waits(request[r])
    BY <2>2, <1>1, WaitsFields DEF Waits
  <2>3. CASE Lives(r, request[r])
    BY <2>3 DEF Lives, Alive, AllOps
  <2>4. CASE Over(request[r])
    BY <2>4 DEF Over
  <2> QED BY <2>2, <2>3, <2>4 DEF RequestSound, WinInv
<1>3. DeletedLast
  <2>1. ASSUME NEW r \in WinRequests
        PROVE  /\ Cardinality(request[r].pending) = IF request[r].at = "live" THEN 1 ELSE 0
               /\ Gone(r) => request[r].handle # "open"
    <3>1. Cardinality({}) = 0 /\ \A op \in AllOps : Cardinality({op}) = 1
      BY FS_EmptySet, FS_Singleton
    <3> QED BY <3>1, <1>2 DEF Over, Alive, Gone
  <2> QED BY <2>1 DEF DeletedLast
<1>4. ToldOnce
  <2>1. ASSUME NEW r \in WinRequests
        PROVE  /\ Gone(r) <=> request[r].content # "none"
               /\ Gone(r) => request[r].answer # "none"
               /\ request[r].content = "failed" => request[r].answer = "response"
               /\ ~Gone(r) => request[r].answer \in {"none", "response"}
    BY <1>2 DEF Over, Alive, Gone
  <2> QED BY <2>1 DEF ToldOnce
<1>5. OneAtATime
  <2> SUFFICES ASSUME world.order
               PROVE  /\ calls = Cardinality({r \in WinRequests : Issued(r) /\ ~Gone(r)})
                      /\ \A r, s \in WinRequests :
                            r < s /\ Issued(s) /\ ~Gone(r) => request[s].at \in {"unused", "queued"}
    BY DEF OneAtATime
  <2>1. PICK g, i \in 0..WinN : LineIs(g, i)
    BY DEF WinInv, LineSound
  <2>2. /\ \A s \in WinRequests :
            /\ Gone(s) <=> s <= g
            /\ Issued(s) <=> s <= i
            /\ request[s].at = "queued" <=> g + 1 < s /\ s <= i
        /\ g <= i /\ calls = i - g /\ g \in Int /\ i \in Int /\ g + 1 \in Int
    BY <2>1, <1>1 DEF LineIs
  <2>3. {r \in WinRequests : Issued(r) /\ ~Gone(r)} = (g + 1)..i
    BY <2>1, <2>2, <1>1 DEF WinRequests
  <2>5. calls = Cardinality({r \in WinRequests : Issued(r) /\ ~Gone(r)})
    <3>1. i - g = IF g + 1 > i THEN 0 ELSE i - (g + 1) + 1
      BY <2>2
    <3> QED BY <2>2, <2>3, <3>1, FS_Interval
  <2>6. ASSUME NEW r \in WinRequests, NEW s \in WinRequests, r < s, Issued(s), ~Gone(r)
        PROVE  request[s].at \in {"unused", "queued"}
    BY <2>2, <2>6 DEF WinRequests
  <2> QED BY <2>5, <2>6
<1>6. SentAll
  <2>1. ASSUME NEW r \in WinRequests
        PROVE  /\ "receiving" \in request[r].pending /\ world.bodies[r] # "none" =>
                    request[r].sent = Whole \/ (world.start > 0 /\ request[r].data # Body)
               /\ request[r].pending # {} /\ request[r].held => "writing" \in request[r].pending
    <3> SUFFICES ASSUME request[r].pending # {}
                 PROVE  /\ "receiving" \in request[r].pending /\ world.bodies[r] # "none" =>
                            request[r].sent = Whole \/ (world.start > 0 /\ request[r].data # Body)
                        /\ request[r].held => "writing" \in request[r].pending
      OBVIOUS
    <3>1. PICK op \in AllOps : /\ request[r].pending = {op} /\ Alive(r, request[r])
                               /\ OpSound(request[r], op)
      BY <1>2 DEF Over
    <3>3. ASSUME op = "receiving", world.bodies[r] # "none"
          PROVE  request[r].sent = Whole \/ (world.start > 0 /\ request[r].data # Body)
      <4>2. world.start = 0 => Whole = Body
        BY <1>1, BodyFacts, SubSeqFull DEF Whole
      <4> QED BY <1>1, <3>1, <3>3, <4>2 DEF StreamSound, OpSound, Alive
    <3> QED BY <3>1, <3>3 DEF OpSound
  <2> QED BY <2>1 DEF SentAll
<1>7. ReceivedAll
  <2>1. ASSUME NEW r \in WinRequests, Gone(r), request[r].answer = "response",
               request[r].content = "complete"
        PROVE  request[r].left = 0 \/ (request[r].packed /\ world.chunksize)
    BY <2>1, <1>2 DEF Over, Alive, Gone
  <2> QED BY <2>1 DEF ReceivedAll
<1> QED BY <1>3, <1>4, <1>5, <1>6, <1>7 DEF WinRequestsSound

-----------------------------------------------------------------------------
(* Both clients.  A step of MCSpec is a step of one client, and the other      *)
(* stands still: each keeps its own invariant.                                *)

ClientsInv == PoolInv /\ TellInv /\ ServeInv /\ WinInv

LEMMA ClientsInvInit == MCInit => ClientsInv
  BY PoolInvInit, TellInvInit, ServeInvInit, WinInvInit DEF MCInit, ClientsInv

LEMMA OneClientSteps == [MCNext]_allVars => [Next]_vars /\ [WinNext]_winVars
  BY DEF MCNext, allVars

LEMMA ClientsInvStep == ClientsInv /\ [MCNext]_allVars => ClientsInv'
<1> SUFFICES ASSUME ClientsInv, [MCNext]_allVars
             PROVE  ClientsInv'
  OBVIOUS
<1> QED
  BY OneClientSteps, PoolInvStep, TellInvStep, ServeInvStep, ServeInvAnswers, WinInvStep
  DEF ClientsInv

LEMMA ClientsInvariant == MCSpec => []ClientsInv
  BY ClientsInvInit, ClientsInvStep, PTL DEF MCSpec

\* Every variable of the client over asio has its type; an address is tried only
\* when one is left, and finish() is called no more than twice for a request
\* (http_client_asio.cpp, handle_resolve() and handle_connect(); http_client.cpp).
THEOREM AsioClientTypes == Spec => []TypeOK
<1>1. Init => ServeInv
  BY ServeInvInit
<1>2. PoolInv /\ TellInv /\ ServeInv /\ [Next]_vars => ServeInv'
  BY ServeInvStep
<1>3. Init => PoolInv /\ TellInv
  BY PoolInvInit, TellInvInit
<1>4. PoolInv /\ TellInv /\ ServeInv /\ [Next]_vars => PoolInv' /\ TellInv'
  BY PoolInvStep, TellInvStep, ServeInvAnswers
<1>5. PoolInv /\ TellInv /\ ServeInv => TypeOK
  BY ServeInvTypes
<1> QED BY <1>1, <1>2, <1>3, <1>4, <1>5, PTL DEF Spec

\* Over asio, for every number of requests, contexts and connections, and every
\* client: a request that is not finished has one context, through the queue and
\* through a retry; it ends once, with its answer and its content, but for the
\* encoding nobody knows; with guarantee_order the requests go one at a time as
\* they were issued; and an answer is read when the body was sent
\* (http_client.cpp, http_client_asio.cpp).
THEOREM RequestsAreSound == Spec => []RequestsSound
<1>1. Init => ServeInv
  BY ServeInvInit
<1>2. PoolInv /\ TellInv /\ ServeInv /\ [Next]_vars => ServeInv'
  BY ServeInvStep
<1>3. Init => PoolInv /\ TellInv
  BY PoolInvInit, TellInvInit
<1>4. PoolInv /\ TellInv /\ ServeInv /\ [Next]_vars => PoolInv' /\ TellInv'
  BY PoolInvStep, TellInvStep, ServeInvAnswers
<1>5. PoolInv /\ TellInv /\ ServeInv => RequestsSound
  BY ServeInvSound
<1> QED BY <1>1, <1>2, <1>3, <1>4, <1>5, PTL DEF Spec

\* Every variable of the client over asio and of the client over WinHTTP has its
\* type, whichever of them runs (http_client_asio.cpp, http_client_winhttp.cpp).
THEOREM ClientsTypes == MCSpec => []ClientsTypeOK
<1>1. ClientsInv => ClientsTypeOK
  BY ServeInvTypes, WinInvTypes DEF ClientsInv, ClientsTypeOK
<1> QED BY <1>1, ClientsInvariant, PTL

\* Over either client, whatever timeouts, cancellations, retries, challenges for
\* credentials and failing streams interleave: the answer of a request is told
\* before its content, and both before its context goes, which nothing is pending
\* of by then; with guarantee_order one request is sent at a time, as they were
\* issued; a response is read when the body was sent, but for the second attempts
\* that SentWhole and SentAll name; and over WinHTTP complete content was read to
\* its end, unless it was decompressed in chunks of the user's size
\* (http_client_asio.cpp, http_client_winhttp.cpp).
THEOREM ExchangesAreSound == MCSpec => []ExchangesSound
<1>1. ClientsInv => ExchangesSound
  BY ServeInvSound, WinInvSound DEF ClientsInv, ExchangesSound
<1> QED BY <1>1, ClientsInvariant, PTL
=============================================================================
