------------------------ MODULE HttpAsioServer_proofs ------------------------
(* Proofs about HttpAsioServer for every set of connections and of listeners,  *)
(* any number of requests and any setups.                                      *)
(*                                                                             *)
(* The inductive invariant, AsioInv, has a part for each connection alone,     *)
(* LinkSound, that counts who holds a reference to it, and one for the server  *)
(* api, ApiSound, that says what is left of a listener at each line of the     *)
(* code that runs under s_lock.                                                *)
EXTENDS HttpAsioServer, FiniteSetTheorems, TLAPS

Numbers == 1..(MaxRequests + 1)
One(b) == IF b THEN 1 ELSE 0

\* The chain of reads and writes of the connection has reached this request.
Active(x) == x.thread \in {"parse", "find", "found"} \/ x.sender \notin {"none", "done"}
\* The request costs its connection a reference.
Holds(x) == x.bad \/ x.thread \in {"lock", "handler", "thrown", "end", "left"}
Holders(rs) == {n \in Numbers : Holds(rs[n])}

\* What is true of each request alone.
RequestSound(x) ==
    /\ x.bad => x.thread \in {"none", "done"}
    /\ x.body = "reading" =>
          x.thread \in {"find", "found"} \/ x.sender = "armed" \/ (x.sender = "waiting" /\ ~x.bad)
    /\ x.body = "reading" => ~x.bad
    /\ x.sender \notin {"none", "armed"} => x.reply # "none"
    /\ x.outcome = "sent" => x.sender = "done"
    /\ x.thread \in {"parse", "find", "found"} => x.sender = "none" /\ ~x.bad
    /\ x.thread \in {"parse", "find", "found", "lock"} =>
          ~x.kept /\ ~x.threw /\ x.reply \in {"none", "error", "closing"}
    /\ x.thread = "thrown" => x.threw

\* Who refers to the connection.
RefsSound(k, rs, on) ==
    /\ k.refs = Cardinality(Holders(rs)) + One(on)
    /\ k.life = "live" <=> k.refs # 0
    /\ k.life \in {"none", "accepted", "stale"} => k.made = 0

\* There is one chain, and it is in the last request or awaits the next.
ChainSound(k, rs, on) ==
    /\ k.line # "none" => on /\ k.made <= MaxRequests /\ \A n \in Numbers : ~Active(rs[n])
    /\ k.line = "ok" => k.made < MaxRequests
    /\ k.made = MaxRequests + 1 => rs[k.made].bad
    /\ k.current \in {0, k.made}
    /\ \A n \in Numbers :
          /\ n > k.made => rs[n] = NoRequest
          /\ Active(rs[n]) => on /\ n = k.made /\ (rs[n].bad => k.close)

\* What the earlier requests left.
ErrorSound(n, rs) ==
    rs[n].reply = "error" =>
        rs[n].threw \/ \E m \in Numbers : m < n /\ rs[m].threw /\ rs[m].outcome = "sent"
AnsweredSound(k, rs) ==
    /\ \A n \in Numbers : n < k.made \/ (n = k.made /\ k.line # "none") => rs[n].outcome = "sent"
    /\ \A n \in Numbers : ErrorSound(n, rs)

LinkSound(k, rs, on) ==
    /\ k \in Connection /\ rs \in [Numbers -> Request] /\ on \in BOOLEAN
    /\ \A n \in Numbers : RequestSound(rs[n])
    /\ RefsSound(k, rs, on) /\ ChainSound(k, rs, on) /\ AnsweredSound(k, rs)

-----------------------------------------------------------------------------
Counting == {"start", "register", "erase", "erased", "undo", "remove", "forget", "drain", "leave"}
Opened == {l \in Listeners : listener[l] = "open"}
InHand == api.pc \in Counting

Refusal == api.pc \in {"erase", "erased", "undo"} \/ \E l \in Listeners : listener[l] = "refused"

ApiTypes ==
    /\ host \in [made : BOOLEAN, accepting : BOOLEAN, waiting : BOOLEAN,
                 deaf : BOOLEAN, paths : SUBSET Listeners]
    /\ registered \subseteq Listeners /\ started \in BOOLEAN
    /\ api \in {Idle} \cup [pc : Steps, of : Listeners]
    /\ listener \in [Listeners -> {"new", "open", "refused", "closed"}]

\* The listener that is in hand is not yet what it will be, or no longer.
Expected == IF api.pc \in {"remove", "forget", "drain", "leave"} THEN "closed" ELSE "new"

Counted ==
    /\ registrations = Cardinality(Opened) + One(InHand)
    /\ InHand => listener[api.of] = Expected
    /\ api.pc \in {"stop", "stopped"} => registrations = 0

ListenersInvariant ==
    /\ registered = host.paths \cup (IF api.pc = "forget" THEN {api.of} ELSE {})
    /\ Opened \subseteq host.paths
    /\ host.paths \subseteq Opened \cup (IF api.pc = "remove" THEN {api.of} ELSE {})
    /\ api.pc = "remove" => api.of \in host.paths
    /\ \A l, m \in host.paths : setup.path[l] = setup.path[m] => l = m
    /\ Opened # {} \/ (api.pc = "register" /\ host.made) => host.accepting
    /\ host.accepting => host.made
    /\ host.accepting => host.waiting \/ host.deaf \/ \E c \in Conns : conn[c].life = "accepted"
    /\ api.pc = "register" => started \/ host.made
    /\ crashed # "listener"
    /\ \A c \in Conns : conn[c].life # "stale"
    /\ \A c \in Conns : \A n \in Numbers : request[c][n].thread = "handler" =>
          \/ listener[request[c][n].target] = "open"
          \/ api.of = request[c][n].target /\ api.pc \in {"remove", "forget", "drain"}

\* The connections, and the event that says whether there are any.
Links ==
    /\ setup \in Setups
    /\ conn \in [Conns -> Connection]
    /\ request \in [Conns -> [Numbers -> Request]]
    /\ \A c \in Conns : LinkSound(conn[c], request[c], c \in connections)
    /\ connections \subseteq Conns /\ complete \in BOOLEAN
    /\ complete <=> connections = {}

CrashSound ==
    /\ crashed \in {"no", "reply", "target", "listener", "gone"}
    /\ crashed = "reply" =>
        \E c \in Conns : \E n \in Seen(c) : request[c][n].reply = "closing" \/ ThrewBefore(c, n)

ApiPart == ApiTypes /\ Counted /\ (~Refusal => ListenersInvariant)

AsioInv == Links /\ CrashSound /\ ApiPart
-----------------------------------------------------------------------------
(* One connection: what each piece of a handler does to LinkSound.            *)

LEMMA Finite == \A rs : IsFiniteSet(Holders(rs)) /\ Cardinality(Holders(rs)) \in Nat
<1>1. IsFiniteSet(Numbers)
  BY FS_Interval, AsioAssumption DEF Numbers
<1> QED BY <1>1, FS_Subset, FS_CardinalityType DEF Holders

\* A request that begins to hold a reference, or ceases to, changes the count.
LEMMA HoldersChange ==
    ASSUME NEW rs \in [Numbers -> Request], NEW n \in Numbers, NEW y
    PROVE  Cardinality(Holders([rs EXCEPT ![n] = y])) + One(Holds(rs[n]))
             = Cardinality(Holders(rs)) + One(Holds(y))
<1> DEFINE after == [rs EXCEPT ![n] = y]
<1>1. /\ IsFiniteSet(Holders(rs)) /\ Cardinality(Holders(rs)) \in Nat
      /\ IsFiniteSet(Holders(after)) /\ Cardinality(Holders(after)) \in Nat
  BY Finite
<1>3. n \in Holders(after) <=> Holds(y)
  BY DEF Holders
<1>4. \A m \in Numbers : m # n => (m \in Holders(after) <=> m \in Holders(rs))
  BY DEF Holders
<1> HIDE DEF after
<1>6. Holders(after) \ {n} = Holders(rs) \ {n}
  BY <1>4 DEF Holders
<1>7. Cardinality(Holders(after)) = Cardinality(Holders(rs) \ {n}) + One(Holds(y))
  <2>1. Cardinality(Holders(after) \ {n}) =
          IF n \in Holders(after) THEN Cardinality(Holders(after)) - 1 ELSE Cardinality(Holders(after))
    BY <1>1, FS_RemoveElement
  <2>2. CASE Holds(y)
    BY <1>1, <1>3, <1>6, <2>1, <2>2 DEF One
  <2>3. CASE ~Holds(y)
    <3>1. One(Holds(y)) = 0 /\ n \notin Holders(after)
      BY <1>3, <2>3 DEF One
    <3> QED BY <1>1, <1>6, <2>1, <3>1
  <2> QED BY <2>2, <2>3
<1>8. Cardinality(Holders(rs)) = Cardinality(Holders(rs) \ {n}) + One(Holds(rs[n]))
  <2>1. Cardinality(Holders(rs) \ {n}) =
          IF n \in Holders(rs) THEN Cardinality(Holders(rs)) - 1 ELSE Cardinality(Holders(rs))
    BY <1>1, FS_RemoveElement
  <2>2. CASE Holds(rs[n])
    BY <1>1, <2>1, <2>2 DEF One, Holders
  <2>3. CASE ~Holds(rs[n])
    BY <1>1, <2>1, <2>3 DEF One, Holders
  <2> QED BY <2>2, <2>3
<1> QED BY <1>1, <1>7, <1>8, FS_RemoveElement, FS_CardinalityType DEF One, after

\* No more handlers run, and each for the same listener.
SameHandlers(rs, after) ==
    \A n \in Numbers : after[n].thread = "handler" =>
        rs[n].thread = "handler" /\ after[n].target = rs[n].target

\* A handler goes from x to y, and to j with the rest of the connection.
Advance(k, rs, n, j, y) ==
    /\ n \in Numbers /\ n <= k.made
    /\ y \in Request /\ RequestSound(y)
    /\ j \in Connection
    /\ j.line = k.line /\ j.made = k.made /\ j.current = k.current
    /\ j.refs + One(Holds(rs[n])) = k.refs + One(Holds(y))
    /\ j.life \in {"live", "deleted"} /\ (j.life = "live" <=> j.refs # 0)
    /\ Active(y) => Active(rs[n]) /\ (y.bad => j.close)
    /\ n = k.made \/ (k.close => j.close)
    /\ rs[n].bad => y.bad
    /\ rs[n].outcome = "sent" => y.outcome = "sent"
    /\ rs[n].threw => y.threw
    /\ y.reply = "error" =>
          \/ rs[n].reply = "error" \/ y.threw
          \/ \E m \in Numbers : m < n /\ rs[m].threw /\ rs[m].outcome = "sent"

LEMMA AdvanceSound ==
    ASSUME NEW k, NEW rs, NEW on, LinkSound(k, rs, on), NEW n, NEW j, NEW y,
           Advance(k, rs, n, j, y)
    PROVE  LinkSound(j, [rs EXCEPT ![n] = y], on)
<1> DEFINE after == [rs EXCEPT ![n] = y]
<1>1. /\ n \in Numbers /\ rs \in [Numbers -> Request] /\ y \in Request
      /\ k \in Connection /\ on \in BOOLEAN
  BY DEF LinkSound, Advance
<1>2. after \in [Numbers -> Request] /\ after[n] = y /\ \A m \in Numbers \ {n} : after[m] = rs[m]
  BY <1>1
<1>3. Cardinality(Holders(after)) + One(Holds(rs[n])) = Cardinality(Holders(rs)) + One(Holds(y))
  BY <1>1, HoldersChange
<1> HIDE DEF after
<1>6. ChainSound(j, after, on)
  <2>3. ASSUME NEW m \in Numbers
        PROVE  /\ m > k.made => after[m] = NoRequest
               /\ Active(after[m]) => on /\ m = k.made /\ (after[m].bad => j.close)
    <3>2. CASE m = n
      BY <1>1, <1>2, <2>3, <3>2 DEF LinkSound, ChainSound, Advance, Connection, Numbers
    <3>3. CASE m # n
      BY <1>1, <1>2, <2>3, <3>3 DEF LinkSound, ChainSound, Advance, Connection, Numbers
    <3> QED BY <3>2, <3>3
  <2> QED BY <1>1, <1>2, <2>3, AsioAssumption DEF LinkSound, ChainSound, Advance, Numbers
<1> QED
  BY <1>1, <1>2, <1>3, <1>6, Finite DEF LinkSound, Advance, after, AnsweredSound, ErrorSound,
     RefsSound, One, Connection

\* The forms of a reply that _reply_if_not_already() gives.
LEMMA ReplyAdvances ==
    ASSUME NEW k, NEW rs, NEW on, LinkSound(k, rs, on), NEW n \in Numbers, n <= k.made,
           k.life \in {"live", "deleted"},
           NEW what \in {"closing", "error", "user"},
           what = "error" => rs[n].threw \/
               \E m \in Numbers : m < n /\ rs[m].threw /\ rs[m].outcome = "sent",
           what = "user" => rs[n].thread \notin {"parse", "find", "found", "lock"}
    PROVE  Advance(k, rs, n, k, ReplyIfNotAlready(rs[n], what))
<1> DEFINE x == rs[n]
           y == ReplyIfNotAlready(x, what)
<1>1. /\ x \in Request /\ RequestSound(x) /\ k \in Connection
      /\ k.refs \in Nat /\ (k.life = "live" <=> k.refs # 0)
      /\ Active(x) => (x.bad => k.close)
  BY DEF LinkSound, Connection, RefsSound, ChainSound
<1> HIDE DEF x
<1>3. /\ y.thread = x.thread /\ y.sender = x.sender /\ y.bad = x.bad /\ y.body = x.body
      /\ y.outcome = x.outcome /\ y.threw = x.threw /\ y.kept = x.kept
      /\ y.reply = IF x.reply = "none" THEN what ELSE x.reply
  BY <1>1 DEF Request, ReplyIfNotAlready
<1> HIDE DEF y
<1> QED BY <1>1, <1>3 DEF Advance, x, y, Holds, RequestSound, Active, Request, ReplyIfNotAlready

\* Who has got as far as a request on it was accepted, and not yet deleted or
\* deleted since.
LEMMA UsedLife ==
    ASSUME NEW k, NEW rs, NEW on, LinkSound(k, rs, on),
           on \/ k.made # 0
    PROVE  k.life \in {"live", "deleted"}
  BY Finite DEF LinkSound, RefsSound, Connection, One

\* A step of a request on a connection that stays as it is.
LEMMA ReplySound ==
    ASSUME NEW k, NEW rs, NEW on, LinkSound(k, rs, on), NEW n \in Numbers, n <= k.made,
           NEW what \in {"closing", "error", "user"},
           what = "error" => rs[n].threw \/
               \E m \in Numbers : m < n /\ rs[m].threw /\ rs[m].outcome = "sent",
           what = "user" => rs[n].thread \notin {"parse", "find", "found", "lock"}
    PROVE  /\ LinkSound(k, [rs EXCEPT ![n] = ReplyIfNotAlready(rs[n], what)], on)
           /\ SameHandlers(rs, [rs EXCEPT ![n] = ReplyIfNotAlready(rs[n], what)])
           /\ \A m \in Numbers :
                Active([rs EXCEPT ![n] = ReplyIfNotAlready(rs[n], what)][m]) <=> Active(rs[m])
<1> DEFINE y == ReplyIfNotAlready(rs[n], what)
<1>1. k.made \in Nat /\ rs \in [Numbers -> Request] /\ rs[n] \in Request
  BY DEF LinkSound, Connection
<1>2. k.made # 0
  BY <1>1 DEF Numbers
<1>3. Advance(k, rs, n, k, y)
  BY <1>2, UsedLife, ReplyAdvances
<1>4. /\ y.thread = rs[n].thread /\ y.sender = rs[n].sender /\ y.target = rs[n].target
  BY <1>1 DEF Request, ReplyIfNotAlready
<1> HIDE DEF y
<1> QED BY <1>1, <1>3, <1>4, AdvanceSound DEF y, SameHandlers, Active

\* connection::close() answers m_request,
LEMMA AnsweredLink ==
    ASSUME NEW k, NEW rs, NEW on, LinkSound(k, rs, on)
    PROVE  /\ LinkSound(k, Answered(k, rs), on) /\ SameHandlers(rs, Answered(k, rs))
           /\ \A m \in Numbers : Active(Answered(k, rs)[m]) <=> Active(rs[m])
<1>2. CASE k.current = 0
  BY <1>2 DEF Answered, SameHandlers
<1>3. CASE k.current # 0
  <2>1. k.current \in Numbers /\ k.current <= k.made
    BY <1>3, AsioAssumption DEF Numbers, LinkSound, ChainSound, Connection
  <2>3. /\ LinkSound(k, [rs EXCEPT ![k.current] = ReplyIfNotAlready(rs[k.current], "closing")], on)
        /\ SameHandlers(rs, [rs EXCEPT ![k.current] = ReplyIfNotAlready(rs[k.current], "closing")])
        /\ \A m \in Numbers :
             Active([rs EXCEPT ![k.current] = ReplyIfNotAlready(rs[k.current], "closing")][m])
               <=> Active(rs[m])
    BY <2>1, ReplySound, Zenon
  <2> QED BY <1>3, <2>3 DEF Answered
<1> QED BY <1>2, <1>3

\* and ends the operations on the socket.
LEMMA ClosedLink ==
    ASSUME NEW k, NEW rs, NEW on, LinkSound(k, rs, on)
    PROVE  LinkSound(Closed(k), rs, on)
<1> DEFINE j == Closed(k)
<1>3. /\ j.life = k.life /\ j.refs = k.refs /\ j.current = k.current /\ j.made = k.made
      /\ j.close /\ (j.line # "none" <=> k.line # "none") /\ (j.line = "ok" => k.line = "ok")
  BY DEF Connection, Closed, LinkSound
<1> HIDE DEF j
<1> QED BY <1>3 DEF LinkSound, j, Connection, Closed, RefsSound, ChainSound, AnsweredSound

\* finish_request_response() gives back the reference of the server.
LEMMA LeftLink ==
    ASSUME NEW k, NEW rs, LinkSound(k, rs, TRUE),
           k.line = "none", \A n \in Numbers : ~Active(rs[n])
    PROVE  LinkSound(Unreferenced(k), rs, FALSE)
<1> DEFINE j == Unreferenced(k)
<1>2. k.refs = Cardinality(Holders(rs)) + 1 /\ Cardinality(Holders(rs)) \in Nat /\ k.refs \in Nat
  BY Finite, UsedLife DEF LinkSound, RefsSound, One, Connection
<1>3. k.life = "live"
  <2>1. k.refs # 0
    BY <1>2
  <2> QED BY <2>1 DEF LinkSound, RefsSound
<1>4. /\ j \in Connection /\ j.refs = k.refs - 1
      /\ j.life = (IF k.refs = 1 THEN "deleted" ELSE k.life)
      /\ j.open = k.open /\ j.close = k.close /\ j.current = k.current /\ j.made = k.made
      /\ j.line = k.line
  <2>1. k.refs - 1 \in Nat
    BY <1>2
  <2> QED BY <2>1, UsedLife DEF Connection, Unreferenced, LinkSound
<1> HIDE DEF j
<1> QED BY <1>2, <1>3, <1>4 DEF LinkSound, j, ChainSound, AnsweredSound, RefsSound, One

-----------------------------------------------------------------------------
(* The connections as a whole.                                                *)

\* What a step on a connection leaves alone.
Calm ==
    /\ UNCHANGED <<setup, server>>
    /\ \A c \in Conns :
          /\ SameHandlers(request[c], request'[c])
          /\ conn'[c].life = "stale" => conn[c].life = "stale"
          /\ conn[c].life = "accepted" => conn'[c].life = "accepted"

LEMMA BecomeLinks ==
    ASSUME Links, NEW c \in Conns, NEW k, NEW rs, Become(c, k, rs),
           LinkSound(k, rs, c \in connections)
    PROVE  /\ Links' /\ UNCHANGED <<setup, server>>
           /\ /\ SameHandlers(request[c], rs) /\ k.life # "stale"
              /\ conn[c].life = "accepted" => k.life = "accepted"
              => Calm
  BY DEF Calm, SameHandlers, Become, Links, LinkSound

LEMMA FinishLinks ==
    ASSUME Links, NEW c \in connections, NEW k, NEW rs, Finish(c, k, rs),
           LinkSound(k, rs, TRUE), SameHandlers(request[c], rs),
           k.line = "none", \A n \in Numbers : ~Active(rs[n])
    PROVE  Links' /\ Calm
<1> DEFINE j == Unreferenced(Closed(k))
           after == Answered(k, rs)
<1>1. /\ conn' = [conn EXCEPT ![c] = j] /\ request' = [request EXCEPT ![c] = after]
      /\ connections' = connections \ {c} /\ complete' = (complete \/ connections' = {})
      /\ UNCHANGED <<setup, server>>
      /\ conn \in [Conns -> Connection] /\ request \in [Conns -> [Numbers -> Request]]
      /\ c \in Conns /\ connections \subseteq Conns /\ complete \in BOOLEAN
      /\ k \in Connection /\ rs \in [Numbers -> Request]
  BY DEF Finish, Links, LinkSound
<1>2. /\ LinkSound(k, after, TRUE) /\ SameHandlers(rs, after)
      /\ \A m \in Numbers : ~Active(after[m])
  BY AnsweredLink
<1>3. LinkSound(Closed(k), after, TRUE) /\ Closed(k).line = "none"
  BY <1>1, <1>2, ClosedLink DEF Closed, Connection
<1>4. LinkSound(j, after, FALSE)
  BY <1>2, <1>3, LeftLink
<1>5. j.life # "stale" /\ conn[c].life # "accepted"
  <2>1. LinkSound(conn[c], request[c], TRUE)
    BY <1>1 DEF Links
  <2>2. conn[c].life \in {"live", "deleted"}
    BY <2>1, UsedLife
  <2>3. Closed(k).life \in {"live", "deleted"}
    BY <1>3, UsedLife
  <2>4. Closed(k) \in Connection
    BY <1>3 DEF LinkSound
  <2>5. j.life \in {"live", "deleted"}
    BY <2>3, <2>4 DEF Unreferenced, Connection
  <2> QED BY <2>2, <2>5
<1> HIDE DEF j, after
<1>6. /\ conn' \in [Conns -> Connection] /\ request' \in [Conns -> [Numbers -> Request]]
      /\ conn'[c] = j /\ request'[c] = after
      /\ \A d \in Conns \ {c} : conn'[d] = conn[d] /\ request'[d] = request[d]
  BY <1>1, <1>4 DEF LinkSound
<1>7. \A d \in Conns : LinkSound(conn'[d], request'[d], d \in connections')
  <2>2. (c \in connections') = FALSE
    BY <1>1
  <2>4. ASSUME NEW d \in Conns \ {c} PROVE LinkSound(conn'[d], request'[d], d \in connections')
    BY <1>1, <1>6 DEF Links
  <2> QED BY <1>4, <1>6, <2>2, <2>4
<1>9. Calm
  BY <1>1, <1>2, <1>5, <1>6 DEF Calm, SameHandlers
<1> QED BY <1>1, <1>6, <1>7, <1>9 DEF Links

\* A request that goes from x to y and keeps what the connection has of it.
Moves(x, y) ==
    /\ y \in Request /\ RequestSound(y)
    /\ Holds(y) <=> Holds(x)
    /\ Active(y) => Active(x)
    /\ y.bad = x.bad
    /\ x.outcome = "sent" => y.outcome = "sent"
    /\ x.threw => y.threw
    /\ y.reply = "error" => x.reply = "error"

LEMMA MovesAdvance ==
    ASSUME NEW k, NEW rs, NEW on, LinkSound(k, rs, on), NEW n \in Numbers,
           rs[n] # NoRequest, NEW y, Moves(rs[n], y),
           NEW j, j = k \/ j = [k EXCEPT !.close = TRUE]
    PROVE  Advance(k, rs, n, j, y) /\ LinkSound(j, [rs EXCEPT ![n] = y], on) /\ j.life # "stale"
<1>1. /\ k \in Connection /\ n <= k.made /\ k.made # 0
  BY DEF LinkSound, ChainSound, Connection, Numbers
<1>2. k.life \in {"live", "deleted"} /\ (k.life = "live" <=> k.refs # 0) /\ k.refs \in Nat
  BY <1>1, UsedLife DEF LinkSound, RefsSound, Connection
<1>6. Advance(k, rs, n, j, y)
  BY <1>1, <1>2 DEF Advance, Moves, Connection, One, LinkSound, ChainSound
<1> QED BY <1>1, <1>2, <1>6, AdvanceSound DEF Connection

LEMMA ChangeLinks ==
    ASSUME Links, NEW c \in Conns, NEW n \in Numbers, request[c][n] # NoRequest,
           NEW y, Moves(request[c][n], y), Change(c, n, y)
    PROVE  /\ Links' /\ UNCHANGED <<setup, server>>
           /\ (y.thread = "handler" =>
                 request[c][n].thread = "handler" /\ y.target = request[c][n].target) => Calm
<1> DEFINE rs == [request[c] EXCEPT ![n] = y]
<1>2. LinkSound(conn[c], rs, c \in connections) /\ conn[c].life # "stale"
  BY MovesAdvance DEF Links
<1> QED BY <1>2, BecomeLinks DEF SameHandlers, Links, Change

-----------------------------------------------------------------------------
(* The steps of a request that leave the connection as it is.                 *)

LEMMA RequestOf ==
    ASSUME Links, NEW c \in Conns, NEW n \in Numbers
    PROVE  /\ request[c][n] \in Request /\ RequestSound(request[c][n])
           /\ LinkSound(conn[c], request[c], c \in connections)
           /\ DOMAIN request[c] = Numbers
  BY DEF Links, LinkSound

LEMMA NothingSent ==
    /\ NoRequest.thread = "none" /\ NoRequest.sender = "none" /\ NoRequest.body = "none"
    /\ NoRequest.kept = FALSE /\ NoRequest.bad = FALSE /\ NoRequest.reply = "none"
    /\ NoRequest.outcome = "none" /\ NoRequest.threw = FALSE
  BY DEF NoRequest

LEMMA BodyReadLinks ==
    ASSUME Links, NEW c \in Conns, NEW n \in Numbers, BodyRead(c, n)
    PROVE  Links' /\ Calm
<1> DEFINE x == request[c][n]
<1>2. PICK end \in {"complete", "failed"} : Change(c, n, [x EXCEPT !.body = end])
  BY DEF BodyRead
<1> DEFINE y == [x EXCEPT !.body = end]
<1> HIDE DEF x
<1> HIDE DEF y
<1> QED
  BY <1>2, RequestOf, NothingSent, ChangeLinks DEF x, y, Moves, Request, RequestSound, Holds,
     Active, BodyRead

LEMMA HandlerLinks ==
    ASSUME Links, NEW c \in Conns, NEW n \in Numbers,
           HandlerReply(c, n) \/ HandlerKeep(c, n) \/ HandlerReturn(c, n) \/ HandlerThrow(c, n)
    PROVE  Links' /\ Calm
<1> DEFINE x == request[c][n]
<1>1. x \in Request /\ RequestSound(x) /\ x.thread = "handler" /\ x # NoRequest
  BY RequestOf, NothingSent DEF HandlerReply, HandlerKeep, HandlerReturn, HandlerThrow
<1>2. \/ x.reply = "none" /\ Change(c, n, [x EXCEPT !.reply = "user"])
      \/ Change(c, n, [x EXCEPT !.kept = TRUE])
      \/ Change(c, n, [x EXCEPT !.thread = "end"])
      \/ Change(c, n, [x EXCEPT !.thread = "thrown", !.threw = TRUE])
  BY DEF HandlerReply, HandlerKeep, HandlerReturn, HandlerThrow
<1> DEFINE Good(y) == Moves(x, y) /\ (y.thread = "handler" => y.target = x.target)
<1> HIDE DEF x
<1>3. x.reply = "none" => Good([x EXCEPT !.reply = "user"])
  BY <1>1 DEF Moves, Request, RequestSound, Holds, Active
<1>4. Good([x EXCEPT !.kept = TRUE])
  <2> DEFINE y == [x EXCEPT !.kept = TRUE]
  <2>1. y \in Request
    BY <1>1 DEF Request
  <2>2. /\ y.thread = x.thread /\ y.sender = x.sender /\ y.bad = x.bad /\ y.body = x.body
        /\ y.outcome = x.outcome /\ y.threw = x.threw /\ y.target = x.target
        /\ y.reply = x.reply
    BY <1>1 DEF Request
  <2> HIDE DEF y
  <2> QED BY <1>1, <2>1, <2>2 DEF y, Moves, RequestSound, Holds, Active
<1>5. Good([x EXCEPT !.thread = "end"])
  BY <1>1 DEF Moves, Request, RequestSound, Holds, Active
<1>6. Good([x EXCEPT !.thread = "thrown", !.threw = TRUE])
  <2> DEFINE y == [x EXCEPT !.thread = "thrown", !.threw = TRUE]
  <2>1. y \in Request
    BY <1>1 DEF Request
  <2>2. /\ y.thread = "thrown" /\ y.sender = x.sender /\ y.bad = x.bad /\ y.body = x.body
        /\ y.outcome = x.outcome /\ y.threw /\ y.reply = x.reply
    BY <1>1 DEF Request
  <2> HIDE DEF y
  <2> QED BY <1>1, <2>1, <2>2 DEF y, Moves, RequestSound, Holds, Active
<1>7. PICK y : Good(y) /\ Change(c, n, y)
  BY <1>2, <1>3, <1>4, <1>5, <1>6
<1> QED BY <1>1, <1>7, ChangeLinks DEF x

LEMMA UserReplyLinks ==
    ASSUME Links, NEW c \in Conns, NEW n \in Numbers, UserReply(c, n)
    PROVE  Links' /\ Calm
<1> DEFINE x == request[c][n]
           y == [ReplyIfNotAlready(x, "user") EXCEPT !.kept = FALSE]
<1>1. x \in Request /\ RequestSound(x) /\ x.kept /\ x # NoRequest /\ Change(c, n, y)
  BY RequestOf, NothingSent DEF UserReply
<1> HIDE DEF x
<1>2. /\ y \in Request
      /\ y.thread = x.thread /\ y.sender = x.sender /\ y.bad = x.bad /\ y.body = x.body
      /\ y.outcome = x.outcome /\ y.threw = x.threw /\ ~y.kept /\ y.target = x.target
      /\ y.reply = IF x.reply = "none" THEN "user" ELSE x.reply
  BY <1>1 DEF Request, ReplyIfNotAlready
<1> HIDE DEF y
<1> QED BY <1>1, <1>2, ChangeLinks DEF x, Moves, RequestSound, Holds, Active

LEMMA ResponseSetLinks ==
    ASSUME Links, NEW c \in Conns, NEW n \in Numbers, ResponseSet(c, n)
    PROVE  Links' /\ Calm
<1> DEFINE x == request[c][n]
           y == [x EXCEPT !.sender = IF x.bad THEN "headers" ELSE "waiting"]
<1>1. /\ x \in Request /\ RequestSound(x) /\ x.sender = "armed" /\ x.reply # "none"
      /\ x # NoRequest /\ Change(c, n, y)
  BY RequestOf, NothingSent DEF ResponseSet
<1> HIDE DEF x
<1>2. Moves(x, y) /\ y.thread = x.thread /\ y.target = x.target
  BY <1>1 DEF Moves, Request, RequestSound, Holds, Active
<1> HIDE DEF y
<1> QED BY <1>1, <1>2, ChangeLinks DEF x

LEMMA ContentReadyLinks ==
    ASSUME Links, NEW c \in Conns, NEW n \in Numbers, ContentReady(c, n)
    PROVE  Links' /\ Calm
<1> DEFINE x == request[c][n]
           y == [x EXCEPT !.sender = "headers"]
           rs == [request[c] EXCEPT ![n] = y]
<1>1. /\ x \in Request /\ RequestSound(x) /\ x.sender = "waiting" /\ x.body # "reading"
      /\ x # NoRequest
  BY RequestOf, NothingSent DEF ContentReady
<1>2. PICK close \in {conn[c].close, TRUE} :
        Become(c, [conn[c] EXCEPT !.close = close], [request[c] EXCEPT ![n].sender = "headers"])
  BY DEF ContentReady
<1> DEFINE j == [conn[c] EXCEPT !.close = close]
<1>3. j = conn[c] \/ j = [conn[c] EXCEPT !.close = TRUE]
  BY DEF Links, Connection
<1>7. j.life = conn[c].life
  BY DEF Links, Connection
<1>5. Become(c, j, rs)
  BY <1>2, RequestOf
<1> HIDE DEF x, j
<1>6. Moves(x, y) /\ y.thread = x.thread /\ y.target = x.target
  BY <1>1 DEF Moves, Request, RequestSound, Holds, Active
<1> HIDE DEF y
<1>8. LinkSound(j, rs, c \in connections) /\ j.life # "stale"
  BY <1>1, <1>3, <1>6, RequestOf, MovesAdvance DEF x
<1>9. SameHandlers(request[c], rs)
  BY <1>1, <1>6, RequestOf DEF SameHandlers, x
<1> QED BY <1>5, <1>7, <1>8, <1>9, BecomeLinks

\* The handler is called for a listener that is registered.
LEMMA LockLinks ==
    ASSUME Links, NEW c \in Conns, NEW n \in Numbers, Lock(c, n), crashed' = crashed
    PROVE  /\ Links' /\ UNCHANGED <<setup, server>>
           /\ \/ Calm
              \/ /\ request[c][n].target \in registered
                 /\ Change(c, n, [request[c][n] EXCEPT !.thread = "handler"])
<1> DEFINE x == request[c][n]
<1>1. x \in Request /\ RequestSound(x) /\ x.thread = "lock" /\ x # NoRequest
  BY RequestOf, NothingSent DEF Lock
<1>2. CASE x.target \in registered /\ Change(c, n, [x EXCEPT !.thread = "handler"])
  <2> DEFINE y == [x EXCEPT !.thread = "handler"]
  <2> HIDE DEF x
  <2> HIDE DEF y
  <2> QED BY <1>1, <1>2, ChangeLinks DEF x, y, Moves, Request, RequestSound, Holds, Active
<1>3. CASE x.reply = "none" /\ Change(c, n, [x EXCEPT !.thread = "left", !.reply = "missing"])
  <2> DEFINE y == [x EXCEPT !.thread = "left", !.reply = "missing"]
  <2> HIDE DEF x
  <2>1. Moves(x, y) /\ y.thread = "left"
    BY <1>1, <1>3 DEF Moves, Request, RequestSound, Holds, Active
  <2> HIDE DEF y
  <2> QED BY <1>1, <1>3, <2>1, ChangeLinks DEF x, y
<1>4. CASE Crash("reply")
  BY <1>4 DEF Crash, Links, Calm, SameHandlers, server
<1> QED BY <1>2, <1>3, <1>4 DEF Lock

-----------------------------------------------------------------------------
(* The steps of a request that concern its connection too.                    *)

LEMMA AnswerThrowLinks ==
    ASSUME Links, NEW c \in Conns, NEW n \in Numbers, AnswerThrow(c, n)
    PROVE  Links' /\ Calm
<1> DEFINE x == request[c][n]
           k == conn[c]
           m == k.current
           y == [x EXCEPT !.thread = "end"]
           rs == [request[c] EXCEPT ![n] = y]
           after == IF m = 0 THEN rs ELSE [rs EXCEPT ![m] = ReplyIfNotAlready(rs[m], "error")]
<1>1. /\ x \in Request /\ RequestSound(x) /\ x.thread = "thrown" /\ x # NoRequest
      /\ LinkSound(k, request[c], c \in connections)
      /\ request[c] \in [Numbers -> Request]
  BY RequestOf, NothingSent DEF AnswerThrow, Links
<1>2. Become(c, k, after)
  BY <1>1, Zenon DEF AnswerThrow
<1>3. Moves(x, y) /\ y.thread = "end" /\ y.threw
  <2> HIDE DEF x
  <2> QED BY <1>1 DEF Moves, Request, RequestSound, Holds, Active
<1> HIDE DEF y
<1>4. LinkSound(k, rs, c \in connections) /\ k.life # "stale"
  <2> HIDE DEF k
  <2> QED BY <1>1, <1>3, MovesAdvance
<1>5. SameHandlers(request[c], rs)
  BY <1>1, <1>3 DEF SameHandlers
<1>6. rs[n].threw /\ rs \in [Numbers -> Request]
  BY <1>1, <1>3 DEF Moves
<1> HIDE DEF rs, x, k
<1>7. LinkSound(k, after, c \in connections) /\ SameHandlers(rs, after)
  <2>1. CASE m = 0
    BY <1>4, <2>1 DEF SameHandlers
  <2>2. CASE m # 0
    <3>1. m \in Numbers /\ m = k.made /\ n <= k.made /\ n \in Nat /\ k.made \in Nat
      BY <1>1, <2>2 DEF Numbers, x, LinkSound, ChainSound, Connection
    <3>2. rs[m].threw \/ \E p \in Numbers : p < m /\ rs[p].threw /\ rs[p].outcome = "sent"
      <4>1. CASE n = m
        BY <1>6, <4>1
      <4>2. CASE n # m
        BY <1>4, <1>6, <3>1, <4>2 DEF LinkSound, AnsweredSound
      <4> QED BY <4>1, <4>2
    <3>3. /\ LinkSound(k, [rs EXCEPT ![m] = ReplyIfNotAlready(rs[m], "error")], c \in connections)
          /\ SameHandlers(rs, [rs EXCEPT ![m] = ReplyIfNotAlready(rs[m], "error")])
      <4>1. m <= k.made
        BY <3>1
      <4> HIDE DEF m
      <4> QED BY <1>4, <3>1, <3>2, <4>1, ReplySound, Zenon
    <3> QED BY <2>2, <3>3
  <2> QED BY <2>1, <2>2
<1> HIDE DEF after
<1> QED BY <1>2, <1>4, <1>5, <1>7, BecomeLinks DEF k, SameHandlers

\* Whoever has a reference to a connection finds it there.
LEMMA HeldIsLive ==
    ASSUME NEW k, NEW rs, NEW on, LinkSound(k, rs, on), NEW n \in Numbers,
           Holds(rs[n]) \/ Active(rs[n])
    PROVE  k.life = "live" /\ k.refs \in Nat \ {0}
<1>3. CASE Holds(rs[n])
  BY <1>3, Finite, FS_EmptySet DEF LinkSound, RefsSound, One, Holders, Connection
<1>4. CASE Active(rs[n])
  BY <1>4, Finite, FS_EmptySet DEF LinkSound, RefsSound, One, ChainSound, Connection
<1> QED BY <1>3, <1>4

LEMMA EndDispatchLinks ==
    ASSUME Links, NEW c \in Conns, NEW n \in Numbers, EndDispatch(c, n)
    PROVE  Links' /\ Calm
<1> DEFINE x == request[c][n]
           k == conn[c]
           j == Unreferenced(k)
           y == [x EXCEPT !.thread = "done"]
           rs == [request[c] EXCEPT ![n] = y]
<1>1. /\ x \in Request /\ RequestSound(x) /\ x.thread = "end" /\ x # NoRequest
      /\ LinkSound(k, request[c], c \in connections)
      /\ request[c] \in [Numbers -> Request] /\ k \in Connection
  BY RequestOf, NothingSent DEF EndDispatch, Links
<1>2. Become(c, j, rs)
  BY <1>1, Zenon DEF EndDispatch
<1>3. /\ y \in Request /\ RequestSound(y) /\ y.thread = "done"
      /\ Holds(x) /\ ~Holds(y) /\ (Active(y) => Active(x))
      /\ y.bad = x.bad /\ y.outcome = x.outcome /\ y.threw = x.threw /\ y.reply = x.reply
  <2> HIDE DEF x
  <2> QED BY <1>1 DEF Request, RequestSound, Holds, Active
<1> HIDE DEF y, k
<1>4. k.life = "live" /\ k.refs \in Nat \ {0}
  BY <1>1, <1>3, HeldIsLive
<1>5. /\ j \in Connection /\ j.refs = k.refs - 1
      /\ j.life = (IF k.refs = 1 THEN "deleted" ELSE "live")
      /\ j.close = k.close /\ j.current = k.current /\ j.made = k.made /\ j.line = k.line
  <2>1. k.refs - 1 \in Nat
    BY <1>4
  <2> QED BY <1>1, <1>4, <2>1 DEF Connection, Unreferenced
<1> HIDE DEF j
<1>6. Advance(k, request[c], n, j, y)
  <2>3. j.life \in {"live", "deleted"} /\ (j.life = "live" <=> j.refs # 0)
    BY <1>4, <1>5
  <2> QED
    BY <1>1, <1>3, <1>4, <1>5, <2>3 DEF Advance, One, LinkSound, ChainSound, Connection, Numbers
<1>7. k.life # "accepted"
  BY <1>4
<1> QED BY <1>1, <1>2, <1>3, <1>5, <1>6, <1>7, AdvanceSound, BecomeLinks DEF SameHandlers, k

\* do_response() begins, on a request that is in the last chain.
LEMMA DoResponseAdvance ==
    ASSUME NEW k, NEW rs, NEW on, LinkSound(k, rs, on), NEW n \in Numbers, NEW y, NEW j,
           Active(rs[n]), ~Holds(rs[n]), Holds(y), y \in Request, RequestSound(y),
           y.outcome = rs[n].outcome, y.threw = rs[n].threw,
           y.reply = "error" => rs[n].reply = "error",
           (j = DoResponse(k) /\ ~y.bad) \/ j = [DoResponse(k) EXCEPT !.close = TRUE]
    PROVE  LinkSound(j, [rs EXCEPT ![n] = y], on) /\ j.life # "stale"
<1>2. k.life = "live" /\ k.refs \in Nat \ {0}
  BY HeldIsLive
<1>3. /\ j \in Connection /\ j.refs = k.refs + 1 /\ j.life = "live"
      /\ j.current = k.current /\ j.made = k.made /\ j.line = k.line
      /\ y.bad => j.close
  <2>1. k.refs + 1 \in Nat
    BY <1>2
  <2> QED BY <1>2, <2>1 DEF Connection, DoResponse, LinkSound, ChainSound, Numbers
<1>6. Advance(k, rs, n, j, y)
  BY <1>2, <1>3 DEF Advance, One, LinkSound, ChainSound, Connection, Numbers, Holds
<1> QED BY <1>3, <1>6, AdvanceSound

\* do_response() leaves the handlers alone.
LEMMA ResponseLinks ==
    ASSUME Links, NEW c \in Conns, NEW n \in Numbers, NEW y,
           Become(c, DoResponse(conn[c]), [request[c] EXCEPT ![n] = y]),
           Active(request[c][n]), ~Holds(request[c][n]),
           Holds(y), y \in Request, RequestSound(y), ~y.bad, y.thread # "handler",
           y.reply = "error" => request[c][n].reply = "error",
           y.outcome = request[c][n].outcome, y.threw = request[c][n].threw
    PROVE  Links' /\ Calm
<1> DEFINE k == conn[c]
           j == DoResponse(k)
<1>1. LinkSound(k, request[c], c \in connections) /\ request[c] \in [Numbers -> Request]
  BY DEF Links
<1> HIDE DEF k, j
<1>2. LinkSound(j, [request[c] EXCEPT ![n] = y], c \in connections) /\ j.life # "stale"
  BY <1>1, DoResponseAdvance DEF j
<1>3. k.life # "accepted"
  BY <1>1, HeldIsLive
<1> QED BY <1>1, <1>2, <1>3, BecomeLinks DEF SameHandlers, j, k

LEMMA FindLinks ==
    ASSUME Links, host.paths \subseteq Listeners, NEW c \in Conns, NEW n \in Numbers, Find(c, n)
    PROVE  Links' /\ Calm
<1> DEFINE x == request[c][n]
<1>1. x \in Request /\ RequestSound(x) /\ x.thread = "find" /\ x # NoRequest
  BY RequestOf, NothingSent DEF Find
<1>2. CASE Crash("reply") \/ Crash("target")
  BY <1>2 DEF Crash, Links, Calm, SameHandlers, server
<1>4. ASSUME NEW l \in Listeners, Change(c, n, [x EXCEPT !.thread = "found", !.target = l])
      PROVE  Links' /\ Calm
  <2> DEFINE y == [x EXCEPT !.thread = "found", !.target = l]
  <2> HIDE DEF x
  <2>2. Moves(x, y) /\ y.thread = "found"
    BY <1>1 DEF Moves, Request, RequestSound, Holds, Active
  <2> HIDE DEF y
  <2> QED BY <1>1, <1>4, <2>2, ChangeLinks DEF x, y
<1>5. ASSUME x.reply = "none",
             Become(c, DoResponse(conn[c]), [request[c] EXCEPT ![n] = [x EXCEPT
                    !.thread = "end", !.reply = "missing", !.sender = "armed"]])
      PROVE  Links' /\ Calm
  <2> DEFINE y == [x EXCEPT !.thread = "end", !.reply = "missing", !.sender = "armed"]
  <2> HIDE DEF x
  <2>1. /\ y \in Request /\ RequestSound(y) /\ ~Holds(x) /\ Holds(y) /\ Active(x) /\ ~y.bad
        /\ y.thread = "end" /\ y.reply = "missing" /\ y.outcome = x.outcome /\ y.threw = x.threw
    BY <1>1, <1>5 DEF Request, RequestSound, Holds, Active
  <2> HIDE DEF y
  <2> QED BY <1>5, <2>1, ResponseLinks DEF x, y
<1> QED BY <1>2, <1>4, <1>5 DEF Find

LEMMA NameLinks ==
    ASSUME Links, NEW c \in Conns, NEW n \in Numbers, Name(c, n)
    PROVE  Links' /\ Calm
<1> DEFINE x == request[c][n]
           y == [x EXCEPT !.thread = "lock", !.sender = "armed"]
<1>1. x \in Request /\ RequestSound(x) /\ x.thread = "found"
  BY RequestOf DEF Name
<1>2. CASE Crash("gone")
  BY <1>2 DEF Crash, Links, Calm, SameHandlers, server
<1>3. CASE Become(c, DoResponse(conn[c]), [request[c] EXCEPT ![n] = y])
  <2> HIDE DEF x
  <2>1. /\ y \in Request /\ RequestSound(y) /\ ~Holds(x) /\ Holds(y) /\ Active(x) /\ ~y.bad
        /\ y.thread = "lock" /\ y.reply = x.reply /\ y.outcome = x.outcome /\ y.threw = x.threw
    BY <1>1 DEF Request, RequestSound, Holds, Active
  <2> HIDE DEF y
  <2> QED BY <1>3, <2>1, ResponseLinks DEF x
<1> QED BY <1>2, <1>3 DEF Name

LEMMA RefuseLinks ==
    ASSUME Links, NEW c \in Conns, NEW n \in Numbers, Refuse(c, n),
           request[c][n].thread = "parse"
    PROVE  Links' /\ Calm
<1> DEFINE x == request[c][n]
           k == conn[c]
           j == [DoResponse(k) EXCEPT !.close = TRUE]
           y == [x EXCEPT !.reply = "bad", !.bad = TRUE, !.sender = "armed", !.thread = "done"]
           rs == [request[c] EXCEPT ![n] = y]
<1>1. /\ x \in Request /\ RequestSound(x) /\ x.thread = "parse"
      /\ LinkSound(k, request[c], c \in connections)
      /\ request[c] \in [Numbers -> Request]
  BY RequestOf DEF Links
<1>3. Become(c, j, rs)
  BY <1>1 DEF Refuse
<1> HIDE DEF x
<1>4. /\ y.thread = "done" /\ y.sender = "armed" /\ y.bad /\ y.reply = "bad"
      /\ y.outcome = x.outcome /\ y.threw = x.threw /\ y.body = x.body
  BY <1>1 DEF Request
<1>5. y \in Request
  BY <1>1 DEF Request
<1> HIDE DEF y
<1>6. RequestSound(y) /\ ~Holds(x) /\ Holds(y) /\ Active(x)
  BY <1>1, <1>4 DEF RequestSound, Holds, Active
<1> HIDE DEF k, j
<1>7. LinkSound(j, rs, c \in connections) /\ j.life # "stale"
  <2>2. /\ Active(request[c][n]) /\ ~Holds(request[c][n])
        /\ y.outcome = request[c][n].outcome /\ y.threw = request[c][n].threw /\ y.reply # "error"
    BY <1>4, <1>6 DEF x
  <2> QED BY <1>1, <1>5, <1>6, <2>2, DoResponseAdvance DEF j
<1>8. k.life # "accepted"
  BY <1>1, <1>6, HeldIsLive DEF x
<1> QED BY <1>1, <1>3, <1>4, <1>7, <1>8, BecomeLinks DEF SameHandlers, k

LEMMA ParseLinks ==
    ASSUME Links, NEW c \in Conns, NEW n \in Numbers, Parse(c, n)
    PROVE  Links' /\ Calm
<1> DEFINE x == request[c][n]
           k == conn[c]
<1>1. /\ x \in Request /\ RequestSound(x) /\ x.thread = "parse" /\ x # NoRequest
      /\ LinkSound(k, request[c], c \in connections)
      /\ request[c] \in [Numbers -> Request] /\ k \in Connection
  BY RequestOf, NothingSent DEF Parse, Links
<1>2. CASE Crash("reply")
  BY <1>2 DEF Crash, Links, Calm, SameHandlers, server
<1>3. CASE Refuse(c, n)
  BY <1>1, <1>3, RefuseLinks
<1>4. ASSUME NEW to \in {setup.path[l] : l \in Listeners} \cup {"elsewhere"}, NEW close \in BOOLEAN,
             NEW body \in {"complete", "reading", "failed"},
             Become(c, [k EXCEPT !.close = close],
                    [request[c] EXCEPT ![n] = [x EXCEPT !.to = to, !.thread = "find", !.body = body]])
      PROVE  Links' /\ Calm
  <2> DEFINE j == [k EXCEPT !.close = close]
             y == [x EXCEPT !.to = to, !.thread = "find", !.body = body]
             rs == [request[c] EXCEPT ![n] = y]
  <2>1. to \in {"elsewhere"} \cup UNION {{s.path[l] : l \in Listeners} : s \in Setups}
    <3>1. CASE to = "elsewhere"
      BY <3>1
    <3>2. CASE to \in {setup.path[l] : l \in Listeners}
      <4> HIDE DEF x, k
      <4> QED BY <3>2 DEF Links
    <3> QED BY <1>4, <3>1, <3>2
  <2> HIDE DEF x, k
  <2>2. y \in Request
    BY <1>1, <2>1 DEF Request
  <2>3. /\ y.thread = "find" /\ y.sender = x.sender /\ y.bad = x.bad /\ y.reply = x.reply
        /\ y.outcome = x.outcome /\ y.threw = x.threw /\ y.kept = x.kept
    BY <1>1 DEF Request
  <2> HIDE DEF y
  <2>4. /\ RequestSound(y) /\ ~Holds(x) /\ ~Holds(y) /\ Active(x) /\ ~x.bad
    BY <1>1, <2>3 DEF RequestSound, Holds, Active
  <2>5. j \in Connection /\ j.line = k.line /\ j.made = k.made /\ j.current = k.current
        /\ j.refs = k.refs /\ j.life = k.life
    BY <1>1, <1>4 DEF Connection
  <2> HIDE DEF j
  <2>6. k.life = "live" /\ k.refs \in Nat \ {0} /\ n = k.made /\ n <= k.made
    <3>1. k.life = "live" /\ k.refs \in Nat \ {0}
      BY <1>1, <2>4, HeldIsLive DEF x
    <3> QED BY <1>1, <2>4, <3>1 DEF LinkSound, ChainSound, Connection, Numbers, x
  <2>7. Advance(k, request[c], n, j, y)
    BY <2>2, <2>3, <2>4, <2>5, <2>6 DEF Advance, One, x
  <2>10. Become(c, j, rs)
    BY <1>4 DEF j, y
  <2>11. conn[c].life # "accepted"
    BY <2>6 DEF k
  <2> QED BY <1>1, <2>3, <2>5, <2>6, <2>7, <2>10, <2>11, AdvanceSound, BecomeLinks DEF SameHandlers
<1> QED
  <2>3. ASSUME NEW to \in {setup.path[l] : l \in Listeners} \cup {"elsewhere"},
               NEW body \in {FALSE, May(c, "body")},
               NEW close \in {conn[c].close} \cup (IF May(c, "closes") THEN BOOLEAN ELSE {}),
               Become(c, [conn[c] EXCEPT !.close = close],
                   [request[c] EXCEPT ![n] = [x EXCEPT
                        !.to = to, !.thread = "find",
                        !.body = IF ~body THEN "complete"
                                 ELSE IF conn[c].open THEN "reading" ELSE "failed"]])
        PROVE  Links' /\ Calm
    <3>1. close \in BOOLEAN
      BY <1>1, <2>3 DEF Connection
    <3> DEFINE got == IF ~body THEN "complete" ELSE IF conn[c].open THEN "reading" ELSE "failed"
    <3>2. got \in {"complete", "reading", "failed"}
      OBVIOUS
    <3>3. Become(c, [k EXCEPT !.close = close],
             [request[c] EXCEPT ![n] = [x EXCEPT !.to = to, !.thread = "find", !.body = got]])
      BY <2>3
    <3> HIDE DEF got, x, k
    <3> QED BY <1>4, <2>3, <3>1, <3>2, <3>3
  <2> QED BY <1>2, <1>3, <2>3 DEF Parse

-----------------------------------------------------------------------------
(* Accepting a connection, and the line that begins a request.                *)

\* A new m_request.
LEMMA NextRequestSound ==
    ASSUME NEW k, NEW rs, NEW on, LinkSound(k, rs, on),
           k.line = "ok" \/ k.line = "failed",
           NEW j \in Connection, NEW y \in Request, RequestSound(y), Active(y),
           y.bad => j.close, k.line = "failed" => y.bad, y.reply # "error",
           j.line = "none", j.made = k.made + 1, j.current = k.made + 1,
           j.refs = k.refs + One(Holds(y)), j.life = k.life
    PROVE  k.made + 1 \in Numbers /\ LinkSound(j, [rs EXCEPT ![k.made + 1] = y], on)
<1> DEFINE n == k.made + 1
           after == [rs EXCEPT ![n] = y]
<1>1. /\ k \in Connection /\ rs \in [Numbers -> Request] /\ on \in BOOLEAN /\ on
      /\ k.made \in Nat /\ k.made <= MaxRequests /\ (k.line = "ok" => k.made < MaxRequests)
      /\ \A m \in Numbers : ~Active(rs[m])
  BY DEF LinkSound, ChainSound, Connection
<1>2. n \in Numbers /\ n > k.made /\ n \in Nat
  BY <1>1, AsioAssumption DEF Numbers
<1>4. after \in [Numbers -> Request] /\ after[n] = y /\ \A m \in Numbers \ {n} : after[m] = rs[m]
  BY <1>1, <1>2
<1>5. Cardinality(Holders(after)) + One(Holds(rs[n])) = Cardinality(Holders(rs)) + One(Holds(y))
  BY <1>1, <1>2, HoldersChange
<1> HIDE DEF after
<1>7. RefsSound(j, after, on)
  <2>1. /\ k.refs = Cardinality(Holders(rs)) + One(on) /\ k.refs \in Nat
        /\ j.refs = k.refs + One(Holds(y))
    BY <1>1 DEF LinkSound, RefsSound, Connection
  <2> QED
    BY <1>1, <1>2, <1>5, <2>1, NothingSent, Finite DEF RefsSound, LinkSound, One, Holds,
       ChainSound
<1>8. ChainSound(j, after, on)
  <2>2. ASSUME NEW m \in Numbers
        PROVE  /\ m > j.made => after[m] = NoRequest
               /\ Active(after[m]) => on /\ m = j.made /\ (after[m].bad => j.close)
    <3>1. CASE m = n
      BY <1>1, <1>2, <1>4, <3>1
    <3>2. CASE m # n
      BY <1>1, <1>4, <2>2, <3>2 DEF LinkSound, ChainSound, Numbers
    <3> QED BY <3>1, <3>2
  <2> QED BY <1>1, <1>4, <2>2, AsioAssumption DEF ChainSound
<1>9. AnsweredSound(j, after)
  <2>1. ASSUME NEW m \in Numbers, m < n \/ (m = n /\ j.line # "none")
        PROVE  after[m].outcome = "sent"
    BY <1>1, <1>2, <1>4, <2>1 DEF LinkSound, AnsweredSound, Numbers
  <2>2. ASSUME NEW m \in Numbers PROVE ErrorSound(m, after)
    <3>1. CASE m = n
      BY <1>4, <3>1 DEF ErrorSound
    <3>2. CASE m # n
      BY <1>2, <1>4, <2>2, <3>2, NothingSent DEF ErrorSound, LinkSound, AnsweredSound, ChainSound
    <3> QED BY <3>1, <3>2
  <2> QED BY <2>1, <2>2 DEF AnsweredSound
<1> QED BY <1>1, <1>2, <1>4, <1>7, <1>8, <1>9 DEF LinkSound, after

LEMMA HandleLineLinks ==
    ASSUME Links, NEW c \in Conns, HandleLine(c)
    PROVE  Links' /\ Calm
<1> DEFINE k == conn[c]
           j == [k EXCEPT !.line = "none"]
           n == k.made + 1
           next == [j EXCEPT !.current = n, !.made = n]
<1>1. /\ LinkSound(k, request[c], c \in connections) /\ k \in Connection
      /\ request[c] \in [Numbers -> Request] /\ k.made \in Nat
  BY DEF Links, Connection
<1>2. k.line # "none" => c \in connections /\ k.life = "live" /\ k.refs \in Nat \ {0}
  <2> HIDE DEF k
  <2> QED BY <1>1, Finite DEF LinkSound, RefsSound, Connection, One, ChainSound
<1>3. CASE k.line = "eof" /\ Finish(c, [j EXCEPT !.current = 0], request[c])
  <2> DEFINE end == [j EXCEPT !.current = 0]
  <2> HIDE DEF k
  <2>1. /\ end \in Connection /\ end.line = "none" /\ end.current = 0 /\ end.made = k.made
        /\ end.refs = k.refs /\ end.life = k.life /\ end.close = k.close
    <3>1. 0 \in 0..(MaxRequests + 1)
      BY AsioAssumption
    <3> QED BY <1>1, <3>1 DEF Connection
  <2> HIDE DEF end
  <2>3. LinkSound(end, request[c], TRUE)
    BY <1>1, <1>2, <1>3, <2>1 DEF LinkSound, ChainSound, RefsSound, AnsweredSound
  <2> QED
    BY <1>1, <1>2, <1>3, <2>1, <2>3, FinishLinks DEF end, SameHandlers, LinkSound, ChainSound
<1>4. ASSUME NEW i \in Connection, NEW y \in Request,
             k.line = "ok" \/ k.line = "failed", RequestSound(y), Active(y),
             y.bad => i.close, k.line = "failed" => y.bad, y.reply # "error", y.thread # "handler",
             i.line = "none", i.made = n, i.current = n,
             i.refs = k.refs + One(Holds(y)), i.life = k.life,
             Become(c, i, [request[c] EXCEPT ![n] = y])
      PROVE  Links' /\ Calm
  BY <1>1, <1>2, <1>4, NextRequestSound, BecomeLinks DEF SameHandlers
<1>5. k.line = "ok" \/ k.line = "failed" =>
        n \in Numbers /\ n \in 0..(MaxRequests + 1) /\ request[c][n] = NoRequest
  <2>2. k.line # "none" => n \in Numbers /\ n \in 0..(MaxRequests + 1) /\ n > k.made
    BY <1>1, AsioAssumption DEF Numbers, LinkSound, ChainSound
  <2> QED BY <1>1, <2>2 DEF LinkSound, ChainSound
<1>7. CASE /\ k.line = "failed"
           /\ Become(c, [DoResponse(next) EXCEPT !.close = TRUE],
                     [request[c] EXCEPT ![n].reply = "bad", ![n].bad = TRUE,
                                        ![n].sender = "armed"])
  <2> DEFINE i == [DoResponse(next) EXCEPT !.close = TRUE]
             y == [NoRequest EXCEPT !.reply = "bad", !.bad = TRUE, !.sender = "armed"]
  <2>1. [request[c] EXCEPT ![n] = y] =
          [request[c] EXCEPT ![n].reply = "bad", ![n].bad = TRUE, ![n].sender = "armed"]
    BY <1>1, <1>5, <1>7
  <2>2. y \in Request /\ y.reply = "bad" /\ y.bad /\ y.sender = "armed" /\ y.thread = "none"
        /\ y.body = "none" /\ y.outcome = "none"
    BY DEF NoRequest, Request
  <2> HIDE DEF k, n, y
  <2>3. /\ i \in Connection /\ i.line = "none" /\ i.made = n /\ i.current = n /\ i.close
        /\ i.refs = k.refs + 1 /\ i.life = k.life
    <3>1. k.refs + 1 \in Nat
      BY <1>2, <1>7
    <3> QED BY <1>1, <1>5, <1>7, <3>1 DEF Connection, DoResponse
  <2> HIDE DEF i
  <2> QED BY <1>4, <1>7, <2>1, <2>2, <2>3 DEF RequestSound, Active, One, Holds, i, n
<1>8. CASE k.line = "ok" /\ Become(c, next, [request[c] EXCEPT ![n].thread = "parse"])
  <2> DEFINE y == [NoRequest EXCEPT !.thread = "parse"]
  <2>1. [request[c] EXCEPT ![n] = y] = [request[c] EXCEPT ![n].thread = "parse"]
    BY <1>1, <1>5, <1>8
  <2>2. y \in Request /\ y.reply = "none" /\ ~y.bad /\ y.sender = "none" /\ y.thread = "parse"
        /\ y.body = "none" /\ y.outcome = "none" /\ ~y.kept /\ ~y.threw
    BY DEF NoRequest, Request
  <2> HIDE DEF k, n, y
  <2>3. /\ next \in Connection /\ next.line = "none" /\ next.made = n /\ next.current = n
        /\ next.refs = k.refs /\ next.life = k.life
    BY <1>1, <1>5, <1>8 DEF Connection
  <2> HIDE DEF next
  <2> QED
    BY <1>1, <1>4, <1>8, <2>1, <2>2, <2>3 DEF n, Connection, RequestSound, Active, One, Holds
<1> QED BY <1>1, <1>3, <1>7, <1>8 DEF HandleLine, Connection

LEMMA LineReadLinks ==
    ASSUME Links, NEW c \in Conns, LineRead(c)
    PROVE  Links' /\ Calm
<1> DEFINE k == conn[c]
<1>1. /\ LinkSound(k, request[c], c \in connections) /\ k \in Connection /\ k.line = "reading"
  BY DEF Links, LineRead
<1>2. PICK line \in {"ok", "eof", "failed"} :
        /\ line = "ok" => k.made < setup.limit[c]
        /\ Become(c, [k EXCEPT !.line = line], request[c])
  BY DEF LineRead
<1> DEFINE j == [k EXCEPT !.line = line]
<1>3. line = "ok" => k.made < MaxRequests
  <2> HIDE DEF k
  <2> QED BY <1>1, <1>2, AsioAssumption DEF Links, Setup, Connection
<1> HIDE DEF k
<1>4. /\ j \in Connection /\ j.life = k.life /\ j.refs = k.refs /\ j.current = k.current
      /\ j.made = k.made /\ j.close = k.close /\ j.line = line
  BY <1>1 DEF Connection
<1>5. Become(c, j, request[c])
  BY <1>2
<1> HIDE DEF j
<1>7. j.life # "stale"
  BY <1>1, <1>4, UsedLife DEF LinkSound, ChainSound
<1> QED
  BY <1>1, <1>3, <1>4, <1>5, <1>7, BecomeLinks DEF SameHandlers, LinkSound, RefsSound,
     AnsweredSound, ChainSound, k

\* A socket, before on_accept() runs and after.
LEMMA UnusedLink ==
    ASSUME NEW k, NEW rs, NEW on, LinkSound(k, rs, on),
           k.life \in {"none", "accepted", "stale"}
    PROVE  /\ k.made = 0 /\ k.current = 0 /\ k.line = "none" /\ on = FALSE
           /\ k.refs = 0 /\ Cardinality(Holders(rs)) = 0
           /\ \A n \in Numbers : ~Active(rs[n])
  BY Finite DEF LinkSound, ChainSound, Connection, RefsSound, One

LEMMA AcceptLinks ==
    ASSUME Links, NEW c \in Conns, Accept(c)
    PROVE  Links'
<1> DEFINE k == conn[c]
           j == [k EXCEPT !.life = "accepted"]
<1>1. /\ LinkSound(k, request[c], c \in connections) /\ k \in Connection /\ k.life = "none"
      /\ conn \in [Conns -> Connection]
  BY DEF Links, Accept
<1>2. /\ conn' = [conn EXCEPT ![c] = j]
      /\ UNCHANGED <<setup, request, connections, complete>>
  BY DEF Accept
<1> HIDE DEF k
<1>3. /\ j \in Connection /\ j.life = "accepted" /\ j.refs = k.refs /\ j.current = k.current
      /\ j.made = k.made /\ j.close = k.close /\ j.line = k.line
  BY <1>1 DEF Connection
<1> HIDE DEF j
<1> QED BY <1>1, <1>2, <1>3, UnusedLink DEF Links, LinkSound, RefsSound, ChainSound, AnsweredSound

LEMMA OnAcceptLinks ==
    ASSUME Links, NEW c \in Conns, OnAccept(c)
    PROVE  Links'
<1>1. CASE Crash("listener")
  BY <1>1 DEF Crash, Links
<1>2. CASE ~Crash("listener")
  <2> DEFINE k == conn[c]
             j == [k EXCEPT !.life = "live", !.refs = 1, !.line = "reading"]
  <2>1. /\ LinkSound(k, request[c], c \in connections) /\ k \in Connection /\ k.life = "accepted"
        /\ conn \in [Conns -> Connection] /\ connections \subseteq Conns
    BY <1>2 DEF Links, OnAccept
  <2>2. /\ conn' = [conn EXCEPT ![c] = j] /\ connections' = connections \cup {c}
        /\ complete' = FALSE /\ UNCHANGED <<setup, request>>
    BY <1>2, <2>1 DEF OnAccept
  <2> HIDE DEF k
  <2>3. /\ j \in Connection /\ j.life = "live" /\ j.refs = 1 /\ j.current = k.current
        /\ j.made = k.made /\ j.close = k.close /\ j.line = "reading"
    BY <2>1 DEF Connection
  <2> HIDE DEF j
  <2>4. LinkSound(j, request[c], TRUE)
    <3>1. /\ k.made = 0 /\ k.current = 0 /\ Cardinality(Holders(request[c])) = 0
          /\ \A n \in Numbers : ~Active(request[c][n])
      BY <2>1, UnusedLink
    <3>2. RefsSound(j, request[c], TRUE)
      BY <2>3, <3>1 DEF RefsSound, One
    <3>3. ChainSound(j, request[c], TRUE)
      BY <2>1, <2>3, <3>1, AsioAssumption DEF LinkSound, ChainSound
    <3>4. AnsweredSound(j, request[c])
      BY <2>1, <2>3, <3>1 DEF LinkSound, AnsweredSound, Numbers
    <3> QED BY <2>1, <2>3, <3>2, <3>3, <3>4 DEF LinkSound
  <2>5. ASSUME NEW d \in Conns PROVE LinkSound(conn'[d], request'[d], d \in connections')
    <3>1. CASE d = c
      BY <2>1, <2>2, <2>4, <3>1
    <3>2. CASE d # c
      BY <2>1, <2>2, <3>2 DEF Links
    <3> QED BY <3>1, <3>2
  <2> QED BY <2>1, <2>2, <2>3, <2>5 DEF Links
<1> QED BY <1>1, <1>2

-----------------------------------------------------------------------------
(* The chain that sends a response.                                           *)

LEMMA NextLineLink ==
    ASSUME NEW k, NEW rs, LinkSound(k, rs, TRUE), k.line = "none", k.made <= MaxRequests,
           \A n \in Numbers : ~Active(rs[n]),
           \A n \in Numbers : n = k.made => rs[n].outcome = "sent"
    PROVE  LinkSound(NextLine(k), rs, TRUE)
<1> DEFINE j == NextLine(k)
<1>1. /\ j \in Connection /\ j.life = k.life /\ j.refs = k.refs /\ j.current = k.current
      /\ j.made = k.made /\ j.close = k.close /\ j.line \in {"reading", "failed"}
  BY DEF Connection, NextLine, LinkSound
<1> HIDE DEF j
<1> QED BY <1>1 DEF LinkSound, j, RefsSound, AnsweredSound, ChainSound

\* The response ends, sent or not.
Ended(rs, n, outcome) == [rs EXCEPT ![n].sender = "done", ![n].outcome = outcome]

LEMMA EndLinks ==
    ASSUME Links, NEW c \in Conns, NEW n \in Numbers, NEW outcome \in {"sent", "aborted"},
           request[c][n].sender \in {"headers", "stream", "chunk", "rest", "last"}
    PROVE  /\ c \in connections
           /\ LinkSound(conn[c], Ended(request[c], n, outcome), TRUE)
           /\ SameHandlers(request[c], Ended(request[c], n, outcome))
           /\ conn[c].line = "none" /\ n = conn[c].made
           /\ Ended(request[c], n, outcome)[n].outcome = outcome
           /\ Ended(request[c], n, outcome)[n].bad = request[c][n].bad
           /\ request[c][n].bad => conn[c].close
           /\ \A m \in Numbers : ~Active(Ended(request[c], n, outcome)[m])
<1> DEFINE x == request[c][n]
           k == conn[c]
           y == [x EXCEPT !.sender = "done", !.outcome = outcome]
           rs == [request[c] EXCEPT ![n] = y]
<1>1. /\ x \in Request /\ RequestSound(x) /\ x # NoRequest
      /\ LinkSound(k, request[c], c \in connections)
      /\ request[c] \in [Numbers -> Request]
  BY RequestOf, NothingSent DEF Links
<1>2. rs = Ended(request[c], n, outcome)
  BY <1>1 DEF Ended
<1> HIDE DEF x
<1>3. /\ y.thread = x.thread /\ y.sender = "done" /\ y.outcome = outcome /\ y.bad = x.bad
      /\ y.body = x.body /\ y.threw = x.threw /\ y.reply = x.reply /\ y.kept = x.kept
      /\ y.target = x.target /\ y \in Request
  BY <1>1 DEF Request
<1> HIDE DEF y
<1>5. Moves(x, y) /\ Active(x) /\ ~Active(y)
  BY <1>1, <1>3 DEF Moves, RequestSound, Active, Holds, x
<1>6. /\ (c \in connections) = TRUE /\ n = k.made /\ k.line = "none" /\ (x.bad => k.close)
  BY <1>1, <1>5 DEF LinkSound, ChainSound, x
<1> HIDE DEF k
<1>7. LinkSound(k, rs, TRUE)
  BY <1>1, <1>5, <1>6, MovesAdvance DEF x
<1>8. SameHandlers(request[c], rs)
  BY <1>1, <1>3 DEF SameHandlers, x
<1>10. \A m \in Numbers : ~Active(rs[m])
  BY <1>1, <1>5, <1>6, <1>7 DEF LinkSound, ChainSound
<1> QED BY <1>1, <1>2, <1>3, <1>6, <1>7, <1>8, <1>10 DEF k, x

LEMMA CancelLinks ==
    ASSUME Links, NEW c \in Conns, NEW n \in Numbers, Cancel(c, n),
           request[c][n].sender \in {"headers", "stream", "chunk", "rest", "last"}
    PROVE  Links' /\ Calm
<1>1. Finish(c, conn[c], Ended(request[c], n, "aborted"))
  BY DEF Cancel, Ended
<1> QED BY <1>1, EndLinks, FinishLinks

LEMMA WrittenLinks ==
    ASSUME Links, NEW c \in Conns, NEW n \in Numbers, Written(c, n),
           request[c][n].sender \in {"headers", "stream", "chunk", "rest", "last"}
    PROVE  Links' /\ Calm
<1> DEFINE rs == Ended(request[c], n, "sent")
<1>1. IF conn[c].close THEN Finish(c, conn[c], rs) ELSE Become(c, NextLine(conn[c]), rs)
  BY DEF Written, Ended
<1>2. /\ c \in connections /\ LinkSound(conn[c], rs, TRUE) /\ SameHandlers(request[c], rs)
      /\ conn[c].line = "none" /\ n = conn[c].made
      /\ rs[n].outcome = "sent" /\ rs[n].bad = request[c][n].bad
      /\ request[c][n].bad => conn[c].close
      /\ \A m \in Numbers : ~Active(rs[m])
  BY EndLinks
<1> HIDE DEF rs
<1>3. CASE conn[c].close
  BY <1>1, <1>2, <1>3, FinishLinks
<1>4. CASE ~conn[c].close
  <2>1. conn[c].made <= MaxRequests
    BY <1>2, <1>4, AsioAssumption DEF LinkSound, Connection, ChainSound
  <2> QED BY <1>1, <1>2, <1>4, <2>1, NextLineLink, UsedLife, BecomeLinks
<1> QED BY <1>3, <1>4

LEMMA SendLinks ==
    ASSUME Links, NEW c \in Conns, NEW n \in Numbers, Send(c, n)
    PROVE  Links' /\ Calm
<1> DEFINE x == request[c][n]
           Later == {"headers", "stream", "chunk", "rest", "last"}
<1>1. /\ x \in Request /\ RequestSound(x)
      /\ LinkSound(conn[c], request[c], c \in connections)
  BY RequestOf
<1>3. CASE x.sender \in Later /\ (Written(c, n) \/ Cancel(c, n))
  BY <1>3, WrittenLinks, CancelLinks
<1>4. ASSUME NEW to \in {"stream", "rest", "chunk", "last"}, x.sender \in Later,
             Change(c, n, [x EXCEPT !.sender = to])
      PROVE  Links' /\ Calm
  <2> DEFINE y == [x EXCEPT !.sender = to]
  <2>1. x # NoRequest
    BY <1>4, NothingSent
  <2> HIDE DEF x
  <2> HIDE DEF y
  <2> QED BY <1>1, <1>4, <2>1, ChangeLinks DEF x, y, Moves, Request, RequestSound, Holds, Active
<1> QED BY <1>3, <1>4 DEF Send, Writes

-----------------------------------------------------------------------------
(* What stop() and the destructor of a hostport_listener do to all connections. *)

LEMMA HaltedLinks ==
    ASSUME Links, NEW pc, Halted(pc), UNCHANGED <<setup, connections, complete>>
    PROVE  /\ Links'
           /\ \A c \in Conns :
                 SameHandlers(request[c], request'[c]) /\ conn'[c].life = conn[c].life
<1>1. ASSUME NEW c \in Conns
      PROVE  /\ LinkSound(conn'[c], request'[c], c \in connections')
             /\ SameHandlers(request[c], request'[c]) /\ conn'[c].life = conn[c].life
  <2>2. CASE c \in connections
    BY <2>2, AnsweredLink, ClosedLink DEF Halted, Closed, Connection, Links
  <2>3. CASE c \notin connections
    BY <2>3 DEF SameHandlers, Halted, Links
  <2> QED BY <2>2, <2>3
<1> QED BY <1>1 DEF Links, Halted, LinkSound

LEMMA ErasedLinks ==
    ASSUME Links, Erased
    PROVE  Links'
<1>1. /\ conn' = [c \in Conns |->
            IF conn[c].life = "accepted" THEN [conn[c] EXCEPT !.life = "stale"] ELSE conn[c]]
      /\ UNCHANGED <<setup, request, connections, complete>>
  BY DEF Erased
<1>2. ASSUME NEW c \in Conns
      PROVE  LinkSound(conn'[c], request'[c], c \in connections')
  <2> DEFINE k == conn[c]
             j == [k EXCEPT !.life = "stale"]
  <2>1. LinkSound(k, request[c], c \in connections) /\ k \in Connection
    BY DEF Links
  <2>2. CASE k.life = "accepted"
    <3>1. conn'[c] = j
      BY <1>1, <2>2
    <3> HIDE DEF k
    <3>2. /\ j \in Connection /\ j.life = "stale" /\ j.refs = k.refs /\ j.current = k.current
          /\ j.made = k.made /\ j.close = k.close /\ j.line = k.line
      BY <2>1 DEF Connection
    <3> HIDE DEF j
    <3>3. LinkSound(j, request[c], c \in connections)
      BY <2>1, <2>2, <3>2, UnusedLink DEF LinkSound, RefsSound, ChainSound, AnsweredSound
    <3> QED BY <1>1, <3>1, <3>3
  <2>3. CASE k.life # "accepted"
    BY <1>1, <2>1, <2>3
  <2> QED BY <2>2, <2>3
<1> QED BY <1>1, <1>2 DEF Links, LinkSound

-----------------------------------------------------------------------------
(* The server: what a step leaves of ApiTypes, Counted and ListenersInvariant. *)

LEMMA OpenedFinite == IsFiniteSet(Opened) /\ Cardinality(Opened) \in Nat
  BY AsioAssumption, FS_Subset, FS_CardinalityType DEF Opened

LEMMA ApiFields ==
    ASSUME ApiTypes
    PROVE  /\ api.pc \in Steps \cup {"idle"} /\ (api = Idle <=> api.pc = "idle")
           /\ api.pc \in Steps => api.of \in Listeners
           /\ host \in [made : BOOLEAN, accepting : BOOLEAN, waiting : BOOLEAN,
                        deaf : BOOLEAN, paths : SUBSET Listeners]
           /\ host.made \in BOOLEAN /\ host.accepting \in BOOLEAN /\ host.paths \subseteq Listeners
           /\ listener \in [Listeners -> {"new", "open", "refused", "closed"}]
           /\ registered \subseteq Listeners /\ started \in BOOLEAN
<1>1. CASE api = Idle
  BY <1>1 DEF ApiTypes, Idle, Steps
<1>2. CASE api \in [pc : Steps, of : Listeners]
  BY <1>2 DEF ApiTypes, Idle, Steps
<1> QED BY <1>1, <1>2 DEF ApiTypes

\* What ListenersInvariant says of the handlers that run.
HandlersServed ==
    \A c \in Conns : \A n \in Numbers : request[c][n].thread = "handler" =>
        \/ listener[request[c][n].target] = "open"
        \/ api.of = request[c][n].target /\ api.pc \in {"remove", "forget", "drain"}

\* The handlers that ran keep their listener if it is served as before.
LEMMA HandlersStay ==
    ASSUME HandlersServed, \A c \in Conns : SameHandlers(request[c], request'[c]),
           \A l : listener[l] = "open" =>
              listener'[l] = "open" \/ (api'.of = l /\ api'.pc \in {"remove", "forget", "drain"}),
           api.pc \in {"remove", "forget", "drain"} =>
              \/ api'.of = api.of /\ api'.pc \in {"remove", "forget", "drain"}
              \/ \A c \in Conns : \A n \in Numbers :
                    request[c][n].thread = "handler" => request[c][n].target # api.of
    PROVE  HandlersServed'
<1> SUFFICES ASSUME NEW c \in Conns, NEW n \in Numbers, request'[c][n].thread = "handler"
             PROVE  \/ listener'[request'[c][n].target] = "open"
                    \/ /\ api'.of = request'[c][n].target
                       /\ api'.pc \in {"remove", "forget", "drain"}
  BY DEF HandlersServed
<1> QED BY DEF HandlersServed, SameHandlers

\* A step on the connections.
LEMMA CalmPart ==
    ASSUME ApiPart, Calm, crashed' # "listener"
    PROVE  ApiPart'
<1>2. ApiTypes' /\ Counted' /\ (Refusal' <=> Refusal) /\ Opened' = Opened
  BY DEF ApiPart, ApiTypes, Counted, Expected, Refusal, Opened, InHand, server, Calm
<1>3. ASSUME ListenersInvariant PROVE ListenersInvariant'
  BY <1>2, <1>3, HandlersStay DEF ListenersInvariant, HandlersServed, Calm, server
<1> QED BY <1>2, <1>3 DEF ApiPart

LEMMA LockPart ==
    ASSUME Links, ApiPart, NEW c \in Conns, NEW n \in Numbers, Lock(c, n),
           UNCHANGED <<setup, server>>, crashed' = crashed,
           request[c][n].target \in registered,
           Change(c, n, [request[c][n] EXCEPT !.thread = "handler"])
    PROVE  ApiPart'
<1>1. UNCHANGED <<setup, host, registered, started, registrations, api, listener>>
  BY DEF server
<1>2. ApiTypes' /\ Counted' /\ (Refusal' <=> Refusal) /\ Opened' = Opened
  BY <1>1 DEF ApiPart, ApiTypes, Counted, Expected, Refusal, Opened, InHand, server
<1>3. ASSUME ListenersInvariant PROVE ListenersInvariant'
  <2>5. HandlersServed'
    <3> SUFFICES ASSUME NEW d \in Conns, NEW m \in Numbers, request'[d][m].thread = "handler"
                 PROVE  \/ listener[request'[d][m].target] = "open"
                        \/ /\ api.of = request'[d][m].target
                           /\ api.pc \in {"remove", "forget", "drain"}
      BY <1>1 DEF HandlersServed
    <3>1. CASE d = c /\ m = n
      BY <1>3, <3>1 DEF ListenersInvariant, Opened, Request, Change, Become, Links
    <3>2. CASE ~(d = c /\ m = n)
      BY <1>3, <3>2 DEF ListenersInvariant, Request, Change, Become, Links
    <3> QED BY <3>1, <3>2
  <2> QED BY <1>1, <1>2, <1>3, <2>5 DEF ListenersInvariant, HandlersServed, Change, Become, Links
<1> QED BY <1>2, <1>3 DEF ApiPart

LEMMA AcceptPart ==
    ASSUME Links, ApiPart, NEW c \in Conns, Accept(c) \/ OnAccept(c), crashed = "no"
    PROVE  ApiPart'
<1>1. CASE Crash("listener")
  <2>1. conn[c].life = "stale" \/ crashed' = "no"
    BY <1>1 DEF Accept, OnAccept
  <2>2. UNCHANGED <<setup, conn, request, server>>
    BY <1>1 DEF Crash
  <2> QED
    BY <2>1, <2>2 DEF ApiPart, ApiTypes, Counted, Expected, Refusal, Opened, InHand, server,
       ListenersInvariant
<1>2. CASE ~Crash("listener")
  <2>1. /\ UNCHANGED <<setup, request, registered, started, registrations, api, listener>>
        /\ crashed' = "no"
        /\ \E w, d \in BOOLEAN : host' = [host EXCEPT !.waiting = w, !.deaf = d]
        /\ \A d \in Conns : conn'[d].life = "stale" => conn[d].life = "stale"
        /\ host.accepting => host'.waiting \/ \E d \in Conns : conn'[d].life = "accepted"
    <3>3. \A d \in Conns : conn'[d].life = "stale" => conn[d].life = "stale"
      <4>1. CASE Accept(c)
        BY <4>1 DEF Accept, Connection, Links
      <4>2. CASE OnAccept(c)
        BY <1>2, <4>2 DEF OnAccept, Connection, Links
      <4> QED BY <4>1, <4>2
    <3>4. \E w, d \in BOOLEAN : host' = [host EXCEPT !.waiting = w, !.deaf = d]
      <4>1. host \in [made : BOOLEAN, accepting : BOOLEAN, waiting : BOOLEAN,
                      deaf : BOOLEAN, paths : SUBSET Listeners]
        BY ApiFields DEF ApiPart
      <4>2. CASE Accept(c)
        <5>1. host' = [host EXCEPT !.waiting = FALSE, !.deaf = host.deaf]
          BY <4>1, <4>2 DEF Accept
        <5> QED BY <4>1, <5>1
      <4>3. CASE OnAccept(c)
        BY <1>2, <4>1, <4>3 DEF OnAccept
      <4> QED BY <4>2, <4>3
    <3>5. host.accepting => host'.waiting \/ \E d \in Conns : conn'[d].life = "accepted"
      <4>1. CASE Accept(c)
        <5>1. conn'[c].life = "accepted"
          BY <4>1 DEF Accept, Connection, Links
        <5> QED BY <5>1
      <4>2. CASE OnAccept(c)
        BY <1>2, <4>2, ApiFields DEF OnAccept, ApiPart
      <4> QED BY <4>1, <4>2
    <3> QED BY <1>2, <3>3, <3>4, <3>5 DEF Accept, OnAccept
  <2>2. /\ ApiTypes /\ ApiTypes' /\ host'.made = host.made /\ host'.accepting = host.accepting
        /\ host'.paths = host.paths
    BY <2>1, ApiFields DEF ApiPart, ApiTypes
  <2>3. Counted' /\ (Refusal' <=> Refusal) /\ Opened' = Opened
    BY <2>1 DEF ApiPart, Counted, Expected, Refusal, Opened, InHand
  <2>4. ASSUME ListenersInvariant PROVE ListenersInvariant'
    BY <2>1, <2>2, <2>3, <2>4 DEF ListenersInvariant
  <2> QED BY <2>2, <2>3, <2>4 DEF ApiPart
<1> QED BY <1>1, <1>2

LEMMA DeafPart ==
    ASSUME Links, ApiPart, AcceptFails, crashed = "no"
    PROVE  Links' /\ ApiPart'
<1>1. /\ UNCHANGED <<setup, conn, request, connections, complete, registered, started,
                     registrations, api, listener, crashed>>
      /\ host' = [host EXCEPT !.waiting = FALSE, !.deaf = TRUE]
  BY DEF AcceptFails
<1>2. Links'
  BY <1>1 DEF Links
<1>3. /\ ApiTypes' /\ host'.made = host.made /\ host'.accepting = host.accepting
      /\ host'.paths = host.paths /\ host'.deaf
  BY <1>1, ApiFields DEF ApiPart, ApiTypes
<1>4. Counted' /\ (Refusal' <=> Refusal) /\ Opened' = Opened
  BY <1>1 DEF ApiPart, Counted, Expected, Refusal, Opened, InHand
<1>5. ASSUME ListenersInvariant PROVE ListenersInvariant'
  BY <1>1, <1>3, <1>4, <1>5 DEF ListenersInvariant
<1> QED BY <1>2, <1>3, <1>4, <1>5 DEF ApiPart

\* Most lines of the code under s_lock leave the connections alone.
Alone ==
    /\ UNCHANGED <<setup, conn, request, connections, complete>> /\ crashed' = crashed

LEMMA AloneLinks ==
    ASSUME Links, Alone
    PROVE  Links'
  BY DEF Links, Alone

\* The count of the listeners, at a step that opens and closes none.
LEMMA CountStays ==
    ASSUME ApiPart, Opened' = Opened,
           InHand' => listener'[api'.of] = Expected',
           registrations' = registrations + One(InHand') - One(InHand),
           api'.pc \in {"stop", "stopped"} => registrations' = 0
    PROVE  Counted'
  BY OpenedFinite DEF Counted, ApiPart, One

LEMMA OpenListenerPart ==
    ASSUME ApiPart, NEW l \in Listeners, OpenListener(l)
    PROVE  ApiPart'
<1>1. /\ api = Idle /\ listener[l] = "new"
      /\ registrations' = registrations + 1
      /\ api' = [pc |-> IF registrations = 0 THEN "start" ELSE "register", of |-> l]
      /\ UNCHANGED <<host, registered, started, listener, setup, conn, request, crashed>>
  BY DEF OpenListener, Same
<1>2. /\ api.pc = "idle" /\ api'.of = l /\ api'.pc \in {"start", "register"}
      /\ api'.pc = "register" <=> registrations # 0
      /\ api' \in [pc : Steps, of : Listeners]
  BY <1>1 DEF Idle, Steps
<1>6. ASSUME ListenersInvariant PROVE ListenersInvariant'
  BY <1>1, <1>2, <1>6, OpenedFinite, FS_EmptySet, HandlersStay DEF ListenersInvariant,
     HandlersServed, SameHandlers, ApiPart, Counted, One, Opened, InHand, Counting
<1> QED
  BY <1>1, <1>2, <1>6, OpenedFinite DEF ApiPart, Refusal, ApiTypes, Counted, Expected, InHand,
     Counting, One, Opened

LEMMA StartPart ==
    ASSUME ApiPart, Start
    PROVE  ApiPart'
<1>1. /\ api.pc = "start" /\ api.of \in Listeners /\ api \in [pc : Steps, of : Listeners]
      /\ UNCHANGED <<registered, registrations, listener, setup, conn, request, crashed>>
  BY ApiFields DEF Start, Same, ApiPart, ApiTypes, Idle
<1>3. /\ api' \in [pc : Steps, of : Listeners] /\ api'.of = api.of
      /\ api'.pc \in {"undo", "register"}
  BY <1>1 DEF Steps, Start, Goto
<1>4. /\ host' \in [made : BOOLEAN, accepting : BOOLEAN, waiting : BOOLEAN,
                    deaf : BOOLEAN, paths : SUBSET Listeners]
      /\ host'.made = host.made /\ host'.paths = host.paths
      /\ host'.accepting = host.accepting \/ (host.made /\ host'.accepting)
      /\ host'.waiting \/ (host'.waiting = host.waiting /\ host'.deaf = host.deaf
                               /\ host'.accepting = host.accepting)
      /\ started' \in BOOLEAN /\ (api'.pc = "register" => started')
      /\ api'.pc = "register" /\ host.made => host'.accepting
  <2>1. /\ host \in [made : BOOLEAN, accepting : BOOLEAN, waiting : BOOLEAN,
                     deaf : BOOLEAN, paths : SUBSET Listeners]
        /\ started \in BOOLEAN
    BY ApiFields DEF ApiPart
  <2> QED BY <1>1, <2>1 DEF Accepting, Start, Goto
<1>8. ASSUME ~Refusal', ListenersInvariant PROVE ListenersInvariant'
  BY <1>1, <1>3, <1>4, <1>8, HandlersStay, ApiFields DEF ListenersInvariant, HandlersServed,
     ApiPart, Opened, SameHandlers, Refusal
<1> QED
  BY <1>1, <1>3, <1>4, <1>8, ApiFields DEF ApiPart, Refusal, ApiTypes, Counted, Opened, InHand,
     Counting, Expected, One

LEMMA RegisterPart ==
    ASSUME ApiPart, Register, crashed = "no"
    PROVE  ApiPart'
<1> DEFINE l == api.of
           taken == \E m \in host.paths : setup.path[m] = setup.path[l]
           after == [(IF host.made \/ ~started THEN host ELSE Accepting)
                          EXCEPT !.made = TRUE, !.paths = host.paths \cup {l}]
<1>1. /\ api.pc = "register" /\ l \in Listeners /\ api \in [pc : Steps, of : Listeners]
      /\ UNCHANGED <<started, registrations, setup, conn, request, crashed>>
      /\ listener \in [Listeners -> {"new", "open", "refused", "closed"}]
      /\ host \in [made : BOOLEAN, accepting : BOOLEAN, waiting : BOOLEAN,
                   deaf : BOOLEAN, paths : SUBSET Listeners]
      /\ registered \subseteq Listeners /\ started \in BOOLEAN
  BY ApiFields DEF Register, Same, ApiPart, ApiTypes, Idle
<1>2. InHand /\ listener[l] = "new" /\ registrations = Cardinality(Opened) + 1
      /\ Cardinality(Opened) \in Nat /\ IsFiniteSet(Opened)
  BY <1>1, OpenedFinite DEF InHand, Counting, ApiPart, Counted, Expected, One
<1>3. CASE api'.pc \in {"undo", "erase"}
  <2>1. /\ UNCHANGED <<host, registered, listener>>
        /\ api' \in [pc : Steps, of : Listeners] /\ api'.of = l
    BY <1>1, <1>3 DEF Steps, Register, Goto, Idle
  <2> QED
    BY <1>1, <1>2, <1>3, <2>1 DEF ApiPart, ApiTypes, Counted, Expected, One, InHand, Counting,
       Refusal, Opened
<1>4. CASE /\ ~taken /\ host' = after
           /\ registered' = registered \cup {l} /\ listener' = [listener EXCEPT ![l] = "open"]
           /\ api' = Idle
  <2>1. /\ host' \in [made : BOOLEAN, accepting : BOOLEAN, waiting : BOOLEAN,
                      deaf : BOOLEAN, paths : SUBSET Listeners]
        /\ host'.made /\ host'.paths = host.paths \cup {l}
        /\ host'.accepting = IF host.made \/ ~started THEN host.accepting ELSE TRUE
        /\ host'.waiting \/ (host'.waiting = host.waiting /\ host'.deaf = host.deaf
                                 /\ host'.accepting = host.accepting)
    BY <1>1, <1>4 DEF Accepting
  <2>2. Opened' = Opened \cup {l} /\ l \notin Opened
    BY <1>1, <1>2, <1>4 DEF Opened
  <2>5. Counted'
    <3>1. Cardinality(Opened') = Cardinality(Opened) + 1
      BY <1>2, <2>2, FS_AddElement
    <3> QED BY <1>1, <1>2, <1>4, <3>1 DEF Counted, One, Idle, InHand, Counting
  <2>6. ASSUME ListenersInvariant PROVE ListenersInvariant'
    <3>1. HandlersServed'
      BY <1>1, <1>2, <1>4, <2>6, HandlersStay DEF SameHandlers, ListenersInvariant, HandlersServed
    <3>4. \A p, q \in host'.paths : setup'.path[p] = setup'.path[q] => p = q
      BY <1>1, <1>4, <2>1, <2>6 DEF ListenersInvariant
    <3> QED
      <4>1. host'.accepting =>
              host'.waiting \/ host'.deaf \/ \E c \in Conns : conn'[c].life = "accepted"
        BY <1>1, <2>1, <2>6 DEF ListenersInvariant
      <4>2. /\ registered' = host'.paths /\ Opened' \subseteq host'.paths
            /\ host'.paths \subseteq Opened' /\ api'.pc = "idle"
            /\ Opened' # {} => host'.accepting
        BY <1>1, <1>4, <2>1, <2>2, <2>6 DEF ListenersInvariant, Idle
      <4> QED
        BY <1>1, <2>1, <2>6, <3>1, <3>4, <4>1, <4>2 DEF ListenersInvariant, HandlersServed
  <2> QED BY <1>1, <1>2, <1>4, <2>1, <2>5, <2>6 DEF ApiPart, Refusal, ApiTypes
<1> QED BY <1>1, <1>3, <1>4 DEF Register, Goto, Accepting

\* A registration that fails.
LEMMA RefusalPart ==
    ASSUME Links, ApiPart, Erase \/ Erased \/ Undo
    PROVE  ApiPart'
<1>1. /\ api.of \in Listeners /\ api \in [pc : Steps, of : Listeners]
      /\ api.pc \in {"erase", "erased", "undo"}
      /\ host \in [made : BOOLEAN, accepting : BOOLEAN, waiting : BOOLEAN,
                   deaf : BOOLEAN, paths : SUBSET Listeners]
      /\ listener \in [Listeners -> {"new", "open", "refused", "closed"}]
      /\ UNCHANGED <<registered, started>>
  BY ApiFields DEF Erase, Erased, Undo, ApiPart, ApiTypes, Idle, Same
<1>2. InHand /\ listener[api.of] = "new" /\ registrations = Cardinality(Opened) + 1
      /\ Cardinality(Opened) \in Nat
  BY <1>1, OpenedFinite DEF InHand, Counting, ApiPart, Counted, Expected, One
<1>3. CASE Undo
  <2>1. /\ api.pc = "undo" /\ registrations' = registrations - 1
        /\ listener' = [listener EXCEPT ![api.of] = "refused"] /\ UNCHANGED host
        /\ IF registrations = 1 THEN api' = [api EXCEPT !.pc = "stop"] ELSE api' = Idle
    BY <1>3 DEF Undo, Goto
  <2>2. listener'[api.of] = "refused" /\ Opened' = Opened
        /\ listener' \in [Listeners -> {"new", "open", "refused", "closed"}]
    BY <1>1, <1>2, <2>1 DEF Opened
  <2> QED
    BY <1>1, <1>2, <2>1, <2>2 DEF ApiPart, ApiTypes, Idle, Steps, Counted, One, InHand, Counting,
       Refusal
<1>4. CASE Erase \/ Erased
  <2>1. /\ UNCHANGED <<registrations, listener>>
        /\ api' = [api EXCEPT !.pc = "erased"] \/ api' = [api EXCEPT !.pc = "undo"]
        /\ host' = NoHost \/ host' = [host EXCEPT !.accepting = FALSE, !.waiting = FALSE]
    BY <1>4 DEF Erase, Erased, Halted, Goto
  <2>3. host' \in [made : BOOLEAN, accepting : BOOLEAN, waiting : BOOLEAN,
                   deaf : BOOLEAN, paths : SUBSET Listeners]
    <3>1. CASE host' = NoHost
      BY <3>1 DEF NoHost
    <3>2. CASE host' = [host EXCEPT !.accepting = FALSE, !.waiting = FALSE]
      BY <1>1, <3>2
    <3> QED BY <2>1, <3>1, <3>2
  <2>5. ApiTypes'
    BY <1>1, <2>1, <2>3 DEF ApiPart, ApiTypes, Steps
  <2> QED
    BY <1>1, <1>2, <2>1, <2>5 DEF ApiPart, InHand, Counting, Refusal, Opened, Expected, Counted,
       One, Steps
<1> QED BY <1>3, <1>4

LEMMA CloseListenerPart ==
    ASSUME ApiPart, NEW l \in Listeners, CloseListener(l)
    PROVE  ApiPart'
<1>1. /\ api = Idle /\ listener[l] = "open"
      /\ api' = [pc |-> "remove", of |-> l]
      /\ listener' = [listener EXCEPT ![l] = "closed"]
      /\ listener \in [Listeners -> {"new", "open", "refused", "closed"}]
      /\ UNCHANGED <<host, registered, started, registrations, setup, conn, request, crashed>>
  BY DEF CloseListener, Same, ApiPart, ApiTypes
<1>2. /\ api.pc = "idle" /\ ~InHand /\ InHand' /\ Expected' = "closed"
      /\ api' \in [pc : Steps, of : Listeners] /\ api'.pc = "remove" /\ api'.of = l
  BY <1>1 DEF Idle, Steps, InHand, Counting, Expected
<1>3. Opened' = Opened \ {l} /\ l \in Opened
  BY <1>1 DEF Opened
<1>5. Counted'
  <2>2. Cardinality(Opened') = Cardinality(Opened) - 1
    BY <1>3, OpenedFinite, FS_RemoveElement
  <2> QED BY <1>1, <1>2, <2>2, OpenedFinite DEF Counted, One, ApiPart
<1>6. ASSUME ListenersInvariant PROVE ListenersInvariant'
  BY <1>1, <1>2, <1>3, <1>6, HandlersStay DEF ListenersInvariant, HandlersServed, SameHandlers
<1> QED BY <1>1, <1>2, <1>5, <1>6 DEF ApiPart, Refusal, ApiTypes

\* unregister_listener(), as far as the listener is concerned.
LEMMA RemovePart ==
    ASSUME Links, ApiPart, Remove \/ Forget \/ Drain
    PROVE  ApiPart'
<1>1. /\ api.of \in Listeners /\ api \in [pc : Steps, of : Listeners]
      /\ api.pc \in {"remove", "forget", "drain"}
      /\ host \in [made : BOOLEAN, accepting : BOOLEAN, waiting : BOOLEAN,
                   deaf : BOOLEAN, paths : SUBSET Listeners]
      /\ UNCHANGED <<setup, conn, request, crashed, started, registrations, listener>>
  BY ApiFields DEF Remove, Forget, Drain, ApiPart, ApiTypes, Idle, Same
<1>2. /\ api' \in [pc : Steps, of : Listeners] /\ api'.of = api.of
      /\ api'.pc \in {"forget", "drain", "leave"}
  BY <1>1 DEF Remove, Forget, Drain, Goto, Steps
<1>4. /\ InHand /\ InHand' /\ Expected = "closed" /\ Expected' = "closed" /\ Opened' = Opened
      /\ listener[api.of] = "closed" /\ (Refusal' <=> Refusal)
  BY <1>1, <1>2 DEF InHand, Counting, Expected, Opened, ApiPart, Counted, Refusal
<1>5. ApiTypes'
  BY <1>1, <1>2 DEF ApiPart, ApiTypes, Remove, Forget, Drain
<1>7. ASSUME ListenersInvariant PROVE ListenersInvariant'
  <2>1. HandlersServed
    BY <1>7 DEF ListenersInvariant, HandlersServed
  <2>3. CASE Remove
    BY <1>1, <1>2, <1>4, <1>7, <2>1, <2>3, HandlersStay DEF ListenersInvariant, HandlersServed,
       Remove, Forget, Drain, Goto, SameHandlers, Opened
  <2>4. CASE Forget
    BY <1>1, <1>2, <1>4, <1>7, <2>1, <2>4, HandlersStay DEF ListenersInvariant, HandlersServed,
       Forget, Goto, SameHandlers, Opened
  <2>5. CASE Drain
    BY <1>1, <1>2, <1>4, <1>7, <2>1, <2>5, HandlersStay DEF ListenersInvariant, HandlersServed,
       Drain, Goto, SameHandlers, Links
  <2> QED BY <2>3, <2>4, <2>5
<1> QED BY <1>1, <1>2, <1>4, <1>5, <1>7 DEF ApiPart, Counted

\* The end of unregister_listener(), and stop() of the server that is not used.
LEMMA LeavePart ==
    ASSUME Links, ApiPart, Leave \/ Stop \/ Stopped, UNCHANGED <<connections, complete>>
    PROVE  ApiPart'
<1>1. /\ api.of \in Listeners /\ api \in [pc : Steps, of : Listeners]
      /\ api.pc \in {"leave", "stop", "stopped"}
      /\ host \in [made : BOOLEAN, accepting : BOOLEAN, waiting : BOOLEAN,
                   deaf : BOOLEAN, paths : SUBSET Listeners]
      /\ UNCHANGED <<setup, crashed, registered, listener>>
  BY ApiFields DEF Leave, Stop, Stopped, ApiPart, ApiTypes, Idle, Same
<1>3. /\ api' \in {Idle} \cup [pc : Steps, of : Listeners]
      /\ api'.pc \in {"idle", "stop", "stopped"}
  BY <1>1 DEF Leave, Stop, Stopped, Halted, Goto, Idle, Steps
<1>4. ~InHand' /\ Opened' = Opened /\ (Refusal' <=> Refusal)
  BY <1>1, <1>3 DEF InHand, Counting, Opened, Refusal
<1>6. Counted' /\ (Stop => Opened = {})
  <2>2. CASE Leave
    BY <1>1, <1>4, <2>2, OpenedFinite, FS_EmptySet DEF Counted, One, Leave, Goto, Idle, InHand,
       Counting, ApiPart, Stop
  <2>3. CASE Stop \/ Stopped
    BY <1>4, <2>3, OpenedFinite, FS_EmptySet DEF Counted, One, Stop, Stopped, Same, InHand,
       Counting, ApiPart
  <2> QED BY <1>1, <2>2, <2>3, Zenon DEF Leave, Stop, Stopped
<1>7. \A c \in Conns :
         SameHandlers(request[c], request'[c]) /\ conn'[c].life = conn[c].life
  <2>1. CASE Halted("stopped")
    BY <1>1, <2>1, HaltedLinks
  <2>2. CASE UNCHANGED <<conn, request>>
    BY <2>2 DEF SameHandlers
  <2> QED BY <2>1, <2>2 DEF Leave, Stop, Stopped, Same
<1>8. ASSUME ListenersInvariant PROVE ListenersInvariant'
  BY <1>1, <1>3, <1>4, <1>6, <1>7, <1>8, HandlersStay, ApiFields DEF ListenersInvariant,
     HandlersServed, Leave, Stop, Stopped, Halted, ApiPart
<1> QED
  BY <1>1, <1>3, <1>4, <1>6, <1>8, ApiFields DEF ApiPart, ApiTypes, Leave, Stop, Stopped, Halted

-----------------------------------------------------------------------------
(* The server as a whole.                                                     *)

\* A second reply, or one that throws for another reason, needs a first.
LEMMA CrashHappens ==
    ASSUME Links, NEW c \in Conns, NEW n \in Numbers,
           request[c][n].thread \in {"parse", "find", "found", "lock"}, request[c][n].reply # "none",
           Crash("reply")
    PROVE  CrashSound'
<1>2. RequestSound(request[c][n]) /\ LinkSound(conn[c], request[c], c \in connections)
  BY RequestOf
<1>4. n \in Seen(c) /\ conn[c].made \in Nat
  BY <1>2, NothingSent DEF LinkSound, ChainSound, Seen, Numbers, Connection, Links
<1> QED
  BY <1>2, <1>4 DEF CrashSound, Seen, ThrewBefore, RequestSound, Crash, ErrorSound, Numbers,
     LinkSound, AnsweredSound

\* A step that does not end the process.
LEMMA GoesOn ==
    ASSUME crashed = "no", crashed' = crashed
    PROVE  CrashSound' /\ crashed' # "listener"
  BY DEF CrashSound

LEMMA DispatchInv ==
    ASSUME AsioInv, crashed = "no", NEW c \in Conns, NEW n \in Numbers,
           Parse(c, n) \/ Find(c, n) \/ Name(c, n) \/ Lock(c, n)
    PROVE  AsioInv'
<1> USE DEF AsioInv
<1>2. crashed' = crashed \/ (crashed' \in {"reply", "target", "gone"} /\ CrashSound')
  <2>1. CASE Crash("reply")
    BY <2>1, CrashHappens DEF Crash, Parse, Find, Name, Lock, Become, Change, Refuse
  <2>2. CASE Crash("target") \/ Crash("gone")
    BY <2>2 DEF Crash, CrashSound
  <2>3. CASE ~Crash("reply") /\ ~Crash("target") /\ ~Crash("gone")
    BY <2>3 DEF Parse, Find, Name, Lock, Become, Change, Refuse
  <2> QED BY <2>1, <2>2, <2>3
<1>4. CASE Links' /\ Calm
  BY <1>2, <1>4, GoesOn, CalmPart
<1>5. CASE Lock(c, n) /\ ~Calm
  BY <1>2, <1>5, GoesOn, LockLinks, LockPart DEF Lock, Change, Become, Crash, Calm, SameHandlers,
     server
<1> QED
  <2>1. Lock(c, n) => Links'
    <3>1. CASE Crash("reply")
      BY <3>1 DEF Crash, Links
    <3>2. CASE ~Crash("reply")
      BY <3>2, LockLinks DEF Lock, Change, Become
    <3> QED BY <3>1, <3>2
  <2> QED BY <1>4, <1>5, <2>1, ApiFields, ParseLinks, FindLinks, NameLinks DEF ApiPart

LEMMA RequestInv ==
    ASSUME AsioInv, crashed = "no", NEW c \in Conns, NEW n \in Numbers,
           \/ BodyRead(c, n) \/ DispatchStep(c, n) \/ SenderStep(c, n)
           \/ HandlerReply(c, n) \/ HandlerKeep(c, n) \/ UserReply(c, n)
    PROVE  AsioInv'
<1> USE DEF AsioInv
<1>1. CASE Parse(c, n) \/ Find(c, n) \/ Name(c, n) \/ Lock(c, n)
  BY <1>1, DispatchInv
<1>2. CASE \/ BodyRead(c, n) \/ HandlerReturn(c, n) \/ HandlerThrow(c, n)
           \/ AnswerThrow(c, n) \/ EndDispatch(c, n)
           \/ ResponseSet(c, n) \/ ContentReady(c, n) \/ Send(c, n)
           \/ HandlerReply(c, n) \/ HandlerKeep(c, n) \/ UserReply(c, n)
  <2>1. Links' /\ Calm
    BY <1>2, BodyReadLinks, HandlerLinks, AnswerThrowLinks, EndDispatchLinks, ResponseSetLinks,
       ContentReadyLinks, SendLinks, UserReplyLinks
  <2>2. crashed' = crashed
    BY <1>2 DEF BodyRead, HandlerReturn, HandlerThrow, AnswerThrow, EndDispatch, ResponseSet,
       ContentReady, Send, Writes, Written, Cancel, HandlerReply, HandlerKeep, UserReply, Change,
       Become, Finish
  <2> QED BY <2>1, <2>2, GoesOn, CalmPart
<1> QED BY <1>1, <1>2 DEF DispatchStep, SenderStep

LEMMA ConnectionInv ==
    ASSUME AsioInv, crashed = "no", NEW c \in Conns,
           Accept(c) \/ OnAccept(c) \/ LineRead(c) \/ HandleLine(c)
    PROVE  AsioInv'
<1> USE DEF AsioInv
<1>1. CASE LineRead(c) \/ HandleLine(c)
  BY <1>1, LineReadLinks, HandleLineLinks, GoesOn, CalmPart DEF LineRead, HandleLine, Become,
     Finish
<1>2. CASE Accept(c) \/ OnAccept(c)
  BY <1>2, AcceptLinks, OnAcceptLinks, AcceptPart DEF CrashSound, Accept, OnAccept, Crash
<1> QED BY <1>1, <1>2

LEMMA DeafInv ==
    ASSUME AsioInv, crashed = "no", AcceptFails
    PROVE  AsioInv'
  BY DeafPart, GoesOn DEF AsioInv, AcceptFails

LEMMA ServerInv ==
    ASSUME AsioInv, crashed = "no",
           ApiStep \/ \E l \in Listeners : OpenListener(l) \/ CloseListener(l)
    PROVE  AsioInv'
<1> USE DEF AsioInv
<1>1. crashed' = crashed
  BY DEF ApiStep, OpenListener, CloseListener, Start, Register, Erase, Erased, Undo, Remove,
     Forget, Drain, Leave, Stop, Stopped, Same
<1>2. CASE \E l \in Listeners : OpenListener(l) \/ CloseListener(l)
  BY <1>1, <1>2, GoesOn, AloneLinks, OpenListenerPart, CloseListenerPart DEF Alone, OpenListener,
     CloseListener, Same
<1>3. CASE Start \/ Register \/ Undo \/ Remove \/ Forget \/ Drain \/ Leave \/ Stopped
  <2>1. Alone
    BY <1>1, <1>3 DEF Alone, Start, Register, Undo, Remove, Forget, Drain, Leave, Stopped, Same
  <2> QED
    BY <1>1, <1>3, <2>1, GoesOn, AloneLinks, StartPart, RegisterPart, RefusalPart, RemovePart,
       LeavePart DEF Alone
<1>4. CASE Erase
  BY <1>1, <1>4, GoesOn, HaltedLinks, RefusalPart DEF Erase
<1>5. CASE Erased
  BY <1>1, <1>5, GoesOn, ErasedLinks, RefusalPart
<1>6. CASE Stop
  <2>1. UNCHANGED <<setup, connections, complete>>
    BY <1>6 DEF Stop
  <2>2. Links'
    <3>1. CASE Halted("stopped")
      BY <2>1, <3>1, HaltedLinks
    <3>2. CASE UNCHANGED <<conn, request>>
      BY <2>1, <3>2 DEF Links
    <3> QED BY <1>6, <3>1, <3>2 DEF Stop
  <2> QED BY <1>1, <1>6, <2>1, <2>2, GoesOn, LeavePart
<1> QED BY <1>2, <1>3, <1>4, <1>5, <1>6 DEF ApiStep

LEMMA InitHolds ==
    ASSUME AsioInit
    PROVE  AsioInv
<1>1. MaxRequests \in Nat
  BY AsioAssumption
<1>2. NoConnection \in Connection /\ NoRequest \in Request
  BY <1>1 DEF NoConnection, NoRequest, Connection, Request
<1>3. /\ RequestSound(NoRequest) /\ ~Active(NoRequest) /\ ~Holds(NoRequest)
  BY DEF NoRequest, RequestSound, Active, Holds
<1>4. Numbers = 1..(MaxRequests + 1)
  BY DEF Numbers
<1>5. ASSUME NEW c \in Conns PROVE LinkSound(conn[c], request[c], c \in connections)
  <2>1. conn[c] = NoConnection /\ request[c] = [n \in Numbers |-> NoRequest]
        /\ (c \in connections) = FALSE
    BY <1>4 DEF AsioInit
  <2> DEFINE rs == [n \in Numbers |-> NoRequest]
  <2>4. RefsSound(NoConnection, rs, FALSE)
    BY <1>3, FS_EmptySet DEF RefsSound, One, NoConnection, Holders
  <2>6. ChainSound(NoConnection, rs, FALSE)
    BY <1>1, <1>3 DEF ChainSound, NoConnection, Numbers
  <2>7. AnsweredSound(NoConnection, rs)
    BY <1>1 DEF AnsweredSound, ErrorSound, NoConnection, NoRequest, Numbers
  <2> QED BY <1>2, <1>3, <2>1, <2>4, <2>6, <2>7 DEF LinkSound
<1>7. Opened = {} /\ ~InHand /\ api.pc = "idle"
  BY DEF Opened, InHand, Counting, AsioInit, Idle
<1>9. Counted
  BY <1>7, FS_EmptySet DEF Counted, One, AsioInit
<1> QED
  BY <1>2, <1>4, <1>5, <1>7, <1>9, NothingSent DEF AsioInv, ApiPart, CrashSound, AsioInit,
     ApiTypes, NoHost, ListenersInvariant, NoConnection, Links

\* AsioInv is inductive.
THEOREM AsioInvariant == AsioSpec => []AsioInv
<1>1. AsioInit => AsioInv
  BY InitHolds
<1>2. AsioInv /\ [AsioNext]_asioVars => AsioInv'
  <2> SUFFICES ASSUME AsioInv, [AsioNext]_asioVars PROVE AsioInv'
    OBVIOUS
  <2>1. CASE UNCHANGED asioVars
    BY <2>1 DEF asioVars, server, AsioInv, Links, CrashSound, Seen, ThrewBefore, ApiPart,
       ApiTypes, Counted, Expected, Opened, InHand, Refusal, ListenersInvariant
  <2>2. CASE AsioNext
    <3>1. \A c \in Conns : DOMAIN request[c] = Numbers
      BY DEF AsioInv, Links
    <3> QED BY <2>2, <3>1, ConnectionInv, DeafInv, RequestInv, ServerInv DEF AsioNext
  <2> QED BY <2>1, <2>2
<1> QED BY <1>1, <1>2, PTL DEF AsioSpec

-----------------------------------------------------------------------------
(* What the properties say follows.                                           *)

\* Type correctness of the server of the other platforms: m_refs never falls
\* below zero, a request number stays within those of its connection, and the
\* number of registrations within that of the listeners.
THEOREM AsioTypes == AsioSpec => []AsioTypeOK
<1>1. ASSUME AsioInv PROVE AsioTypeOK
  <2>1. Links /\ CrashSound /\ ApiTypes /\ Counted
    BY <1>1 DEF AsioInv, ApiPart
  <2>2. registrations \in 0..Cardinality(Listeners)
    <3>1. /\ registrations = Cardinality(Opened) + One(InHand) /\ Cardinality(Opened) \in Nat
          /\ IsFiniteSet(Opened) /\ Opened \subseteq Listeners /\ IsFiniteSet(Listeners)
          /\ Cardinality(Listeners) \in Nat
      BY <2>1, OpenedFinite, AsioAssumption, FS_CardinalityType DEF Counted, Opened
    <3>2. Cardinality(Opened) <= Cardinality(Listeners)
      BY <3>1, FS_Subset
    <3>3. CASE InHand
      <4>1. api.of \in Listeners /\ listener[api.of] # "open"
        BY <2>1, <3>3, ApiFields DEF Counted, Expected, InHand, Counting, Steps
      <4>2. api.of \notin Opened /\ Opened \cup {api.of} \in SUBSET Listeners
        BY <3>1, <4>1 DEF Opened
      <4>3. Cardinality(Opened \cup {api.of}) = Cardinality(Opened) + 1
        BY <3>1, <4>2, FS_AddElement
      <4>4. Cardinality(Opened \cup {api.of}) <= Cardinality(Listeners)
        BY <3>1, <4>2, FS_Subset
      <4> QED BY <3>1, <3>3, <4>3, <4>4 DEF One
    <3>4. CASE ~InHand
      BY <3>1, <3>2, <3>4 DEF One
    <3> QED BY <3>3, <3>4
  <2> QED BY <2>1, <2>2 DEF AsioTypeOK, Links, CrashSound, ApiTypes, Numbers
<1> QED BY <1>1, AsioInvariant, PTL

\* A connection is deleted when nothing uses it any more, never before, and then
\* it is deleted unless a request that was refused cost it a reference: the
\* reference counts of http_server_asio.cpp are right but for those.
THEOREM ConnectionsAreSound == AsioSpec => []ConnectionsSound
<1>1. ASSUME AsioInv, NEW c \in Conns
      PROVE  /\ c \in connections => conn[c].life = "live"
             /\ conn[c].life = "deleted" => ~Busy(c) /\ c \notin connections
             /\ conn[c].life = "live" /\ c \notin connections /\ ~Busy(c) => Strays(c) # {}
  <2> DEFINE k == conn[c]
             rs == request[c]
             on == c \in connections
  <2>1. /\ LinkSound(k, rs, on) /\ rs \in [Numbers -> Request] /\ k \in Connection
        /\ k.made \in 0..(MaxRequests + 1)
    BY <1>1 DEF AsioInv, Links, Connection
  <2>2. Seen(c) \subseteq Numbers /\ \A n \in Numbers : n \notin Seen(c) => n > k.made
    BY <2>1, AsioAssumption DEF Seen, Numbers
  <2>3. /\ k.refs = Cardinality(Holders(rs)) + One(on) /\ Cardinality(Holders(rs)) \in Nat
        /\ (k.life = "live" <=> k.refs # 0) /\ (Cardinality(Holders(rs)) = 0 <=> Holders(rs) = {})
    BY <2>1, Finite, FS_EmptySet DEF LinkSound, RefsSound
  <2>4. on => k.life = "live"
    BY <2>3 DEF One
  <2>5. ASSUME k.life = "deleted" PROVE ~Busy(c) /\ ~on
    <3>1. ~on
      BY <2>4, <2>5
    <3>2. Holders(rs) = {}
      BY <2>3, <2>5, <3>1 DEF One
    <3>3. k.line = "none" /\ \A n \in Numbers : ~Active(rs[n]) /\ ~Holds(rs[n])
      BY <2>1, <3>1, <3>2 DEF LinkSound, ChainSound, Holders
    <3>4. ASSUME NEW n \in Numbers
          PROVE  /\ rs[n].thread \in {"none", "left", "done"} /\ rs[n].body # "reading"
                 /\ rs[n].sender \in {"none", "done"}
      BY <2>1, <3>3 DEF Active, Holds, LinkSound, RequestSound, Request
    <3> QED BY <2>2, <3>1, <3>3, <3>4 DEF Busy
  <2>6. ASSUME k.life = "live", ~on, ~Busy(c) PROVE Strays(c) # {}
    <3>1. Cardinality(Holders(rs)) # 0
      BY <2>3, <2>6 DEF One
    <3>2. PICK n \in Numbers : Holds(rs[n])
      BY <2>3, <3>1 DEF Holders
    <3>3. n \in Seen(c)
      <4>1. rs[n] # NoRequest
        BY <3>2, NothingSent DEF Holds
      <4> QED BY <2>1, <2>2, <4>1 DEF LinkSound, ChainSound
    <3>4. rs[n].thread \in {"none", "left", "done"}
      BY <2>6, <3>3 DEF Busy
    <3> QED BY <3>2, <3>3, <3>4 DEF Holds, Strays
  <2> QED BY <2>4, <2>5, <2>6
<1>2. AsioInv => ConnectionsSound
  BY <1>1 DEF ConnectionsSound, AsioInv, Links
<1> QED BY <1>2, AsioInvariant, PTL

\* Replies are to whom they are meant for, but after a handler threw that had
\* replied; a reply is sent after the request was read; and a second reply ends
\* the process only then, or when the server closes a connection in use.
THEOREM AnswersAreSound == AsioSpec => []AnswersSound
<1>1. ASSUME AsioInv, NEW c \in Conns, NEW n \in Seen(c)
      PROVE  /\ request[c][n].reply = "error" => request[c][n].threw \/ ThrewBefore(c, n)
             /\ request[c][n].outcome = "sent" =>
                   /\ request[c][n].reply # "none"
                   /\ request[c][n].bad \/ request[c][n].body # "reading"
  <2>1. /\ LinkSound(conn[c], request[c], c \in connections)
        /\ conn[c].made \in 0..(MaxRequests + 1)
    BY <1>1 DEF AsioInv, Links, Connection
  <2>2. n \in Numbers /\ \A m \in Numbers : m < n => m \in Seen(c)
    BY <1>1, <2>1, AsioAssumption DEF Seen, Numbers
  <2>3. RequestSound(request[c][n]) /\ ErrorSound(n, request[c])
    BY <2>1, <2>2 DEF LinkSound, AnsweredSound
  <2>4. request[c][n].reply = "error" => request[c][n].threw \/ ThrewBefore(c, n)
    BY <2>2, <2>3 DEF ErrorSound, ThrewBefore
  <2>5. request[c][n].outcome = "sent" =>
          request[c][n].reply # "none" /\ request[c][n].body # "reading"
    BY <2>3 DEF RequestSound
  <2> QED BY <2>4, <2>5
<1>2. AsioInv => AnswersSound
  BY <1>1 DEF AnswersSound, AsioInv, CrashSound
<1> QED BY <1>2, AsioInvariant, PTL

\* As long as no registration is refused, whoever has opened a listener is served
\* until he closes it, a connection being awaited unless accepting failed once,
\* and not after; and nobody calls a hostport_listener that is gone.
THEOREM ListenersAreServed == AsioSpec => []ListenersServed
<1>1. ASSUME AsioInv, api.pc \notin {"erase", "erased", "undo"},
             \A l \in Listeners : listener[l] # "refused"
      PROVE  /\ crashed # "listener"
             /\ \A l \in Listeners : listener[l] = "open" =>
                   /\ l \in registered /\ l \in host.paths /\ host.accepting
                   /\ host.waiting \/ host.deaf \/ \E c \in Conns : conn[c].life = "accepted"
             /\ api = Idle => \A l \in registered \cup host.paths : listener[l] = "open"
             /\ \A c \in Conns : \A n \in Seen(c) : request[c][n].thread = "handler" =>
                   \/ listener[request[c][n].target] = "open"
                   \/ /\ api.of = request[c][n].target
                      /\ api.pc \in {"remove", "forget", "drain"}
  <2>1. ListenersInvariant /\ ApiTypes /\ Links
    BY <1>1 DEF AsioInv, ApiPart, Refusal
  <2>2. \A l \in Listeners : listener[l] = "open" =>
          /\ l \in registered /\ l \in host.paths /\ host.accepting
          /\ host.waiting \/ host.deaf \/ \E c \in Conns : conn[c].life = "accepted"
    BY <2>1 DEF ListenersInvariant, Opened
  <2>3. api = Idle => \A l \in registered \cup host.paths : listener[l] = "open"
    <3>1. api = Idle => api.pc = "idle"
      BY DEF Idle
    <3> QED BY <2>1, <3>1 DEF ListenersInvariant, Opened
  <2>4. \A c \in Conns : Seen(c) \subseteq Numbers
    BY <2>1, AsioAssumption DEF Links, Connection, Seen, Numbers
  <2> QED BY <2>1, <2>2, <2>3, <2>4 DEF ListenersInvariant
<1>2. AsioInv => ListenersServed
  BY <1>1 DEF ListenersServed
<1> QED BY <1>2, AsioInvariant, PTL
=============================================================================
