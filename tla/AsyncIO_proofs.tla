-------------------------- MODULE AsyncIO_proofs ----------------------------
(* Proofs about the components that start an operation and go on when it      *)
(* completes.  Of WebsocketClient, for every set of messages, every number of *)
(* calls of receive() and of messages that arrive, and every user: WsInv has  *)
(* a part for each of what the lock and the count of sends guard, the queues  *)
(* of receiving, and the connection with the objects that share it.  Of       *)
(* FileBuffer, for every size of the buffer, every number of calls and of     *)
(* writes, and every file: FileInv says what the buffer holds as long as none *)
(* of the known miscalculations has happened, and where each write goes.      *)
(* With HttpSysServer, of HttpSysServer_proofs, they run side by side in      *)
(* MCSpec.                                                                    *)
EXTENDS MCAsyncIO, HttpSysServer_proofs, SequenceTheorems

-----------------------------------------------------------------------------
(* The websocket client: the inductive invariant.                             *)

\* The messages m_num_sends counts.  A message is on its way, or was given up,
\* whenever it counts any; and whoever pops the queue has left one to be popped.
Counted ==
    (OnItsWay \ MessagesAt("popping")) \cup MessagesAt("counted")
        \cup MessagesAt("queued") \cup MessagesAt("left")
OneGoes ==
    /\ \A m, n \in OnItsWay : m = n
    /\ OnItsWay = {} /\ MessagesAt("left") = {} => Counted = {}
    /\ MessagesAt("left") # {} => OnItsWay = {}
    /\ MessagesAt("popping") # {} => Counted # {}
CountIsRight == IsFiniteSet(Counted) /\ sends = Cardinality(Counted)

NoTwice(s) == \A j, k \in DOMAIN s : s[j] = s[k] => j = k
QueueIsRight ==
    /\ InSeq(outgoing) = MessagesAt("queued") /\ NoTwice(outgoing)
    /\ Len(outgoing) = Cardinality(MessagesAt("queued"))

\* A message is on the wire once it is to be told of success, and not before.
Answered == {"counting", "popping", "done"}
WireIsRight ==
    /\ IsFiniteSet(InSeq(wire)) /\ Len(wire) = Cardinality(InSeq(wire))
    /\ \A m \in Messages :
        /\ m \in InSeq(wire) =>
            message[m].at \in Answered \cup {"telling"} /\ message[m].result = "sent"
        /\ message[m].at = "telling" /\ message[m].result = "sent" => m \in InSeq(wire)
        /\ message[m].told = "sent" => m \in InSeq(wire)
        /\ message[m].told = "failed" => m \notin InSeq(wire)
        /\ message[m].at \in Answered => message[m].told # "no"
        /\ message[m].at \notin Answered \cup {"left"} => message[m].told = "no"
        /\ message[m].result = "failed" => message[m].at \in Answered \cup {"telling"}

SendInv ==
    /\ OneGoes /\ CountIsRight /\ QueueIsRight /\ WireIsRight
    /\ wsCrashed = "queue" => MessagesAt("counted") # {}

\* The messages kept are the last that arrived, the tasks that wait are in the
\* order of the calls and came after those that have a message.
Rising(s) == \A j, k \in DOMAIN s : j < k => s[j] < s[k]
CallsInOrder ==
    \A r, q \in 1..Receives : r < q /\ received[r].is = "new" => received[q].is = "new"
WaitingIsRight ==
    /\ Rising(awaiting)
    /\ \A r \in InSeq(awaiting) : received[r].is = "waiting" /\ r # inHand.r
    /\ \A r \in Told : \A q \in InSeq(awaiting) : r < q
InHandIsRight ==
    inHand # Nobody =>
        /\ inHand.m = arrived /\ arrived > 0 /\ inHand.r \in 1..Receives
        /\ received[inHand.r].is = "waiting" /\ incoming = <<>>
        /\ \A r \in Told : r < inHand.r /\ received[r].m < inHand.m
        /\ \A q \in InSeq(awaiting) : inHand.r < q
KeptIsRight ==
    /\ Len(incoming) <= arrived
    /\ wsCrashed = "no" => \A j \in DOMAIN incoming : incoming[j] = arrived - Len(incoming) + j
    /\ \A r \in Told : received[r].m <= arrived - Len(incoming)
ToldInOrder == \A r, q \in Told : r < q => received[r].m < received[q].m
NoneLost ==
    wsCrashed = "no" =>
        1..arrived = {received[r].m : r \in Told} \cup InSeq(incoming) \cup ({inHand.m} \ {0})
ReceivePart ==
    /\ CallsInOrder /\ WaitingIsRight /\ InHandIsRight /\ KeptIsRight /\ ToldInOrder /\ NoneLost
    /\ incoming = <<>> \/ awaiting = <<>>
    /\ clientClosed => awaiting = <<>>
ReceiveInv ==
    /\ ReceivePart
    /\ shutdown \in {"set", "over"} => clientClosed \/ wsCrashed = "handler"
    /\ closed => shutdown = "over"

\* Where the connection is in its life,
ConnectionIsRight ==
    /\ wsState = "created" => link = "none"
    /\ wsState = "connecting" => link = "opening"
    /\ wsState = "connected" => link = "open"
    /\ wsState = "closing" => link \in {"open", "closing"}
    /\ wsState = "closed" => link = "over"
    /\ wsState = "destroyed" => shutdown \in {"none", "over"} /\ link \in {"none", "over"}
    /\ shutdown = "none" <=> wsState \in {"created", "connecting", "connected", "closing"}
                             \/ (wsState = "destroyed" /\ link = "none")
    /\ shutdown = "none" => alive
    /\ call.connect = "new" => wsState \in {"created", "destroyed"}
\* and who still has the objects.
OwnersAreRight ==
    /\ call.user \/ call.connect \in {"pending", "failed"} => impl = "alive"
    /\ impl = "alive" => dtor = "none"
    /\ dtor # "none" => OnItsWay = {}
    /\ dtor = "over" <=> wsState = "destroyed"
LifeInv ==
    /\ ConnectionIsRight /\ OwnersAreRight
    /\ wsCrashed = "handler" => ~call.user /\ dtor # "over"

WsInv == WsTypeOK /\ SendInv /\ ReceiveInv /\ LifeInv

-----------------------------------------------------------------------------
(* The websocket client: lemmas about sequences.                              *)

LEMMA AppendedAndTail ==
    ASSUME NEW S, NEW s \in Seq(S)
    PROVE  /\ \A x \in S : /\ Append(s, x) \in Seq(S) /\ Len(Append(s, x)) = Len(s) + 1
                           /\ InSeq(Append(s, x)) = InSeq(s) \cup {x}
                           /\ \A j \in 1..Len(s) : Append(s, x)[j] = s[j]
                           /\ Append(s, x)[Len(s) + 1] = x
           /\ s # <<>> => /\ Tail(s) \in Seq(S) /\ Len(Tail(s)) = Len(s) - 1
                          /\ \A j \in 1..(Len(s) - 1) : Tail(s)[j] = s[j + 1]
                          /\ Head(s) = s[1] /\ Head(s) \in S /\ Len(s) > 0
           /\ InSeq(s) \subseteq S /\ DOMAIN s = 1..Len(s) /\ Len(s) \in Nat
<1>1. DOMAIN s = 1..Len(s) /\ Len(s) \in Nat /\ InSeq(s) \subseteq S
  BY LenProperties DEF InSeq
<1>2. ASSUME NEW x \in S
      PROVE  /\ Append(s, x) \in Seq(S) /\ Len(Append(s, x)) = Len(s) + 1
             /\ InSeq(Append(s, x)) = InSeq(s) \cup {x}
             /\ \A j \in 1..Len(s) : Append(s, x)[j] = s[j]
             /\ Append(s, x)[Len(s) + 1] = x
  BY <1>1, AppendProperties, LenProperties DEF InSeq
<1>3. ASSUME s # <<>>
      PROVE  /\ Tail(s) \in Seq(S) /\ Len(Tail(s)) = Len(s) - 1
             /\ \A j \in 1..(Len(s) - 1) : Tail(s)[j] = s[j + 1]
             /\ Head(s) = s[1] /\ Head(s) \in S /\ Len(s) > 0
  BY <1>1, <1>3, EmptySeq, HeadTailProperties
<1> QED BY <1>1, <1>2, <1>3

\* What is behind the head of a sequence.
LEMMA InTail ==
    ASSUME NEW S, NEW s \in Seq(S), s # <<>>
    PROVE  /\ InSeq(s) = InSeq(Tail(s)) \cup {Head(s)}
           /\ NoTwice(s) => NoTwice(Tail(s)) /\ Head(s) \notin InSeq(Tail(s))
           /\ S \subseteq Nat /\ Rising(s) => Rising(Tail(s)) /\ \A x \in InSeq(Tail(s)) : Head(s) < x
<1>1. /\ DOMAIN s = 1..Len(s) /\ Len(s) \in Nat /\ Len(s) > 0 /\ Head(s) = s[1]
      /\ Tail(s) \in Seq(S) /\ Len(Tail(s)) = Len(s) - 1
      /\ \A j \in 1..(Len(s) - 1) : Tail(s)[j] = s[j + 1]
  BY AppendedAndTail
<1> DEFINE t == Tail(s)
           h == Head(s)
<1> HIDE DEF t, h
<1>3. /\ DOMAIN t = 1..(Len(s) - 1) /\ h = s[1] /\ \A j \in 1..(Len(s) - 1) : t[j] = s[j + 1]
  BY <1>1, LenProperties DEF t, h
<1>4. InSeq(s) = InSeq(t) \cup {h}
    <2>1. \A k \in 1..Len(s) : k = 1 \/ (k - 1 \in 1..(Len(s) - 1) /\ s[k] = t[k - 1])
    BY <1>1, <1>3
    <2>4. ASSUME NEW x \in InSeq(s)
          PROVE  x \in InSeq(t) \cup {h}
        <3>1. PICK k \in 1..Len(s) : x = s[k]
      BY <1>1 DEF InSeq
        <3> QED BY <1>3, <2>1, <3>1 DEF InSeq
    <2>5. ASSUME NEW x \in InSeq(t)
          PROVE  x \in InSeq(s)
        <3>1. PICK j \in 1..(Len(s) - 1) : x = t[j]
      BY <1>3 DEF InSeq
        <3> QED BY <1>1, <1>3, <3>1 DEF InSeq
    <2>6. h \in InSeq(s)
    BY <1>1, <1>3 DEF InSeq
    <2> QED BY <2>4, <2>5, <2>6
<1>5. ASSUME NoTwice(s)
      PROVE  NoTwice(t) /\ h \notin InSeq(t)
    <2>1. \A j, k \in 1..Len(s) : s[j] = s[k] => j = k
    BY <1>1, <1>5 DEF NoTwice
    <2> QED BY <1>1, <1>3, <2>1 DEF NoTwice, InSeq
<1>6. ASSUME S \subseteq Nat, Rising(s)
      PROVE  Rising(t) /\ \A x \in InSeq(t) : h < x
    <2>1. \A j, k \in 1..Len(s) : j < k => s[j] < s[k]
    BY <1>1, <1>6 DEF Rising
    <2> QED BY <1>1, <1>3, <2>1 DEF Rising, InSeq
<1> QED BY <1>4, <1>5, <1>6 DEF t, h

\* An empty sequence has nothing in it, and no other has nothing.
LEMMA NothingInIt ==
    ASSUME NEW S, NEW s \in Seq(S)
    PROVE  InSeq(s) = {} <=> s = <<>>
  BY AppendedAndTail DEF InSeq

-----------------------------------------------------------------------------
(* The websocket client: the types.                                           *)

Places == Outside \cup {"starting", "next", "buffering", "reading", "writing",
                        "telling", "counting", "popping"}
MessageType == [at : Places, told : {"no", "sent", "failed"}, result : {"sent", "failed"}]
ReceivedType == [is : {"new", "waiting", "message", "error"}, m : 0..MaxIncoming]

SendTypes ==
    /\ message \in [Messages -> MessageType]
    /\ sends \in Nat /\ outgoing \in Seq(Messages) /\ wire \in Seq(Messages)
ReceiveTypes ==
    /\ arrived \in 0..MaxIncoming /\ incoming \in Seq(1..MaxIncoming)
    /\ awaiting \in Seq(1..Receives) /\ inHand \in [m : 0..MaxIncoming, r : 0..Receives]
    /\ received \in [1..Receives -> ReceivedType] /\ clientClosed \in BOOLEAN
LifeTypes ==
    /\ wsWorld \in WsWorlds
    /\ wsState \in {"created", "connecting", "connected", "closing", "closed", "destroyed"}
    /\ link \in {"none", "opening", "open", "closing", "over"}
    /\ opened \in {"none", "set", "failed"} /\ closed \in BOOLEAN /\ alive \in BOOLEAN
    /\ shutdown \in {"none", "failing", "closing", "fail", "handler", "set", "over"}
    /\ call \in [user : BOOLEAN, connect : {"new", "pending", "failed", "done"}, close : BOOLEAN]
    /\ impl \in {"alive", "dying", "gone"}
    /\ dtor \in {"none", "begun", "connect", "close", "over"}
    /\ wsCrashed \in {"no", "queue", "handler"}

LEMMA TypesInParts == WsTypeOK <=> SendTypes /\ ReceiveTypes /\ LifeTypes
  BY DEF WsTypeOK, SendTypes, ReceiveTypes, LifeTypes, MessageType, Places, ReceivedType

LEMMA ClosePendingKeepsTypes ==
    ReceiveTypes /\ ClosePending /\ UNCHANGED <<arrived, incoming, inHand>> => ReceiveTypes'
<1> SUFFICES ASSUME ReceiveTypes, ClosePending, UNCHANGED <<arrived, incoming, inHand>>
             PROVE  ReceiveTypes'
  OBVIOUS
<1> QED BY WsAssumption, EmptySeq DEF ReceiveTypes, ClosePending, ReceivedType

\* A step of one message.
LEMMA MessageKeepsTypes ==
    ASSUME SendTypes, NEW m \in Messages, NEW at \in Places, NEW told \in {"no", "sent", "failed"},
           NEW result \in {"sent", "failed"}
    PROVE  /\ [message EXCEPT ![m].at = at] \in [Messages -> MessageType]
           /\ [message EXCEPT ![m].at = at, ![m].told = told] \in [Messages -> MessageType]
           /\ [message EXCEPT ![m].at = at, ![m].result = result] \in [Messages -> MessageType]
  BY DEF MessageType, SendTypes

-----------------------------------------------------------------------------
(* The websocket client: where one message goes.                              *)

Becomes(m, at, told, result) ==
    /\ message' \in [Messages -> MessageType]
    /\ \A n \in Messages \ {m} : message'[n] = message[n]
    /\ message'[m].at = at /\ message'[m].told = told /\ message'[m].result = result

LEMMA MessageMoves ==
    ASSUME SendTypes, NEW m \in Messages
    PROVE  /\ \A at \in Places : Goes(m, at) => Becomes(m, at, message[m].told, message[m].result)
           /\ Leaves(m) => Becomes(m, "left", "failed", message[m].result)
           /\ Falls(m) => Becomes(m, "telling", message[m].told, "failed")
<1>1. message \in [Messages -> MessageType] /\ message[m] \in MessageType
  BY DEF SendTypes
<1>2. ASSUME NEW at \in Places, Goes(m, at)
      PROVE  Becomes(m, at, message[m].told, message[m].result)
  BY <1>1, <1>2, MessageKeepsTypes DEF Goes, Becomes, MessageType
<1>3. ASSUME Leaves(m)
      PROVE  Becomes(m, "left", "failed", message[m].result)
  BY <1>1, <1>3, MessageKeepsTypes DEF Leaves, Becomes, MessageType, Places, Outside
<1>4. ASSUME Falls(m)
      PROVE  Becomes(m, "telling", message[m].told, "failed")
  BY <1>1, <1>4, MessageKeepsTypes DEF Falls, Becomes, MessageType, Places
<1> QED BY <1>2, <1>3, <1>4

\* Where m_num_sends does not count a message.
Uncounted == {"new", "done", "popping"}
LEMMA PlacesNow ==
    /\ Counted = {m \in Messages : message[m].at \notin Uncounted}
    /\ \A m \in Messages : m \in OnItsWay <=> message[m].at \notin Outside
  BY DEF Counted, OnItsWay, MessagesAt, Uncounted, Outside

LEMMA PlacesAfter ==
    ASSUME NEW m \in Messages, NEW at \in Places, NEW told, NEW result, Becomes(m, at, told, result)
    PROVE  /\ \A x \in Places :
                MessagesAt(x)' = IF x = at THEN MessagesAt(x) \cup {m} ELSE MessagesAt(x) \ {m}
           /\ OnItsWay' = IF at \in Outside THEN OnItsWay \ {m} ELSE OnItsWay \cup {m}
           /\ Counted' = IF at \in Uncounted THEN Counted \ {m} ELSE Counted \cup {m}
<1>2. ASSUME NEW x \in Places
      PROVE  MessagesAt(x)' = IF x = at THEN MessagesAt(x) \cup {m} ELSE MessagesAt(x) \ {m}
  BY DEF MessagesAt, Becomes
<1> QED BY <1>2, PlacesNow DEF OnItsWay, Outside, Uncounted, Counted, MessagesAt, Becomes

\* The message on its way goes on: the counts and the queue do not notice.
Going == {"starting", "next", "buffering", "reading", "writing", "telling", "counting"}
LEMMA GoesOnItsWay ==
    ASSUME OneGoes, CountIsRight, QueueIsRight, NEW m \in Messages, message[m].at \in Going,
           NEW at \in Going, NEW told, NEW result, Becomes(m, at, told, result),
           sends' = sends, outgoing' = outgoing
    PROVE  /\ OneGoes' /\ CountIsRight' /\ QueueIsRight' /\ OnItsWay' = OnItsWay
           /\ MessagesAt("counted")' = MessagesAt("counted")
<1>3. OnItsWay' = OnItsWay /\ Counted' = Counted
    <2>1. OnItsWay' = OnItsWay \cup {m} /\ Counted' = Counted \cup {m}
    BY PlacesAfter DEF Going, Places, Outside, Uncounted
    <2> QED BY <2>1, PlacesNow DEF Going, Outside, Uncounted
<1>4. \A x \in {"popping", "counted", "queued", "left"} : MessagesAt(x)' = MessagesAt(x)
  BY PlacesAfter DEF Places, Outside, Going, MessagesAt, Uncounted
<1> QED BY <1>3, <1>4 DEF OneGoes, CountIsRight, QueueIsRight

\* Nobody goes on after a message that was given up.
LEMMA IsGivenUp ==
    ASSUME OneGoes, CountIsRight, QueueIsRight, NEW m \in Messages, message[m].at \in Going,
           NEW told, NEW result, Becomes(m, "left", told, result),
           sends' = sends, outgoing' = outgoing
    PROVE  /\ OneGoes' /\ CountIsRight' /\ QueueIsRight' /\ OnItsWay' = {}
           /\ MessagesAt("counted")' = MessagesAt("counted")
<1>1. "left" \in Places /\ "left" \in Outside /\ "left" \notin Uncounted
  BY DEF Places, Outside, Uncounted
<1>2. m \in OnItsWay /\ m \in Counted
  BY PlacesNow DEF Going, Outside, Uncounted
<1>3. OnItsWay' = {} /\ Counted' = Counted
  BY <1>1, <1>2, PlacesAfter DEF OneGoes
<1>4. \A x \in {"popping", "counted", "queued"} : MessagesAt(x)' = MessagesAt(x)
  BY <1>1, PlacesAfter DEF Places, Outside, Going, MessagesAt
<1> QED BY <1>1, <1>2, <1>3, <1>4, PlacesAfter DEF OneGoes, CountIsRight, QueueIsRight

-----------------------------------------------------------------------------
(* The websocket client: what sending does with the count, queue and wire.    *)

\* The wire stays, and m is not told, or is told as its result says.
LEMMA WireStays ==
    ASSUME SendTypes, WireIsRight, NEW m \in Messages, NEW at \in Places,
           NEW told \in {"no", "sent", "failed"}, NEW result \in {"sent", "failed"},
           Becomes(m, at, told, result), wire' = wire,
           /\ m \in InSeq(wire) => at \in Answered \cup {"telling"} /\ result = "sent"
           /\ at = "telling" /\ result = "sent" => m \in InSeq(wire)
           /\ told = "sent" => m \in InSeq(wire)
           /\ told = "failed" => m \notin InSeq(wire)
           /\ at \in Answered => told # "no"
           /\ at \notin Answered \cup {"left"} => told = "no"
           /\ result = "failed" => at \in Answered \cup {"telling"}
    PROVE  WireIsRight'
<1>3. ASSUME NEW n \in Messages
      PROVE  /\ n \in InSeq(wire) =>
                    message'[n].at \in Answered \cup {"telling"} /\ message'[n].result = "sent"
             /\ message'[n].at = "telling" /\ message'[n].result = "sent" => n \in InSeq(wire)
             /\ message'[n].told = "sent" => n \in InSeq(wire)
             /\ message'[n].told = "failed" => n \notin InSeq(wire)
             /\ message'[n].at \in Answered => message'[n].told # "no"
             /\ message'[n].at \notin Answered \cup {"left"} => message'[n].told = "no"
             /\ message'[n].result = "failed" => message'[n].at \in Answered \cup {"telling"}
    <2>1. CASE n = m
    BY <2>1 DEF Becomes
    <2>2. CASE n # m
    BY <2>2 DEF WireIsRight, Becomes
    <2> QED BY <2>1, <2>2
<1> QED BY <1>3 DEF WireIsRight

\* What is known of a message by its place.
LEMMA KnownOf ==
    ASSUME SendTypes, WireIsRight, NEW m \in Messages
    PROVE  /\ message[m].at \in Places /\ message[m].told \in {"no", "sent", "failed"}
           /\ message[m].result \in {"sent", "failed"}
           /\ message[m].at \in {"new", "counted", "queued", "starting", "next", "buffering",
                                 "reading", "writing", "telling"} => message[m].told = "no"
           /\ message[m].at \in {"new", "counted", "queued", "starting", "next", "buffering",
                                 "reading", "writing", "left"} =>
                m \notin InSeq(wire) /\ message[m].result = "sent"
  BY DEF WireIsRight, MessageType, Answered, SendTypes

SendPart == SendTypes /\ OneGoes /\ CountIsRight /\ QueueIsRight /\ WireIsRight
SendPartNext == SendTypes' /\ OneGoes' /\ CountIsRight' /\ QueueIsRight' /\ WireIsRight'

LEMMA SendMsgKeeps ==
    ASSUME SendPart, NEW m \in Messages, SendMsg(m)
    PROVE  /\ SendPartNext /\ OnItsWay' \subseteq OnItsWay
           /\ MessagesAt("counted")' = MessagesAt("counted")
<1>3. CASE Leaves(m)
  BY <1>3, KnownOf, MessageMoves, WireStays, IsGivenUp DEF SendPartNext, SendPart, Places,
     Outside, Answered, SendTypes, Becomes, SendMsg, Going
<1>4. ASSUME NEW at \in {"buffering", "reading", "writing"}, Goes(m, at)
      PROVE  /\ SendPartNext /\ OnItsWay' = OnItsWay
             /\ MessagesAt("counted")' = MessagesAt("counted")
    <2>0. at \in Places /\ at \in Going
    BY DEF Places, Going
    <2> QED
    BY <1>4, <2>0, KnownOf, MessageMoves, WireStays, GoesOnItsWay DEF SendPartNext, SendPart,
       Answered, SendTypes, Becomes, SendMsg, Going
<1> QED BY <1>3, <1>4 DEF SendMsg

LEMMA BodyKeeps ==
    ASSUME SendPart, NEW m \in Messages, BodyBuffered(m) \/ Read(m)
    PROVE  /\ SendPartNext /\ OnItsWay' \subseteq OnItsWay
           /\ MessagesAt("counted")' = MessagesAt("counted")
<1>1. /\ message[m].at \in Going /\ message[m].told = "no" /\ m \notin InSeq(wire)
      /\ message[m].result = "sent"
  BY KnownOf DEF BodyBuffered, Read, SendPart, Going
<1>3. CASE Leaves(m)
  BY <1>1, <1>3, MessageMoves, WireStays, IsGivenUp DEF SendPartNext, SendPart, Places, Outside,
     Answered, SendTypes, Becomes, BodyBuffered, Read
<1>4. ASSUME NEW at \in {"writing", "telling"}, NEW result \in {"sent", "failed"},
             Becomes(m, at, "no", result), (at = "telling") <=> (result = "failed")
      PROVE  /\ SendPartNext /\ OnItsWay' = OnItsWay
             /\ MessagesAt("counted")' = MessagesAt("counted")
  BY <1>1, <1>4, WireStays, GoesOnItsWay DEF SendPartNext, SendPart, Answered, SendTypes, Becomes,
     Places, Going, BodyBuffered, Read
<1> QED BY <1>1, <1>3, <1>4, MessageMoves DEF SendPart, Places, BodyBuffered, Read

LEMMA WriteKeeps ==
    ASSUME SendPart, NEW m \in Messages, Write(m)
    PROVE  /\ SendPartNext /\ OnItsWay' \subseteq OnItsWay
           /\ MessagesAt("counted")' = MessagesAt("counted")
<1>1. /\ message[m].at = "writing" /\ message[m].told = "no" /\ m \notin InSeq(wire)
      /\ message[m].result = "sent" /\ "writing" \in Going /\ "telling" \in Going /\ "telling" \in Places
  BY KnownOf DEF Write, SendPart, Going, Places
<1>3. ASSUME NEW result \in {"sent", "failed"}, Becomes(m, "telling", "no", result), WireIsRight',
             wire' \in Seq(Messages)
      PROVE  /\ SendPartNext /\ OnItsWay' \subseteq OnItsWay
             /\ MessagesAt("counted")' = MessagesAt("counted")
  BY <1>1, <1>3, GoesOnItsWay DEF SendPartNext, SendPart, Write, SendTypes, Becomes
<1>4. CASE Falls(m) /\ wire' = wire
  BY <1>1, <1>3, <1>4, MessageMoves, WireStays DEF SendPart, SendTypes, Answered
<1>5. CASE wire' = Append(wire, m) /\ Goes(m, "telling")
    <2>1. Becomes(m, "telling", "no", "sent")
    BY <1>1, <1>5, MessageMoves DEF SendPart
    <2>2. /\ wire' \in Seq(Messages) /\ Len(wire') = Len(wire) + 1
          /\ InSeq(wire') = InSeq(wire) \cup {m}
    BY <1>5, AppendedAndTail DEF SendPart, SendTypes
    <2>7. ASSUME NEW n \in Messages
          PROVE  /\ n \in InSeq(wire') =>
                        message'[n].at \in Answered \cup {"telling"} /\ message'[n].result = "sent"
                 /\ message'[n].at = "telling" /\ message'[n].result = "sent" => n \in InSeq(wire')
                 /\ message'[n].told = "sent" => n \in InSeq(wire')
                 /\ message'[n].told = "failed" => n \notin InSeq(wire')
                 /\ message'[n].at \in Answered => message'[n].told # "no"
                 /\ message'[n].at \notin Answered \cup {"left"} => message'[n].told = "no"
                 /\ message'[n].result = "failed" => message'[n].at \in Answered \cup {"telling"}
        <3>1. CASE n = m
      BY <2>1, <2>2, <3>1 DEF Answered, Becomes
        <3>2. CASE n # m
      BY <2>1, <2>2, <3>2 DEF SendPart, WireIsRight, Becomes
        <3> QED BY <3>1, <3>2
    <2> QED BY <1>1, <1>3, <2>1, <2>2, <2>7, FS_AddElement DEF WireIsRight, SendPart
<1> QED BY <1>4, <1>5 DEF Write

LEMMA TellKeeps ==
    ASSUME SendPart, NEW m \in Messages, Tell(m)
    PROVE  /\ SendPartNext /\ OnItsWay' \subseteq OnItsWay
           /\ MessagesAt("counted")' = MessagesAt("counted")
<1>1. /\ message[m].at = "telling" /\ message[m].result \in {"sent", "failed"}
      /\ message[m].result = "sent" <=> m \in InSeq(wire)
      /\ "telling" \in Going /\ "counting" \in Going /\ "counting" \in Places
  BY KnownOf DEF Tell, SendPart, Going, Places, WireIsRight
<1>3. Becomes(m, "counting", message[m].result, message[m].result)
    <2>2. message' \in [Messages -> MessageType]
    BY <1>1, MessageKeepsTypes DEF SendPart, Tell, MessageType, SendTypes
    <2> QED BY <2>2 DEF Tell, Becomes, MessageType, SendPart, SendTypes
<1> QED
  BY <1>1, <1>3, WireStays, GoesOnItsWay DEF SendPartNext, SendPart, Answered, Tell, SendTypes,
     Becomes

\* The last of those it counts leaves nobody behind.
LEMMA CountDownKeeps ==
    ASSUME SendPart, NEW m \in Messages, CountDown(m)
    PROVE  /\ SendPartNext /\ OnItsWay' \subseteq OnItsWay
           /\ MessagesAt("counted")' = MessagesAt("counted")
<1>1. /\ message[m].at = "counting" /\ m \in OnItsWay /\ m \in Counted
      /\ message[m].told \in {"no", "sent", "failed"} /\ message[m].result \in {"sent", "failed"}
  BY PlacesNow, KnownOf DEF CountDown, SendPart, Outside, Uncounted
<1>3. /\ IsFiniteSet(Counted) /\ sends = Cardinality(Counted) /\ sends \in Nat
      /\ OnItsWay = {m} /\ MessagesAt("left") = {}
  BY <1>1 DEF SendPart, CountIsRight, SendTypes, OneGoes
<1>4. /\ IsFiniteSet(Counted \ {m}) /\ Cardinality(Counted \ {m}) = sends - 1
      /\ sends - 1 \in Nat
    <2>2. Cardinality(Counted \ {m}) \in Nat
    BY <1>1, <1>3, FS_RemoveElement, FS_CardinalityType
    <2> QED BY <1>1, <1>3, <2>2, FS_RemoveElement
<1>5. ASSUME NEW at \in {"popping", "done"}, Goes(m, at), at = "popping" <=> sends > 1
      PROVE  /\ SendPartNext /\ OnItsWay' \subseteq OnItsWay
             /\ MessagesAt("counted")' = MessagesAt("counted")
    <2>1. at \in Places /\ at \in Uncounted /\ (at \in Outside <=> at = "done")
    BY DEF Places, Outside, Uncounted
    <2>2. Becomes(m, at, message[m].told, message[m].result)
    BY <1>5, <2>1, MessageMoves DEF SendPart
    <2>3. Counted' = Counted \ {m}
    BY <2>1, <2>2, PlacesAfter
    <2>4. OnItsWay' = IF at = "done" THEN {} ELSE {m}
    BY <1>3, <2>1, <2>2, PlacesAfter
    <2>5. \A x \in {"counted", "queued", "left"} : MessagesAt(x)' = MessagesAt(x)
    BY <1>1, <2>1, <2>2, PlacesAfter DEF Places, Outside, MessagesAt
    <2>8. OneGoes'
    BY <1>3, <1>4, <1>5, <2>3, <2>4, <2>5, FS_EmptySet DEF OneGoes, MessagesAt, OnItsWay, Outside
    <2>10. WireIsRight'
    BY <1>1, <2>1, <2>2, WireStays DEF SendPart, Answered, WireIsRight, CountDown
    <2> QED
    BY <1>3, <1>4, <2>2, <2>3, <2>4, <2>5, <2>8, <2>10 DEF SendPartNext, CountIsRight,
       QueueIsRight, SendPart, SendTypes, Becomes, CountDown
<1> QED BY <1>5 DEF CountDown

\* The queue is not empty, unless a message was counted and not yet queued.
LEMMA PopKeeps ==
    ASSUME SendPart, NEW m \in Messages, Pop(m)
    PROVE  /\ SendPartNext /\ OnItsWay # {}
           /\ wsCrashed' = "queue" => MessagesAt("counted")' # {} \/ wsCrashed = "queue"
           /\ MessagesAt("counted")' = MessagesAt("counted")
<1>1. /\ message[m].at = "popping" /\ m \in OnItsWay /\ m \in MessagesAt("popping")
      /\ sends' = sends /\ wire' = wire
  BY PlacesNow DEF Pop, MessagesAt, Outside
<1>2. OnItsWay = {m} /\ MessagesAt("left") = {} /\ Counted # {}
  BY <1>1 DEF SendPart, OneGoes
<1>3. Counted = MessagesAt("counted") \cup MessagesAt("queued")
  BY <1>1, <1>2 DEF Counted
<1>4. CASE outgoing = <<>>
    <2>1. message' = message /\ outgoing' = outgoing /\ wsCrashed' = "queue"
    BY <1>4 DEF Pop
    <2>5. SendPartNext
    BY <1>1, <2>1 DEF SendPart, SendPartNext, SendTypes, OneGoes, CountIsRight, QueueIsRight,
       WireIsRight, Counted, OnItsWay, MessagesAt
    <2> QED
    BY <1>2, <1>3, <1>4, <2>1, <2>5, NothingInIt DEF MessagesAt, SendPart, QueueIsRight, SendTypes
<1>5. CASE outgoing # <<>>
    <2> DEFINE h == Head(outgoing)
    <2>1. /\ outgoing' = Tail(outgoing) /\ wsCrashed' = wsCrashed
          /\ message' = [message EXCEPT ![m].at = "done", ![h].at = "next"]
    BY <1>5 DEF Pop
    <2>2. outgoing \in Seq(Messages) /\ message \in [Messages -> MessageType]
    BY DEF SendPart, SendTypes
    <2>3. /\ h \in Messages /\ outgoing' \in Seq(Messages) /\ Len(outgoing') = Len(outgoing) - 1
          /\ Len(outgoing) > 0 /\ Len(outgoing) \in Nat
    BY <1>5, <2>1, <2>2, AppendedAndTail
    <2>4. /\ InSeq(outgoing) = InSeq(outgoing') \cup {h} /\ NoTwice(outgoing')
          /\ h \notin InSeq(outgoing')
    BY <1>5, <2>1, <2>2, InTail DEF SendPart, QueueIsRight
    <2> HIDE DEF h
    <2>5. h \in MessagesAt("queued") /\ message[h].at = "queued" /\ h # m
    BY <1>1, <2>4 DEF SendPart, QueueIsRight, MessagesAt
    <2>6. /\ message'[m].at = "done" /\ message'[m].told = message[m].told
          /\ message'[m].result = message[m].result
          /\ message'[h].at = "next" /\ message'[h].told = message[h].told
          /\ message'[h].result = message[h].result
          /\ \A n \in Messages \ {m, h} : message'[n] = message[n]
          /\ message' \in [Messages -> MessageType]
        <3>1. message[m] \in MessageType /\ message[h] \in MessageType
      BY <2>2, <2>3
        <3> QED BY <2>1, <2>2, <2>3, <2>5, <3>1 DEF MessageType, Places, Outside
    <2>8. /\ MessagesAt("queued")' = MessagesAt("queued") \ {h}
          /\ MessagesAt("counted")' = MessagesAt("counted") /\ MessagesAt("left")' = {}
    BY <1>1, <1>2, <2>5, <2>6 DEF MessagesAt
    <2>9. OnItsWay' = {h} /\ MessagesAt("popping")' = {}
    BY <1>2, <2>3, <2>5, <2>6, PlacesNow DEF OnItsWay, MessagesAt, Outside
    <2>11. OneGoes' /\ CountIsRight'
    BY <1>1, <1>3, <2>5, <2>8, <2>9 DEF SendPart, OneGoes, CountIsRight, Counted
    <2>12. QueueIsRight'
        <3>2. Cardinality(MessagesAt("queued") \ {h}) = Cardinality(MessagesAt("queued")) - 1
      BY <1>3, <2>5, FS_Subset, FS_RemoveElement DEF SendPart, CountIsRight
        <3> QED BY <2>3, <2>4, <2>8, <3>2 DEF SendPart, QueueIsRight
    <2>13. WireIsRight'
        <3>1. ASSUME NEW n \in Messages
              PROVE  /\ n \in InSeq(wire) =>
                            message'[n].at \in Answered \cup {"telling"} /\ message'[n].result = "sent"
                     /\ message'[n].at = "telling" /\ message'[n].result = "sent" => n \in InSeq(wire)
                     /\ message'[n].told = "sent" => n \in InSeq(wire)
                     /\ message'[n].told = "failed" => n \notin InSeq(wire)
                     /\ message'[n].at \in Answered => message'[n].told # "no"
                     /\ message'[n].at \notin Answered \cup {"left"} => message'[n].told = "no"
                     /\ message'[n].result = "failed" => message'[n].at \in Answered \cup {"telling"}
            <4>1. CASE n = m
        BY <1>1, <2>6, <4>1 DEF SendPart, WireIsRight, Answered
            <4>2. CASE n = h
        BY <2>5, <2>6, <4>2 DEF SendPart, WireIsRight, Answered
            <4>3. CASE n \notin {m, h}
        BY <2>6, <4>3 DEF SendPart, WireIsRight
            <4> QED BY <4>1, <4>2, <4>3
        <3> QED BY <1>1, <3>1 DEF SendPart, WireIsRight
    <2>14. SendTypes'
    BY <1>1, <2>3, <2>6 DEF SendPart, SendTypes
    <2> QED BY <1>2, <2>1, <2>8, <2>11, <2>12, <2>13, <2>14 DEF SendPartNext
<1> QED BY <1>4, <1>5

LEMMA PushKeeps ==
    ASSUME SendPart, NEW m \in Messages, Push(m)
    PROVE  SendPartNext /\ OnItsWay' \subseteq OnItsWay
<1>1. /\ message[m].at = "counted" /\ m \notin OnItsWay /\ m \in Counted
      /\ message[m].told = "no" /\ message[m].result = "sent" /\ m \notin InSeq(wire)
  BY PlacesNow, KnownOf DEF Push, SendPart, Outside, Uncounted
<1>2. /\ sends' = sends /\ wire' = wire /\ outgoing' = Append(outgoing, m)
      /\ "queued" \in Places /\ "queued" \in Outside /\ "queued" \notin Uncounted
  BY DEF Push, Places, Outside, Uncounted
<1>3. Becomes(m, "queued", "no", "sent")
  BY <1>1, <1>2, MessageMoves DEF SendPart, Push
<1>4. Counted' = Counted /\ OnItsWay' = OnItsWay
    <2>1. Counted' = Counted \cup {m} /\ OnItsWay' = OnItsWay \ {m}
    BY <1>2, <1>3, PlacesAfter
    <2> QED BY <1>1, <2>1
<1>5. /\ MessagesAt("queued")' = MessagesAt("queued") \cup {m} /\ m \notin MessagesAt("queued")
      /\ MessagesAt("left")' = MessagesAt("left") /\ MessagesAt("popping")' = MessagesAt("popping")
  BY <1>1, <1>2, <1>3, PlacesAfter DEF MessagesAt, Places, Outside
<1>7. /\ outgoing' \in Seq(Messages) /\ Len(outgoing') = Len(outgoing) + 1
      /\ InSeq(outgoing') = InSeq(outgoing) \cup {m}
      /\ \A j \in 1..Len(outgoing) : outgoing'[j] = outgoing[j]
      /\ outgoing'[Len(outgoing) + 1] = m
      /\ DOMAIN outgoing = 1..Len(outgoing) /\ Len(outgoing) \in Nat
  BY <1>2, AppendedAndTail DEF SendPart, SendTypes
<1>8. NoTwice(outgoing')
  BY <1>5, <1>7, LenProperties DEF NoTwice, SendPart, QueueIsRight, InSeq
<1>9. QueueIsRight'
    <2>2. Cardinality(MessagesAt("queued") \cup {m}) = Cardinality(MessagesAt("queued")) + 1
    BY <1>5, FS_Subset, FS_AddElement DEF SendPart, CountIsRight, Counted
    <2> QED BY <1>5, <1>7, <1>8, <2>2 DEF SendPart, QueueIsRight
<1> QED
  BY <1>1, <1>2, <1>3, <1>4, <1>5, <1>7, <1>9, WireStays DEF SendPartNext, SendPart, OneGoes,
     CountIsRight, Answered, SendTypes, Becomes

\* A message starts at once only if nothing else is counted.
LEMMA SendMessageKeeps ==
    ASSUME SendPart, NEW m \in Messages, SendMessage(m)
    PROVE  SendPartNext /\ (OnItsWay' \subseteq OnItsWay \/ call.user)
<1>1. /\ message[m].at = "new" /\ m \notin OnItsWay /\ m \notin Counted /\ call.user
      /\ message[m].told = "no" /\ message[m].result = "sent" /\ m \notin InSeq(wire)
  BY PlacesNow, KnownOf DEF SendMessage, SendPart, Outside, Uncounted
<1>2. wire' = wire /\ outgoing' = outgoing
  BY DEF SendMessage
<1>3. ASSUME NEW at \in Places \ {"new", "popping", "queued", "left"}, NEW told, NEW result, Becomes(m, at, told, result)
      PROVE  /\ MessagesAt("queued")' = MessagesAt("queued") /\ MessagesAt("left")' = MessagesAt("left")
             /\ MessagesAt("popping")' = MessagesAt("popping")
  BY <1>1, <1>3, PlacesAfter DEF Places, Outside, MessagesAt
<1>4. CASE sends' = sends /\ message' = [message EXCEPT ![m].at = "done", ![m].told = "failed"]
    <2>1. Becomes(m, "done", "failed", "sent")
        <3>2. message' \in [Messages -> MessageType]
      BY <1>4, MessageKeepsTypes DEF SendPart, Places, Outside, SendTypes
        <3> QED BY <1>1, <1>4, <3>2 DEF Becomes, MessageType, SendPart, SendTypes
    <2>2. "done" \in Places /\ "done" \in Outside /\ "done" \in Uncounted
    BY DEF Places, Outside, Uncounted
    <2>3. Counted' = Counted /\ OnItsWay' = OnItsWay
        <3>1. Counted' = Counted \ {m} /\ OnItsWay' = OnItsWay \ {m}
      BY <2>1, <2>2, PlacesAfter
        <3> QED BY <1>1, <3>1
    <2> QED
    BY <1>1, <1>2, <1>3, <1>4, <2>1, <2>2, <2>3, WireStays DEF SendPartNext, SendPart, OneGoes,
       CountIsRight, QueueIsRight, SendTypes, Becomes, Answered
<1>5. ASSUME NEW at \in {"starting", "counted"}, Goes(m, at), sends' = sends + 1,
             at = "starting" <=> sends = 0
      PROVE  SendPartNext
    <2>1. at \in Places /\ at \notin Uncounted /\ (at \in Outside <=> at = "counted")
    BY DEF Places, Outside, Uncounted
    <2>2. Becomes(m, at, "no", "sent")
    BY <1>1, <1>5, <2>1, MessageMoves DEF SendPart
    <2>3. Counted' = Counted \cup {m}
    BY <2>1, <2>2, PlacesAfter
    <2>5. sends = 0 <=> Counted = {}
    BY FS_EmptySet DEF SendPart, CountIsRight
    <2>6. OnItsWay' = IF at = "counted" THEN OnItsWay ELSE {m}
        <3>1. OnItsWay' = IF at \in Outside THEN OnItsWay \ {m} ELSE OnItsWay \cup {m}
      BY <2>1, <2>2, PlacesAfter
        <3>2. at = "starting" => OnItsWay = {}
            <4>1. ASSUME Counted = {}
                  PROVE  OnItsWay = {}
        BY <4>1 DEF Counted, SendPart, OneGoes
            <4> QED BY <1>5, <2>5, <4>1
        <3> QED BY <1>1, <2>1, <3>1, <3>2
    <2>7. /\ MessagesAt("queued")' = MessagesAt("queued") /\ MessagesAt("left")' = MessagesAt("left")
          /\ MessagesAt("popping")' = MessagesAt("popping")
    BY <1>3, <2>1, <2>2
    <2>8. CountIsRight' /\ QueueIsRight'
    BY <1>1, <1>2, <1>5, <2>3, <2>7, FS_AddElement DEF SendPart, CountIsRight, QueueIsRight
    <2>9. OneGoes'
        <3>1. CASE at = "counted"
      BY <1>5, <2>3, <2>5, <2>6, <2>7, <3>1 DEF SendPart, OneGoes
        <3>2. CASE at = "starting"
      BY <1>5, <2>3, <2>5, <2>6, <2>7, <3>2 DEF OneGoes, Counted, SendPart
        <3> QED BY <3>1, <3>2
    <2> QED
    BY <1>1, <1>2, <1>5, <2>1, <2>2, <2>8, <2>9, WireStays DEF SendPartNext, SendPart, Answered,
       SendTypes, Becomes
<1> QED BY <1>1, <1>4, <1>5 DEF SendMessage

-----------------------------------------------------------------------------
(* The websocket client: receiving.                                           *)

LEMMA ReceiveFacts ==
    ASSUME ReceiveTypes
    PROVE  /\ DOMAIN awaiting = 1..Len(awaiting) /\ Len(awaiting) \in Nat
           /\ InSeq(awaiting) \subseteq 1..Receives
           /\ DOMAIN incoming = 1..Len(incoming) /\ Len(incoming) \in Nat
           /\ InSeq(incoming) \subseteq 1..MaxIncoming
           /\ Receives \in Nat /\ MaxIncoming \in Nat /\ arrived \in Nat
           /\ \A r \in 1..Receives : /\ received[r].is \in {"new", "waiting", "message", "error"}
                                     /\ received[r].m \in 0..MaxIncoming
           /\ inHand.m \in 0..MaxIncoming /\ inHand.r \in 0..Receives
  BY WsAssumption, AppendedAndTail DEF ReceivedType, ReceiveTypes

\* The tasks that wait are told of an error; a task that is in hand is not one.
LEMMA ClosePendingKeeps ==
    ASSUME ReceiveTypes, ReceivePart, ClosePending, UNCHANGED <<arrived, incoming, inHand>>,
           wsCrashed' = wsCrashed
    PROVE  ReceivePart'
<1>1. /\ clientClosed' = TRUE /\ awaiting' = <<>> /\ arrived' = arrived /\ incoming' = incoming
      /\ inHand' = inHand
      /\ \A r \in 1..Receives : received'[r] =
            IF r \in InSeq(awaiting) THEN [is |-> "error", m |-> 0] ELSE received[r]
  BY DEF ClosePending, InSeq
<1>7. WaitingIsRight'
  BY <1>1 DEF WaitingIsRight, Rising, InSeq
<1> QED
  BY <1>1, <1>7 DEF ReceivePart, CallsInOrder, ToldInOrder, KeptIsRight, InHandIsRight, InSeq,
     WaitingIsRight, Told, NoneLost

LEMMA OnMessageKeeps ==
    ASSUME ReceiveTypes, LifeTypes, ReceivePart, wsCrashed = "no", OnMessage
    PROVE  ReceiveTypes' /\ ReceivePart'
<1>1. /\ inHand = Nobody /\ arrived < wsWorld.incoming /\ arrived' = arrived + 1
      /\ received' = received /\ clientClosed' = clientClosed
  BY DEF OnMessage
<1>2. /\ Receives \in Nat /\ MaxIncoming \in Nat /\ arrived \in Nat
      /\ wsWorld.incoming \in 0..MaxIncoming
  BY ReceiveFacts, WsAssumption DEF LifeTypes, WsWorld
<1>3. arrived + 1 \in 1..MaxIncoming /\ arrived' \in 0..MaxIncoming
  BY <1>1, <1>2
<1>4. Told' = Told /\ {received'[r].m : r \in Told'} = {received[r].m : r \in Told}
  BY <1>1 DEF Told
<1>5. /\ Nobody.m = 0 /\ Nobody.r = 0 /\ inHand.m = 0 /\ inHand.r = 0
  BY <1>1 DEF Nobody
<1>6. \A r \in Told : r \in 1..Receives /\ received[r].m \in Nat
  BY <1>2, ReceiveFacts DEF Told
<1>7. CASE impl = "gone"
    <2>1. wsCrashed' = "handler" /\ incoming' = incoming /\ awaiting' = awaiting /\ inHand' = inHand
    BY <1>7 DEF OnMessage
    <2>2. KeptIsRight'
    BY <1>1, <1>2, <1>4, <1>6, <2>1, ReceiveFacts DEF ReceivePart, KeptIsRight
    <2>3. ReceivePart'
    BY <1>1, <1>4, <2>1, <2>2 DEF ReceivePart, CallsInOrder, WaitingIsRight, InHandIsRight,
       ToldInOrder, NoneLost
    <2>4. ReceiveTypes'
    BY <1>1, <1>3, <2>1 DEF ReceiveTypes
    <2> QED BY <2>3, <2>4
<1>8. CASE impl # "gone" /\ awaiting = <<>>
    <2>1. /\ wsCrashed' = wsCrashed /\ incoming' = Append(incoming, arrived + 1)
          /\ awaiting' = awaiting /\ inHand' = inHand
    BY <1>1, <1>8 DEF OnMessage
    <2>2. /\ incoming' \in Seq(1..MaxIncoming) /\ Len(incoming') = Len(incoming) + 1
          /\ InSeq(incoming') = InSeq(incoming) \cup {arrived + 1}
          /\ \A j \in 1..Len(incoming) : incoming'[j] = incoming[j]
          /\ incoming'[Len(incoming) + 1] = arrived + 1
          /\ DOMAIN incoming = 1..Len(incoming) /\ Len(incoming) \in Nat
        <3> DEFINE x == arrived + 1
                   S == 1..MaxIncoming
        <3>1. incoming \in Seq(S) /\ x \in S
      BY <1>3 DEF ReceiveTypes
        <3> HIDE DEF x, S
        <3>2. /\ Append(incoming, x) \in Seq(S) /\ Len(Append(incoming, x)) = Len(incoming) + 1
              /\ InSeq(Append(incoming, x)) = InSeq(incoming) \cup {x}
              /\ \A j \in 1..Len(incoming) : Append(incoming, x)[j] = incoming[j]
              /\ Append(incoming, x)[Len(incoming) + 1] = x
              /\ DOMAIN incoming = 1..Len(incoming) /\ Len(incoming) \in Nat
      BY <3>1, AppendedAndTail
        <3> QED BY <2>1, <3>2 DEF x, S
    <2>3. DOMAIN incoming' = 1..(Len(incoming) + 1)
    BY <2>2, LenProperties
    <2>4. KeptIsRight'
        <3>1. \A j \in DOMAIN incoming' : incoming'[j] = arrived' - Len(incoming') + j
            <4>1. \A j \in 1..Len(incoming) : incoming[j] = arrived - Len(incoming) + j
        BY <2>2 DEF ReceivePart, KeptIsRight
            <4>2. SUFFICES ASSUME NEW j \in 1..(Len(incoming) + 1)
                           PROVE  incoming'[j] = (arrived + 1) - (Len(incoming) + 1) + j
        BY <1>1, <2>2, <2>3
            <4>3. CASE j = Len(incoming) + 1
        BY <1>2, <2>2, <4>3
            <4>4. CASE j # Len(incoming) + 1
                <5>1. j \in 1..Len(incoming)
          BY <2>2, <4>4
                <5> QED BY <1>2, <2>2, <4>1, <5>1
            <4> QED BY <4>3, <4>4
        <3>2. Len(incoming') <= arrived' /\ \A r \in Told : received[r].m <= arrived' - Len(incoming')
      BY <1>1, <1>2, <1>6, <2>2 DEF ReceivePart, KeptIsRight
        <3> QED BY <1>1, <1>4, <3>1, <3>2 DEF KeptIsRight
    <2>5. NoneLost'
        <3>1. 1..(arrived + 1) = (1..arrived) \cup {arrived + 1}
      BY <1>2
        <3> QED BY <1>1, <1>4, <2>1, <2>2, <3>1 DEF ReceivePart, NoneLost
    <2>6. ReceivePart'
    BY <1>1, <1>4, <1>8, <2>1, <2>4, <2>5 DEF ReceivePart, CallsInOrder, WaitingIsRight,
       InHandIsRight, ToldInOrder
    <2>7. ReceiveTypes'
    BY <1>1, <1>3, <2>1, <2>2 DEF ReceiveTypes
    <2> QED BY <2>6, <2>7
<1>9. CASE impl # "gone" /\ awaiting # <<>>
    <2> DEFINE h == Head(awaiting)
    <2>1. /\ wsCrashed' = wsCrashed /\ incoming' = incoming
          /\ inHand' = [m |-> arrived + 1, r |-> h] /\ awaiting' = Tail(awaiting)
    BY <1>1, <1>9 DEF OnMessage
    <2>2. /\ awaiting' \in Seq(1..Receives) /\ h \in 1..Receives
          /\ InSeq(awaiting) = InSeq(awaiting') \cup {h}
    BY <1>9, <2>1, AppendedAndTail, InTail DEF ReceiveTypes
    <2>3. Rising(awaiting') /\ \A x \in InSeq(awaiting') : h < x
        <3>1. 1..Receives \subseteq Nat /\ Rising(awaiting)
      BY <1>2 DEF ReceivePart, WaitingIsRight
        <3> QED BY <1>9, <2>1, <3>1, InTail DEF ReceiveTypes
    <2> HIDE DEF h
    <2>4. inHand'.m = arrived + 1 /\ inHand'.r = h /\ incoming = <<>>
    BY <1>9, <2>1 DEF ReceivePart
    <2>5. Len(incoming) = 0
    BY <2>4
    <2>6. \A r \in InSeq(awaiting') : r \in 1..Receives /\ r # h
        <3>1. InSeq(awaiting') \subseteq 1..Receives
      BY <2>2, AppendedAndTail
        <3> QED BY <2>2, <2>3, <3>1
    <2>7. WaitingIsRight'
    BY <1>1, <1>4, <2>2, <2>3, <2>4, <2>6 DEF ReceivePart, WaitingIsRight
    <2>8. InHandIsRight'
        <3>1. received[h].is = "waiting" /\ \A r \in Told : r < h
      BY <2>2 DEF ReceivePart, WaitingIsRight
        <3>2. \A r \in Told : received[r].m < arrived + 1
      BY <1>2, <1>6, <2>5 DEF ReceivePart, KeptIsRight
        <3> QED BY <1>1, <1>2, <1>4, <2>1, <2>2, <2>3, <2>4, <3>1, <3>2 DEF InHandIsRight
    <2>9. KeptIsRight'
        <3>1. DOMAIN incoming' = {}
      BY <2>1, <2>4
        <3>2. Len(incoming') <= arrived' /\ \A r \in Told : received[r].m <= arrived' - Len(incoming')
      BY <1>1, <1>2, <1>6, <2>1, <2>5 DEF ReceivePart, KeptIsRight
        <3> QED BY <1>1, <1>4, <3>1, <3>2 DEF KeptIsRight
    <2>10. NoneLost'
        <3>1. 1..(arrived + 1) = (1..arrived) \cup {arrived + 1} /\ arrived + 1 # 0
      BY <1>2
        <3>2. 1..arrived = {received[r].m : r \in Told} \cup InSeq(incoming)
      BY <1>5 DEF ReceivePart, NoneLost
        <3>3. {inHand'.m} \ {0} = {arrived + 1}
      BY <2>4, <3>1
        <3> QED BY <1>1, <1>4, <2>1, <3>1, <3>2, <3>3 DEF NoneLost
    <2>11. CallsInOrder' /\ ToldInOrder'
    BY <1>1, <1>4 DEF ReceivePart, CallsInOrder, ToldInOrder
    <2>12. incoming' = <<>> /\ clientClosed' = FALSE
    BY <1>1, <1>9, <2>1, <2>4 DEF ReceivePart, ReceiveTypes
    <2>13. ReceiveTypes'
    BY <1>1, <1>2, <1>3, <2>1, <2>2 DEF ReceiveTypes
    <2> QED BY <2>7, <2>8, <2>9, <2>10, <2>11, <2>12, <2>13 DEF ReceivePart
<1> QED BY <1>7, <1>8, <1>9

LEMMA DeliverKeeps ==
    ASSUME ReceiveTypes, ReceivePart, wsCrashed = "no", Deliver
    PROVE  ReceiveTypes' /\ ReceivePart'
<1>1. /\ inHand # Nobody /\ inHand' = Nobody /\ arrived' = arrived /\ incoming' = incoming
      /\ awaiting' = awaiting /\ clientClosed' = clientClosed /\ wsCrashed' = wsCrashed
      /\ received' = [received EXCEPT ![inHand.r] = [is |-> "message", m |-> inHand.m]]
  BY DEF Deliver
<1> DEFINE h == inHand.r
<1>2. /\ inHand.m = arrived /\ h \in 1..Receives
      /\ received[h].is = "waiting" /\ incoming = <<>>
      /\ \A r \in Told : r < h /\ received[r].m < arrived
      /\ \A q \in InSeq(awaiting) : h < q
  BY <1>1 DEF ReceivePart, InHandIsRight
<1>3. /\ Receives \in Nat /\ MaxIncoming \in Nat /\ arrived \in Nat
      /\ inHand.m \in 0..MaxIncoming /\ InSeq(awaiting) \subseteq 1..Receives
  BY ReceiveFacts
<1>4. inHand'.m = 0 /\ inHand'.r = 0
  BY <1>1 DEF Nobody
<1> HIDE DEF h
<1>5. \A r \in 1..Receives : received'[r] = IF r = h THEN [is |-> "message", m |-> arrived] ELSE received[r]
  BY <1>1, <1>2 DEF ReceiveTypes, h
<1>6. ReceiveTypes'
    <2>1. [is |-> "message", m |-> inHand.m] \in ReceivedType
    BY <1>3 DEF ReceivedType
    <2>2. received' \in [1..Receives -> ReceivedType]
    BY <1>1, <2>1 DEF ReceiveTypes
    <2>3. inHand' \in [m : 0..MaxIncoming, r : 0..Receives]
    BY <1>1, <1>3 DEF Nobody
    <2> QED BY <1>1, <2>2, <2>3 DEF ReceiveTypes
<1>7. Told' = Told \cup {h} /\ h \notin Told /\ Told \subseteq 1..Receives
  BY <1>2, <1>5 DEF Told
<1>8. CallsInOrder'
    <2>1. \A r \in 1..Receives : received'[r].is = "new" <=> received[r].is = "new"
    BY <1>2, <1>5
    <2> QED BY <2>1 DEF ReceivePart, CallsInOrder
<1>9. WaitingIsRight'
    <2>1. ASSUME NEW q \in InSeq(awaiting)
          PROVE  received'[q].is = "waiting" /\ q # 0 /\ \A r \in Told' : r < q
    BY <1>2, <1>3, <1>5, <1>7, <2>1 DEF ReceivePart, WaitingIsRight
    <2> QED BY <1>1, <1>4, <2>1 DEF ReceivePart, WaitingIsRight
<1>10. ToldInOrder'
    <2>1. SUFFICES ASSUME NEW r \in Told', NEW q \in Told', r < q
                   PROVE  received'[r].m < received'[q].m
    BY DEF ToldInOrder
    <2>2. r \in Told
        <3>1. r \in 1..Receives /\ q \in 1..Receives /\ q \in Told \cup {h} /\ r \in Told \cup {h}
      BY <1>2, <1>7
        <3>2. q \in Told => q < h
      BY <1>2
        <3>3. r # h
      BY <1>2, <1>3, <2>1, <3>1, <3>2
        <3> QED BY <3>1, <3>3
    <2>3. CASE q = h
    BY <1>2, <1>5, <1>7, <2>2, <2>3
    <2>4. CASE q # h
    BY <1>5, <1>7, <2>1, <2>2, <2>4 DEF ReceivePart, ToldInOrder
    <2> QED BY <2>3, <2>4
<1>11. KeptIsRight'
    <2>1. Len(incoming) = 0 /\ DOMAIN incoming = {}
    BY <1>2
    <2>2. \A r \in Told' : received'[r].m <= arrived
    BY <1>2, <1>3, <1>5, <1>7, ReceiveFacts
    <2> QED BY <1>1, <1>3, <2>1, <2>2 DEF KeptIsRight
<1>12. NoneLost'
    <2>1. {received'[r].m : r \in Told'} = {received[r].m : r \in Told} \cup {arrived}
    BY <1>2, <1>5, <1>7
    <2>2. 1..arrived = {received[r].m : r \in Told} \cup InSeq(incoming) \cup ({arrived} \ {0})
    BY <1>2 DEF ReceivePart, NoneLost
    <2>3. arrived # 0
    BY <1>1, <1>3 DEF ReceivePart, InHandIsRight
    <2> QED BY <1>1, <1>4, <2>1, <2>2, <2>3 DEF NoneLost
<1>13. InHandIsRight'
  BY <1>1 DEF InHandIsRight
<1> QED BY <1>1, <1>2, <1>6, <1>8, <1>9, <1>10, <1>11, <1>12, <1>13 DEF ReceivePart

\* Calls are made in order, so those that wait and those that were told came
\* before this one.
LEMMA ReceiveCallKeeps ==
    ASSUME ReceiveTypes, ReceivePart, wsCrashed = "no", NEW r \in 1..Receives, ReceiveCall(r)
    PROVE  ReceiveTypes' /\ ReceivePart'
<1>1. /\ received[r].is = "new" /\ (r > 1 => received[r - 1].is # "new")
      /\ arrived' = arrived /\ inHand' = inHand /\ clientClosed' = clientClosed /\ wsCrashed' = wsCrashed
  BY DEF ReceiveCall
<1>2. /\ DOMAIN awaiting = 1..Len(awaiting) /\ Len(awaiting) \in Nat
      /\ InSeq(awaiting) \subseteq 1..Receives
      /\ DOMAIN incoming = 1..Len(incoming) /\ Len(incoming) \in Nat
      /\ Receives \in Nat /\ MaxIncoming \in Nat /\ arrived \in Nat
      /\ \A q \in 1..Receives : received[q].m \in 0..MaxIncoming
  BY ReceiveFacts
<1>3. \A q \in 1..Receives : /\ q < r => received[q].is # "new"
                             /\ q > r => received[q].is = "new"
    <2>1. SUFFICES ASSUME NEW q \in 1..Receives
                   PROVE  (q < r => received[q].is # "new") /\ (q > r => received[q].is = "new")
    OBVIOUS
    <2>2. CASE q < r - 1
    BY <1>1, <1>2, <2>2 DEF ReceivePart, CallsInOrder
    <2>3. CASE q >= r - 1
    BY <1>1, <1>2, <2>3 DEF ReceivePart, CallsInOrder
    <2> QED BY <1>2, <2>2, <2>3
<1>4. \A q \in 1..Receives : received[q].is # "new" => q < r
  BY <1>1, <1>2, <1>3
<1>5. /\ \A q \in Told : q \in 1..Receives /\ q < r
      /\ \A q \in InSeq(awaiting) : q < r /\ q # r
      /\ inHand # Nobody => inHand.r < r
  BY <1>2, <1>4 DEF Told, ReceivePart, WaitingIsRight, InHandIsRight
<1>6. ASSUME NEW v \in ReceivedType, v.is # "new", received' = [received EXCEPT ![r] = v]
      PROVE  /\ received' \in [1..Receives -> ReceivedType] /\ CallsInOrder'
             /\ \A q \in 1..Receives : received'[q] = IF q = r THEN v ELSE received[q]
             /\ Told' = IF v.is = "message" THEN Told \cup {r} ELSE Told
             /\ \A q \in Told : received'[q] = received[q]
  BY <1>1, <1>2, <1>3, <1>5, <1>6 DEF Told, ReceiveTypes, CallsInOrder
<1>7. CASE clientClosed
    <2> DEFINE v == [is |-> "error", m |-> 0]
    <2>1. received' = [received EXCEPT ![r] = v] /\ awaiting' = awaiting /\ incoming' = incoming
    BY <1>7 DEF ReceiveCall
    <2>2. v \in ReceivedType /\ v.is = "error"
    BY <1>2 DEF ReceivedType
    <2> HIDE DEF v
    <2>3. /\ received' \in [1..Receives -> ReceivedType] /\ CallsInOrder'
          /\ \A q \in 1..Receives : received'[q] = IF q = r THEN v ELSE received[q]
          /\ Told' = Told /\ \A q \in Told : received'[q] = received[q]
    BY <1>6, <2>1, <2>2
    <2>7. KeptIsRight' /\ ToldInOrder' /\ NoneLost'
    BY <1>1, <2>1, <2>3 DEF ReceivePart, KeptIsRight, ToldInOrder, NoneLost
    <2> QED
    BY <1>1, <1>2, <1>5, <1>7, <2>1, <2>3, <2>7 DEF ReceivePart, ReceiveTypes, WaitingIsRight,
       InHandIsRight, InSeq
<1>8. CASE ~clientClosed /\ incoming = <<>>
    <2> DEFINE v == [is |-> "waiting", m |-> 0]
    <2>1. received' = [received EXCEPT ![r] = v] /\ awaiting' = Append(awaiting, r) /\ incoming' = incoming
    BY <1>8 DEF ReceiveCall
    <2>2. v \in ReceivedType /\ v.is = "waiting"
    BY <1>2 DEF ReceivedType
    <2> HIDE DEF v
    <2>3. /\ received' \in [1..Receives -> ReceivedType] /\ CallsInOrder'
          /\ \A q \in 1..Receives : received'[q] = IF q = r THEN v ELSE received[q]
          /\ Told' = Told /\ \A q \in Told : received'[q] = received[q]
    BY <1>6, <2>1, <2>2
    <2>4. /\ awaiting' \in Seq(1..Receives) /\ Len(awaiting') = Len(awaiting) + 1
          /\ InSeq(awaiting') = InSeq(awaiting) \cup {r}
          /\ \A j \in 1..Len(awaiting) : awaiting'[j] = awaiting[j]
          /\ awaiting'[Len(awaiting) + 1] = r
        <3> DEFINE S == 1..Receives
        <3>1. awaiting \in Seq(S) /\ r \in S
      BY DEF ReceiveTypes
        <3> HIDE DEF S
        <3>2. /\ Append(awaiting, r) \in Seq(S) /\ Len(Append(awaiting, r)) = Len(awaiting) + 1
              /\ InSeq(Append(awaiting, r)) = InSeq(awaiting) \cup {r}
              /\ \A j \in 1..Len(awaiting) : Append(awaiting, r)[j] = awaiting[j]
              /\ Append(awaiting, r)[Len(awaiting) + 1] = r
      BY <3>1, AppendedAndTail
        <3> QED BY <2>1, <3>2 DEF S
    <2>5. Rising(awaiting')
        <3>4. \A j, k \in 1..(Len(awaiting) + 1) : j < k => awaiting'[j] < awaiting'[k]
            <4>1. SUFFICES ASSUME NEW j \in 1..(Len(awaiting) + 1), NEW k \in 1..(Len(awaiting) + 1), j < k
                           PROVE  awaiting'[j] < awaiting'[k]
        OBVIOUS
            <4>2. j \in 1..Len(awaiting)
        BY <1>2, <4>1
            <4>3. CASE k = Len(awaiting) + 1
        BY <1>2, <1>5, <2>4, <4>2, <4>3 DEF InSeq
            <4>4. CASE k \in 1..Len(awaiting)
        BY <1>2, <2>4, <4>1, <4>2, <4>4 DEF ReceivePart, WaitingIsRight, Rising
            <4> QED BY <2>4, <4>3, <4>4, LenProperties DEF ReceivePart, ReceiveTypes
        <3> QED BY <2>4, <3>4, LenProperties DEF Rising
    <2>7. WaitingIsRight'
        <3>1. ASSUME NEW q \in InSeq(awaiting')
              PROVE  received'[q].is = "waiting" /\ q # inHand.r /\ \A p \in Told : p < q
            <4>1. CASE q = r
        BY <1>1, <1>2, <1>5, <2>2, <2>3, <4>1 DEF Nobody, ReceivePart, InHandIsRight
            <4>2. CASE q # r
        BY <1>2, <2>3, <2>4, <3>1, <4>2 DEF ReceivePart, WaitingIsRight
            <4> QED BY <4>1, <4>2
        <3> QED BY <1>1, <2>3, <2>5, <3>1 DEF WaitingIsRight
    <2> QED
    BY <1>1, <1>2, <1>5, <1>8, <2>1, <2>3, <2>4, <2>7 DEF ReceivePart, ReceiveTypes, KeptIsRight,
       ToldInOrder, NoneLost, InHandIsRight, Nobody
<1>9. CASE ~clientClosed /\ incoming # <<>>
    <2> DEFINE h == Head(incoming)
               v == [is |-> "message", m |-> h]
    <2>1. received' = [received EXCEPT ![r] = v] /\ awaiting' = awaiting /\ incoming' = Tail(incoming)
    BY <1>9 DEF ReceiveCall
    <2>2. /\ incoming' \in Seq(1..MaxIncoming) /\ Len(incoming') = Len(incoming) - 1
          /\ \A j \in 1..(Len(incoming) - 1) : incoming'[j] = incoming[j + 1]
          /\ h = incoming[1] /\ h \in 1..MaxIncoming /\ Len(incoming) > 0
        <3> DEFINE S == 1..MaxIncoming
        <3>1. incoming \in Seq(S) /\ incoming # <<>>
      BY <1>9 DEF ReceiveTypes
        <3> HIDE DEF S
        <3>2. /\ Tail(incoming) \in Seq(S) /\ Len(Tail(incoming)) = Len(incoming) - 1
              /\ \A j \in 1..(Len(incoming) - 1) : Tail(incoming)[j] = incoming[j + 1]
              /\ Head(incoming) = incoming[1] /\ Head(incoming) \in S /\ Len(incoming) > 0
      BY <3>1, AppendedAndTail
        <3> QED BY <2>1, <3>2 DEF S
    <2>3. InSeq(incoming) = InSeq(incoming') \cup {h}
    BY <1>9, <2>1, InTail DEF ReceiveTypes
    <2>4. v \in ReceivedType /\ v.is = "message" /\ v.m = h
    BY <1>2, <2>2 DEF ReceivedType
    <2> HIDE DEF h, v
    <2>5. /\ received' \in [1..Receives -> ReceivedType] /\ CallsInOrder'
          /\ \A q \in 1..Receives : received'[q] = IF q = r THEN v ELSE received[q]
          /\ Told' = Told \cup {r} /\ \A q \in Told : received'[q] = received[q]
    BY <1>6, <2>1, <2>4
    <2>7. received'[r].m = h /\ h = arrived - Len(incoming) + 1
        <3>1. 1 \in DOMAIN incoming
      BY <1>2, <2>2
        <3> QED BY <2>2, <2>4, <2>5, <3>1 DEF ReceivePart, KeptIsRight
    <2>9. ToldInOrder'
        <3>1. SUFFICES ASSUME NEW p \in Told', NEW q \in Told', p < q
                       PROVE  received'[p].m < received'[q].m
      BY DEF ToldInOrder
        <3>2. p \in Told
      BY <1>2, <1>5, <2>5, <3>1
        <3>4. CASE q = r
      BY <1>2, <1>5, <2>5, <2>7, <3>2, <3>4 DEF ReceivePart, KeptIsRight
        <3>5. CASE q # r
      BY <2>5, <3>1, <3>2, <3>5 DEF ReceivePart, ToldInOrder
        <3> QED BY <3>4, <3>5
    <2>10. KeptIsRight'
        <3>3. \A j \in 1..(Len(incoming) - 1) : incoming'[j] = arrived - (Len(incoming) - 1) + j
            <4>1. SUFFICES ASSUME NEW j \in 1..(Len(incoming) - 1)
                           PROVE  incoming'[j] = arrived - (Len(incoming) - 1) + j
        OBVIOUS
            <4>5. incoming[j + 1] = arrived - Len(incoming) + (j + 1)
        BY <1>2 DEF ReceivePart, KeptIsRight
            <4> QED BY <1>2, <2>2, <4>5
        <3>4. Len(incoming) - 1 <= arrived
      BY <1>2 DEF ReceivePart, KeptIsRight
        <3>5. ASSUME NEW q \in Told'
              PROVE  received'[q].m <= arrived - (Len(incoming) - 1)
            <4>1. CASE q = r
        BY <1>2, <2>7, <4>1
            <4>2. CASE q # r
        BY <1>2, <1>5, <2>5, <3>5, <4>2 DEF ReceivePart, KeptIsRight
            <4> QED BY <4>1, <4>2
        <3> QED BY <1>1, <2>2, <3>3, <3>4, <3>5, LenProperties DEF KeptIsRight
    <2>11. NoneLost'
    BY <1>1, <2>3, <2>5, <2>7 DEF ReceivePart, NoneLost
    <2> QED
    BY <1>1, <1>9, <2>1, <2>2, <2>5, <2>9, <2>10, <2>11 DEF ReceivePart, ReceiveTypes,
       InHandIsRight, InSeq, WaitingIsRight
<1> QED BY <1>7, <1>8, <1>9

-----------------------------------------------------------------------------
(* The websocket client: the connection and the objects.                      *)

LifePart == LifeTypes /\ ConnectionIsRight /\ OwnersAreRight
LifePartNext == LifeTypes' /\ ConnectionIsRight' /\ OwnersAreRight'

CallType == [user : BOOLEAN, connect : {"new", "pending", "failed", "done"}, close : BOOLEAN]
LEMMA CallChanges ==
    ASSUME call \in CallType
    PROVE  /\ \A c \in {"new", "pending", "failed", "done"} :
                LET new == [call EXCEPT !.connect = c]
                IN  new \in CallType /\ new.connect = c /\ new.user = call.user
           /\ LET new == [call EXCEPT !.user = FALSE]
              IN  new \in CallType /\ new.user = FALSE /\ new.connect = call.connect
           /\ LET new == [call EXCEPT !.close = TRUE]
              IN  new \in CallType /\ new.user = call.user /\ new.connect = call.connect
  BY DEF CallType

\* The steps of the connection keep what is known of it and of the objects.
LEMMA LifeStepKeeps ==
    ASSUME LifePart, wsCrashed = "no",
           WsConnect \/ WsClose \/ OnOpen \/ OnFailOrClose \/ ResetClient \/ FailConnect \/ SetClosed
    PROVE  LifePartNext /\ wsCrashed' = wsCrashed /\ UNCHANGED sending
<1>1. /\ wsCrashed' = wsCrashed /\ message' = message /\ UNCHANGED sending
      /\ wsWorld' = wsWorld /\ impl' = impl /\ dtor' = dtor
  BY DEF WsConnect, WsClose, OnOpen, OnFailOrClose, ResetClient, FailConnect, SetClosed, sending,
     life
<1>2. OnItsWay' = OnItsWay
  BY <1>1 DEF OnItsWay
<1>4. CASE WsConnect
  BY <1>1, <1>2, <1>4, CallChanges DEF LifePartNext, LifePart, LifeTypes, CallType,
     OwnersAreRight, ConnectionIsRight, WsConnect
<1>5. CASE WsClose
    <2>1. /\ call' = [call EXCEPT !.close = TRUE] /\ \E refused \in BOOLEAN : Closes(refused)
          /\ opened' = opened /\ closed' = closed /\ alive' = alive /\ shutdown' = shutdown
    BY <1>5 DEF WsClose
    <2> QED
    BY <1>1, <1>2, <2>1, CallChanges DEF LifePartNext, LifePart, OwnersAreRight, Closes,
       ConnectionIsRight, LifeTypes, CallType
<1>6. CASE OnOpen
  BY <1>1, <1>2, <1>6 DEF LifePartNext, LifePart, LifeTypes, ConnectionIsRight, OwnersAreRight,
     OnOpen
<1>7. CASE OnFailOrClose
  BY <1>1, <1>2, <1>7 DEF LifePartNext, LifePart, LifeTypes, ConnectionIsRight, OwnersAreRight,
     OnFailOrClose
<1>8. CASE ResetClient \/ FailConnect \/ SetClosed
    <2>1. /\ shutdown \in {"failing", "closing", "fail", "set"}
          /\ shutdown' \in {"fail", "handler", "over"} /\ alive' \in BOOLEAN /\ closed' \in BOOLEAN
          /\ opened' \in {opened, "failed"} /\ wsState' = wsState /\ link' = link /\ call' = call
    BY <1>8 DEF ResetClient, FailConnect, SetClosed, LifePart, LifeTypes
    <2> QED
    BY <1>1, <1>2, <2>1 DEF LifePartNext, LifePart, LifeTypes, ConnectionIsRight, OwnersAreRight
<1> QED BY <1>4, <1>5, <1>6, <1>7, <1>8

\* The close handler meets an object that is gone only if the user dropped it.
LEMMA CallCloseHandlerKeeps ==
    ASSUME LifePart, wsCrashed = "no", CallCloseHandler
    PROVE  /\ LifePartNext /\ UNCHANGED sending
           /\ wsCrashed' # "no" => wsCrashed' = "handler" /\ ~call'.user /\ dtor' # "over"
  BY DEF LifePartNext, LifePart, LifeTypes, ConnectionIsRight, OwnersAreRight, CallCloseHandler,
     sending, life, OnItsWay

\* The objects go when nothing of the client is under way.
LEMMA OwnersStepKeeps ==
    ASSUME LifePart, wsCrashed = "no",
           DropClient \/ ConnectDone \/ LastRelease \/ DtorBegins \/ DtorCloses \/ DtorEnds,
           closed => shutdown = "over"
    PROVE  LifePartNext /\ wsCrashed' = wsCrashed /\ UNCHANGED sending
<1>1. /\ wsCrashed' = wsCrashed /\ message' = message /\ UNCHANGED sending
      /\ wsWorld' = wsWorld /\ opened' = opened /\ closed' = closed /\ alive' = alive
      /\ shutdown' = shutdown
  BY DEF DropClient, ConnectDone, LastRelease, DtorBegins, DtorCloses, DtorEnds, connection,
     sending
<1>2. OnItsWay' = OnItsWay
  BY <1>1 DEF OnItsWay
<1>4. DestroyImpl => /\ impl' \in {"dying", "gone"} /\ dtor' \in {"begun", "none"}
                     /\ dtor' = "begun" => OnItsWay = {}
  BY DEF DestroyImpl
<1>5. CASE DropClient
    <2>2. call' \in CallType /\ call'.user = FALSE /\ call'.connect = call.connect
    BY <1>5, CallChanges DEF DropClient, connection, life, LifePart, LifeTypes, CallType
    <2> QED
    BY <1>1, <1>2, <1>4, <1>5, <2>2 DEF LifePartNext, LifePart, ConnectionIsRight, LifeTypes,
       CallType, OwnersAreRight, DropClient, connection, life
<1>6. CASE ConnectDone
  BY <1>1, <1>2, <1>4, <1>6, CallChanges DEF LifePartNext, LifePart, ConnectionIsRight, LifeTypes,
     CallType, ConnectDone, connection, life, OwnersAreRight
<1>7. CASE LastRelease
  BY <1>1, <1>2, <1>7 DEF LifePartNext, LifePart, LifeTypes, ConnectionIsRight, OwnersAreRight,
     LastRelease, connection
<1>8. CASE DtorBegins
  BY <1>1, <1>2, <1>8 DEF LifePartNext, LifePart, LifeTypes, ConnectionIsRight, OwnersAreRight,
     DtorBegins, ClientDestroyed
<1>9. CASE DtorCloses
  BY <1>1, <1>2, <1>9 DEF LifePartNext, LifePart, LifeTypes, ConnectionIsRight, OwnersAreRight,
     Closes, DtorCloses
<1>10. CASE DtorEnds
  BY <1>1, <1>2, <1>10 DEF LifePartNext, LifePart, LifeTypes, ConnectionIsRight, OwnersAreRight,
     DtorEnds, ClientDestroyed
<1> QED BY <1>5, <1>6, <1>7, <1>8, <1>9, <1>10

-----------------------------------------------------------------------------
(* The websocket client: the invariant holds.                                 *)

ClosedInOrder ==
    /\ shutdown \in {"set", "over"} => clientClosed \/ wsCrashed = "handler"
    /\ closed => shutdown = "over"

LEMMA InvInParts ==
    WsInv <=> /\ SendPart /\ ReceiveTypes /\ LifePart /\ ReceivePart /\ ClosedInOrder
              /\ wsCrashed = "queue" => MessagesAt("counted") # {}
              /\ wsCrashed = "handler" => ~call.user /\ dtor # "over"
  BY TypesInParts DEF WsInv, SendInv, ReceiveInv, LifeInv, SendPart, LifePart, ClosedInOrder

LEMMA SendStays == SendPart /\ UNCHANGED sending => SendPartNext
<1> SUFFICES ASSUME SendPart, UNCHANGED sending
             PROVE  SendPartNext
  OBVIOUS
<1>1. message' = message /\ sends' = sends /\ outgoing' = outgoing /\ wire' = wire
  BY DEF sending
<1> QED
  BY <1>1 DEF SendPart, SendPartNext, SendTypes, OneGoes, CountIsRight, QueueIsRight, WireIsRight,
     Counted, OnItsWay, MessagesAt

LEMMA ReceiveStays ==
    ASSUME ReceiveTypes, ReceivePart, UNCHANGED receiving, wsCrashed = "no" \/ wsCrashed' = wsCrashed
    PROVE  ReceiveTypes' /\ ReceivePart'
<1>2. Told' = Told
  BY DEF Told, receiving
<1> QED
  BY <1>2 DEF ReceivePart, CallsInOrder, WaitingIsRight, InHandIsRight, KeptIsRight, ToldInOrder,
     NoneLost, ReceiveTypes, receiving

LEMMA LifeStays ==
    ASSUME LifePart, UNCHANGED <<wsWorld, connection, call, life>>,
           wsCrashed' \in {"no", "queue", "handler"}, dtor = "none" \/ OnItsWay' \subseteq OnItsWay
    PROVE  LifePartNext
  BY DEF LifePart, LifePartNext, LifeTypes, ConnectionIsRight, OwnersAreRight, connection, life

LEMMA WsInvInit == WsInit => WsInv
<1> SUFFICES ASSUME WsInit
             PROVE  WsInv
  OBVIOUS
<1>2. SendTypes
  BY EmptySeq DEF WsInit, SendTypes, MessageType, Places, Outside
<1>3. ReceiveTypes
    <2>1. 0 \in 0..MaxIncoming /\ 0 \in 0..Receives
    BY WsAssumption
    <2> QED BY <2>1, EmptySeq DEF ReceiveTypes, ReceivedType, Nobody, WsInit
<1>5. /\ OnItsWay = {} /\ \A x \in {"popping", "counted", "queued", "left"} : MessagesAt(x) = {}
      /\ InSeq(<<>>) = {} /\ Len(<<>>) = 0 /\ DOMAIN <<>> = {}
  BY DEF WsInit, OnItsWay, MessagesAt, Outside, InSeq
<1>7. SendPart
  BY <1>2, <1>5, FS_EmptySet DEF WsInit, SendPart, OneGoes, CountIsRight, QueueIsRight,
     WireIsRight, NoTwice, Answered, Counted
<1>8. ReceivePart
    <2>1. Told = {} /\ inHand = Nobody /\ inHand.m = 0
    BY DEF WsInit, Told, Nobody
    <2> QED
    BY <1>5, <2>1 DEF WsInit, ReceivePart, CallsInOrder, WaitingIsRight, InHandIsRight,
       KeptIsRight, ToldInOrder, Rising, NoneLost
<1> QED
  BY <1>3, <1>7, <1>8, InvInParts DEF WsInit, ClosedInOrder, LifePart, LifeTypes,
     ConnectionIsRight, OwnersAreRight

\* The parts of the invariant after a step.
LEMMA InvNext ==
    ASSUME SendPartNext, ReceiveTypes', LifePartNext, ReceivePart', ClosedInOrder',
           wsCrashed' = "queue" => MessagesAt("counted")' # {},
           wsCrashed' = "handler" => ~call'.user /\ dtor' # "over"
    PROVE  WsInv'
<1>1. WsTypeOK'
  BY DEF WsTypeOK, SendPartNext, SendTypes, LifePartNext, LifeTypes, ReceiveTypes, MessageType,
     Places, ReceivedType
<1> QED BY <1>1 DEF WsInv, ReceiveInv, ClosedInOrder, SendInv, SendPartNext, LifeInv, LifePartNext

\* Sending.
LEMMA SendingStepInv ==
    ASSUME WsInv, wsCrashed = "no", NEW m \in Messages, SendMessage(m) \/ MessageStep(m)
    PROVE  WsInv'
<1>1. /\ SendPart /\ ReceiveTypes /\ LifePart /\ ReceivePart /\ ClosedInOrder
  BY InvInParts
<1>2. UNCHANGED <<wsWorld, connection, call, receiving, life>>
  BY DEF SendMessage, MessageStep, Push, SendMsg, BodyBuffered, Read, Write, Tell, CountDown, Pop
<1>3. /\ SendPartNext
      /\ OnItsWay' \subseteq OnItsWay \/ OnItsWay # {} \/ call.user
      /\ wsCrashed' = "no" \/ (wsCrashed' = "queue" /\ MessagesAt("counted")' # {})
    <2>1. CASE SendMessage(m)
    BY <1>1, <2>1, SendMessageKeeps DEF SendMessage
    <2>2. CASE Push(m)
    BY <1>1, <2>2, PushKeeps DEF Push
    <2>3. CASE SendMsg(m)
    BY <1>1, <2>3, SendMsgKeeps DEF SendMsg
    <2>4. CASE BodyBuffered(m) \/ Read(m)
    BY <1>1, <2>4, BodyKeeps DEF BodyBuffered, Read
    <2>5. CASE Write(m)
    BY <1>1, <2>5, WriteKeeps DEF Write
    <2>6. CASE Tell(m)
    BY <1>1, <2>6, TellKeeps DEF Tell
    <2>7. CASE CountDown(m)
    BY <1>1, <2>7, CountDownKeeps DEF CountDown
    <2>8. CASE Pop(m)
    BY <1>1, <2>8, PopKeeps DEF Pop
    <2> QED BY <2>1, <2>2, <2>3, <2>4, <2>5, <2>6, <2>7, <2>8 DEF MessageStep
<1> QED
  BY <1>1, <1>2, <1>3, LifeStays, ReceiveStays, InvNext DEF LifePart, OwnersAreRight,
     ClosedInOrder, connection, receiving

\* Receiving.
LEMMA ReceivingStepInv ==
    ASSUME WsInv, wsCrashed = "no", OnMessage \/ Deliver \/ \E r \in 1..Receives : ReceiveCall(r)
    PROVE  WsInv'
<1>1. /\ SendPart /\ ReceiveTypes /\ LifePart /\ ReceivePart /\ ClosedInOrder /\ LifeTypes
  BY InvInParts DEF LifePart
<1>6. LifePartNext
  BY <1>1, LifeStays DEF OnItsWay, sending, OnMessage, Deliver, ReceiveCall
<1> QED
  BY <1>1, <1>6, SendStays, OnMessageKeeps, DeliverKeeps, ReceiveCallKeeps, InvNext DEF
     ClosedInOrder, connection, LifePart, ConnectionIsRight, OwnersAreRight, OnMessage, life,
     Deliver, ReceiveCall

\* The connection.
LEMMA ConnectionStepInv ==
    ASSUME WsInv, wsCrashed = "no",
           WsConnect \/ WsClose \/ OnOpen \/ OnFailOrClose \/ ResetClient \/ FailConnect \/ SetClosed
    PROVE  WsInv'
<1>1. /\ SendPart /\ ReceiveTypes /\ LifePart /\ ReceivePart /\ ClosedInOrder /\ LifeTypes
  BY InvInParts DEF LifePart
<1>2. LifePartNext /\ wsCrashed' = wsCrashed /\ UNCHANGED sending
  BY <1>1, LifeStepKeeps
<1>3. UNCHANGED receiving
  BY DEF WsConnect, WsClose, OnOpen, OnFailOrClose, ResetClient, FailConnect, SetClosed
<1>5. ClosedInOrder'
    <2>1. CASE WsConnect \/ WsClose \/ OnOpen
    BY <1>1, <1>2, <1>3, <2>1 DEF ClosedInOrder, receiving, WsConnect, WsClose, OnOpen
    <2>2. CASE OnFailOrClose
    BY <1>1, <2>2 DEF ClosedInOrder, OnFailOrClose, LifePart, LifeTypes, ConnectionIsRight
    <2>3. CASE ResetClient \/ FailConnect
    BY <1>1, <2>3 DEF ClosedInOrder, ResetClient, FailConnect
    <2>4. CASE SetClosed
    BY <1>1, <1>2, <1>3, <2>4 DEF ClosedInOrder, receiving, SetClosed
    <2> QED BY <2>1, <2>2, <2>3, <2>4
<1> QED BY <1>1, <1>2, <1>3, <1>5, SendStays, ReceiveStays, InvNext

\* The close handler of the user.
LEMMA CloseHandlerInv ==
    ASSUME WsInv, wsCrashed = "no", CallCloseHandler
    PROVE  WsInv'
<1>1. /\ SendPart /\ ReceiveTypes /\ LifePart /\ ReceivePart /\ ClosedInOrder
  BY InvInParts
<1>4. ReceiveTypes' /\ ReceivePart' /\ (clientClosed' \/ wsCrashed' = "handler")
    <2>1. CASE impl = "gone"
    BY <1>1, <2>1, ReceiveStays DEF CallCloseHandler
    <2>2. CASE impl # "gone"
    BY <1>1, <2>2, ClosePendingKeeps, ClosePendingKeepsTypes DEF CallCloseHandler, ClosePending
    <2> QED BY <2>1, <2>2
<1> QED
  BY <1>1, <1>4, CallCloseHandlerKeeps, SendStays, InvNext DEF ClosedInOrder, CallCloseHandler

\* The objects.
LEMMA OwnersStepInv ==
    ASSUME WsInv, wsCrashed = "no",
           DropClient \/ ConnectDone \/ LastRelease \/ DtorBegins \/ DtorCloses \/ DtorEnds
    PROVE  WsInv'
<1>1. /\ SendPart /\ ReceiveTypes /\ LifePart /\ ReceivePart /\ ClosedInOrder
  BY InvInParts
<1>2. LifePartNext /\ wsCrashed' = wsCrashed /\ UNCHANGED sending
  BY <1>1, OwnersStepKeeps DEF ClosedInOrder
<1>4. UNCHANGED receiving \/ (ClosePending /\ UNCHANGED <<arrived, incoming, inHand>>)
    <2>1. CASE DropClient
    BY <2>1 DEF DropClient, DestroyImpl
    <2>2. CASE ConnectDone
    BY <2>2 DEF ConnectDone, DestroyImpl, receiving
    <2>3. CASE LastRelease \/ DtorBegins \/ DtorCloses \/ DtorEnds
    BY <2>3 DEF LastRelease, DtorBegins, DtorCloses, DtorEnds
    <2> QED BY <2>1, <2>2, <2>3
<1>5. ReceiveTypes' /\ ReceivePart' /\ (clientClosed => clientClosed')
    <2>1. CASE UNCHANGED receiving
    BY <1>1, <1>2, <2>1, ReceiveStays DEF receiving
    <2>2. CASE ClosePending /\ UNCHANGED <<arrived, incoming, inHand>>
    BY <1>1, <1>2, <2>2, ClosePendingKeeps, ClosePendingKeepsTypes DEF ClosePending
    <2> QED BY <1>4, <2>1, <2>2
<1>6. shutdown' = shutdown /\ closed' = closed
  BY DEF DropClient, ConnectDone, LastRelease, DtorBegins, DtorCloses, DtorEnds, connection
<1>7. ClosedInOrder'
  BY <1>1, <1>2, <1>5, <1>6 DEF ClosedInOrder
<1>8. SendPartNext
  BY <1>1, <1>2, SendStays
<1> QED BY <1>2, <1>5, <1>7, <1>8, InvNext

LEMMA WsInvStep == WsInv /\ [WsNext]_wsVars => WsInv'
<1> SUFFICES ASSUME WsInv, [WsNext]_wsVars
             PROVE  WsInv'
  OBVIOUS
<1>1. CASE UNCHANGED wsVars
    <2>2. /\ UNCHANGED <<wsWorld, connection, call, life>> /\ UNCHANGED sending
          /\ UNCHANGED receiving /\ wsCrashed' = wsCrashed
    BY <1>1 DEF wsVars
    <2> QED
    BY <2>2, InvInParts, SendStays, ReceiveStays, LifeStays, InvNext DEF ClosedInOrder,
       connection, receiving, life, LifePart, LifeTypes, OnItsWay, MessagesAt, sending
<1>2. CASE WsNext
  BY <1>2, SendingStepInv, ReceivingStepInv, ConnectionStepInv, CloseHandlerInv, OwnersStepInv DEF
     WsNext, PoolStep
<1> QED BY <1>1, <1>2

LEMMA WsInvariant == WsSpec => []WsInv
  BY WsInvInit, WsInvStep, PTL DEF WsSpec

-----------------------------------------------------------------------------
(* The websocket client: what the runs check.                                 *)

\* In every execution, whatever the number of messages and of calls, the variables
\* have their types: in particular m_num_sends, which is counted down without a
\* test, never goes below zero.
THEOREM WsTypeCorrect == WsSpec => []WsTypeOK
<1>1. WsInv => WsTypeOK
  BY DEF WsInv
<1> QED BY <1>1, WsInvariant, PTL

LEMMA InvImpliesSends == WsInv => SendsSound
<1> SUFFICES ASSUME WsInv
             PROVE  SendsSound
  OBVIOUS
<1>2. Cardinality(OnItsWay) <= 1
    <2>1. CASE OnItsWay = {}
    BY <2>1, FS_EmptySet
    <2>2. CASE OnItsWay # {}
        <3>1. PICK m \in OnItsWay : TRUE
      BY <2>2
        <3>3. Cardinality({m}) = 1
      BY FS_Singleton
        <3> QED BY <3>1, <3>3 DEF SendInv, OneGoes, WsInv
    <2> QED BY <2>1, <2>2
<1> QED
  BY <1>2 DEF SendsSound, SendInv, WireIsRight, Answered, CountIsRight, Counted, QueueIsRight,
     WsInv

LEMMA InvImpliesReceives == WsInv => ReceivesSound
  BY DEF WsInv, ReceiveInv, ReceivePart, ToldInOrder, NoneLost, ReceivesSound

LEMMA InvImpliesLife == WsInv => LifeSound
  BY DEF WsInv, LifeInv, ConnectionIsRight, OwnersAreRight, LifeSound

\* Whatever the user sends, receives, closes and drops: one message is sent at a
\* time and m_num_sends is right; a task is told of success exactly if its message
\* went out; messages are received once, in order and without a loss; the client of
\* websocketpp outlives its use; and front() of an empty queue, and a handler on an
\* object that is gone, are met only under the conditions WebsocketSound names.
THEOREM WebsocketIsSound == WsSpec => []WebsocketSound
<1>1. WsInv => WebsocketSound
  BY InvImpliesSends, InvImpliesReceives, InvImpliesLife DEF WebsocketSound
<1> QED BY <1>1, WsInvariant, PTL


-----------------------------------------------------------------------------
(* Files: the inductive invariant.                                            *)

Dirty == faults \cap {"uneven", "failed"} # {}
Clean == faults \cap {"uneven", "failed", "sized"} = {}

\* The buffer holds the characters from its offset on, and the reader is at one
\* of them or at the first after them.
Holds(b) == \A i \in 1..b.fill : b.mem[i] = b.off + i - 1
BufferSound ==
    \/ cache = NoBuffer
    \/ /\ cache.mem # <<>> /\ cache.fill <= Len(cache.mem)
       /\ cache.off <= rdpos /\ rdpos <= cache.off + cache.fill
       /\ cache.fill > 0 => cache.off + cache.fill <= file.size
       /\ Holds(cache)

\* A read from the file that is under way fills the buffer from its start, and
\* asks for enough.
FillSound ==
    /\ cache.mem # <<>> /\ cache.off = rdpos
    /\ io.into = 0 /\ io.unread = 0 /\ io.from = rdpos
    /\ Head(queue).n <= io.most /\ io.most <= Len(cache.mem)

\* Only getn() asks for more than one.
OnesAsked == \A i \in DOMAIN queue : queue[i].kind # "getn" => queue[i].n = 1

AtEndSound == atend /\ faults \cap {"rewound", "short"} = {} => rdpos >= file.size

\* ReadsSound, of the call that ended last.
LastSound ==
    /\ (\E i \in DOMAIN last.got : last.got[i] # last.at + i - 1) => Dirty
    /\ last.is = "data" /\ last.kind \notin Kinds_Sync /\ Len(last.got) # Least(last.asked, Remaining(last.at))
        => Dirty
    /\ last.is = "end" /\ last.at < file.size => Dirty \/ faults \cap {"rewound", "short"} # {}

Buffers == [mem : Seq(Characters), off : Nat, fill : Nat]
Ops == [kind : Kinds_Char \cup {"getn"}, n : Nat \ {0}]
Fills == [into : Nat, from : Nat, most : Nat, unread : Int, is : {"none", "reading", "lost"}]
Answers == [kind : Kinds_Char \cup Kinds_Sync \cup {"none", "getn"}, at : Nat, asked : Nat,
            got : Seq(Characters), is : {"data", "end", "start", "wait", "error"}]
ReadTypes ==
    /\ rdpos \in Nat /\ atend \in BOOLEAN
    /\ cache \in Buffers /\ queue \in Seq(Ops) /\ io \in Fills /\ last \in Answers
    /\ opCount \in 0..MaxOps /\ readOpen \in BOOLEAN /\ faults \subseteq FaultKinds
ReadInv ==
    /\ ReadTypes /\ OnesAsked
    /\ io.is # "none" => queue # <<>>
    /\ io.is = "lost" => "failed" \in faults
    /\ "sized" \in faults => cache = NoBuffer
    /\ Clean /\ io.is = "none" => BufferSound
    /\ Clean /\ io.is = "reading" => FillSound
    /\ Clean => AtEndSound
    /\ LastSound

\* A write at a position has the position for itself, before that of the next;
\* one that ended is in the file.
CountedWrites == {w \in Writes : writes[w].at \notin {"new", "done"}}
InFile(w) == writes[w].pos + 1 \in DOMAIN content /\ content[writes[w].pos + 1] = w
PositionsSound ==
    file.use = "write" =>
        /\ wrpos # EndOfFile
        /\ \A w \in Begun : writes[w].pos # EndOfFile /\ writes[w].pos < wrpos
        /\ \A v, w \in Begun : v # w => writes[v].pos # writes[w].pos
        /\ ~file.fails => \A w \in Writes : Ended(w) => InFile(w)
EndsSound ==
    file.use = "ate" =>
        /\ wrpos = EndOfFile
        /\ file.platform = "win32" => \A w \in Begun : writes[w].pos = EndOfFile
        /\ file.platform = "posix" => \A w \in Writes : Ended(w) /\ ~file.fails => writes[w].pos # EndOfFile
        /\ ~file.fails /\ (\A v, w \in Begun : v # w => Apart(v, w)) =>
                \A w \in Writes : Ended(w) =>
                    IF file.platform = "posix" THEN InFile(w) ELSE \E i \in DOMAIN content : content[i] = w
FlushSound ==
    /\ flush.before \subseteq Begun
    /\ flush.is = "done" /\ file.platform = "posix" => \A w \in flush.before : Ended(w)

WriteTypes ==
    /\ writes \in [Writes -> [at : {"new", "running", "told", "done", "deleted"}, pos : Nat \cup {EndOfFile}]]
    /\ wrpos \in Nat \cup {EndOfFile} /\ content \in Seq(Writes \cup {Garbage}) /\ outstandingWrites \in Nat
    /\ flush \in [is : {"none", "waiting", "done"}, before : SUBSET Writes]
WriteInv ==
    /\ WriteTypes
    /\ IsFiniteSet(CountedWrites) /\ outstandingWrites = Cardinality(CountedWrites)
    /\ PositionsSound /\ EndsSound /\ FlushSound

FileInv == file \in FileWorlds /\ ReadInv /\ WriteInv

LEMMA FileIsWorld ==
    file \in FileWorlds => FileWorld(file)
  BY FileBufferAssumption

-----------------------------------------------------------------------------
(* Files: the writer's part.                                                  *)

\* What is placed in the file is there, and the rest of the file is as it was.
LEMMA PlacedIs ==
    ASSUME content \in Seq(Writes \cup {Garbage}), NEW w \in Writes, NEW p \in Nat
    PROVE  /\ Placed(w, p) \in Seq(Writes \cup {Garbage})
           /\ p + 1 \in DOMAIN Placed(w, p) /\ Placed(w, p)[p + 1] = w
           /\ \A i \in DOMAIN content : i # p + 1 =>
                i \in DOMAIN Placed(w, p) /\ Placed(w, p)[i] = content[i]
  BY DEF Placed, Greatest

LEMMA WriteInit ==
    file \in FileWorlds /\ FileInit => WriteInv
<1> SUFFICES ASSUME file \in FileWorlds, FileInit PROVE WriteInv
  OBVIOUS
<1>4. PositionsSound /\ EndsSound /\ FlushSound
  BY DEF FileInit, PositionsSound, EndsSound, FlushSound, EndOfFile, CountedWrites, Begun, Ended
<1> QED
  BY <1>4, EmptySeq, FS_EmptySet DEF WriteInv, FileInit, CountedWrites, Begun, Ended, WriteTypes,
     EndOfFile

\* putn() counts the write, and gives it a position that no other has.
LEMMA PutKeeps ==
    ASSUME file \in FileWorlds, WriteInv, NEW w \in Writes, Put(w)
    PROVE  WriteInv'
<1>1. /\ file.use # "read" /\ writes[w].at = "new" /\ file' = file
      /\ outstandingWrites' = outstandingWrites + 1
      /\ writes' = [writes EXCEPT ![w] = [at |-> "running", pos |-> wrpos]]
      /\ wrpos' = IF wrpos = EndOfFile THEN EndOfFile ELSE wrpos + 1
      /\ content' = content /\ flush' = flush
  BY DEF Put
<1>2. WriteTypes /\ IsFiniteSet(CountedWrites) /\ outstandingWrites = Cardinality(CountedWrites)
         /\ PositionsSound /\ EndsSound /\ FlushSound
  BY DEF WriteInv
<1>4. /\ writes'[w].at = "running" /\ writes'[w].pos = wrpos
      /\ \A v \in Writes : v # w => writes'[v] = writes[v]
  BY <1>1, <1>2 DEF WriteTypes
<1>5. CountedWrites' = CountedWrites \cup {w} /\ w \notin CountedWrites
         /\ Begun' = Begun \cup {w} /\ w \notin Begun
         /\ \A v \in Writes : Ended(v)' <=> Ended(v)
  BY <1>1, <1>4 DEF CountedWrites, Begun, Ended
<1>7. ASSUME file.use = "write"
      PROVE  /\ wrpos \in Nat /\ wrpos' = wrpos + 1
             /\ \A v \in Begun : writes[v].pos \in Nat /\ writes[v].pos < wrpos /\ v # w
  BY <1>1, <1>2, <1>5, <1>7 DEF PositionsSound, WriteTypes, Begun, EndOfFile
<1>9. EndsSound'
  BY <1>1, <1>2, <1>4, <1>5 DEF EndsSound, InFile, Begun, Apart, Ended
<1>10. FlushSound'
  BY <1>1, <1>2, <1>5 DEF FlushSound, WriteTypes
<1> QED
  BY <1>1, <1>2, <1>4, <1>5, <1>7, <1>9, <1>10, FS_AddElement DEF WriteInv, WriteTypes, EndOfFile,
     PositionsSound, Begun, InFile, Ended

\* The position where the end was found is of a write that ended nowhere yet.
LEMMA FindEndKeeps ==
    ASSUME file \in FileWorlds, WriteInv, NEW w \in Writes, FindEnd(w)
    PROVE  WriteInv'
<1>1. /\ file' = file /\ file.platform = "posix" /\ writes[w].at = "running" /\ writes[w].pos = EndOfFile
      /\ writes' = [writes EXCEPT ![w].pos = Len(content)]
      /\ UNCHANGED <<wrpos, content, outstandingWrites, flush>>
  BY DEF FindEnd
<1>2. WriteTypes /\ IsFiniteSet(CountedWrites) /\ outstandingWrites = Cardinality(CountedWrites)
         /\ PositionsSound /\ EndsSound /\ FlushSound
  BY DEF WriteInv
<1>4. /\ writes'[w].at = "running" /\ writes'[w].pos = Len(content)
      /\ \A v \in Writes : v # w => writes'[v] = writes[v]
  BY <1>1, <1>2 DEF WriteTypes
<1>6. CountedWrites' = CountedWrites /\ Begun' = Begun /\ \A v \in Writes : Ended(v)' <=> Ended(v)
  BY <1>1, <1>4 DEF CountedWrites, Begun, Ended
<1> QED
  BY <1>1, <1>2, <1>4, <1>6 DEF WriteInv, FlushSound, WriteTypes, PositionsSound, Ended, Begun,
     EndsSound, Apart, InFile

\* What is written comes to a place where nothing is that was written, unless
\* two found the same end.
LEMMA WriteDoneKeeps ==
    ASSUME file \in FileWorlds, WriteInv, NEW w \in Writes, WriteDone(w)
    PROVE  WriteInv'
<1> DEFINE p == IF writes[w].pos = EndOfFile THEN Len(content) ELSE writes[w].pos
<1>1. /\ file' = file /\ writes[w].at = "running"
      /\ file.platform = "posix" => writes[w].pos # EndOfFile
      /\ content' = Placed(w, p)
      /\ writes' = [writes EXCEPT ![w].at = "told"]
      /\ UNCHANGED <<wrpos, outstandingWrites, flush>>
  BY DEF WriteDone
<1>2. WriteTypes /\ IsFiniteSet(CountedWrites) /\ outstandingWrites = Cardinality(CountedWrites)
         /\ PositionsSound /\ EndsSound /\ FlushSound
  BY DEF WriteInv
<1>3. p \in Nat /\ content \in Seq(Writes \cup {Garbage}) /\ Len(content) \in Nat
         /\ DOMAIN content = 1..Len(content)
  BY <1>2 DEF WriteTypes
<1>4. /\ content' \in Seq(Writes \cup {Garbage})
      /\ p + 1 \in DOMAIN content' /\ content'[p + 1] = w
      /\ \A i \in DOMAIN content : i # p + 1 => i \in DOMAIN content' /\ content'[i] = content[i]
  BY <1>1, <1>3, PlacedIs
<1>5. /\ writes'[w].at = "told" /\ writes'[w].pos = writes[w].pos
      /\ \A v \in Writes : v # w => writes'[v] = writes[v]
  BY <1>1, <1>2 DEF WriteTypes
<1> HIDE DEF p
<1>7. CountedWrites' = CountedWrites /\ Begun' = Begun /\ w \in Begun
         /\ \A v \in Writes : (Ended(v)' <=> Ended(v) \/ v = w) /\ writes'[v].pos = writes[v].pos
  BY <1>1, <1>5 DEF CountedWrites, Begun, Ended
<1>9. PositionsSound'
  <2> SUFFICES ASSUME file.use = "write" PROVE PositionsSound'
    BY <1>1 DEF PositionsSound
  <2>3. ASSUME NEW v \in Writes, Ended(v), ~file.fails
        PROVE  InFile(v)'
    BY <1>1, <1>2, <1>3, <1>4, <1>7, <2>3 DEF InFile, PositionsSound, WriteTypes, Begun,
       EndOfFile, Ended, p
  <2> QED BY <1>1, <1>2, <1>3, <1>4, <1>5, <1>7, <2>3 DEF PositionsSound, InFile, p
<1>10. EndsSound'
  <2> SUFFICES ASSUME file.use = "ate" PROVE EndsSound'
    BY <1>1 DEF EndsSound
  <2>3. ASSUME ~file.fails, \A u, v \in Begun : u # v => Apart(u, v), file.platform = "posix",
               NEW v \in Writes, Ended(v)'
        PROVE  InFile(v)'
    <3>2. CASE v = w
      BY <1>1, <1>4, <1>5, <2>3, <3>2 DEF InFile, p
    <3>3. CASE v # w
      BY <1>1, <1>2, <1>3, <1>4, <1>7, <2>3, <3>3 DEF InFile, Apart, WriteTypes, EndOfFile, p,
         EndsSound, Ended, Begun
    <3> QED BY <3>2, <3>3
  <2>4. ASSUME ~file.fails, \A u, v \in Begun : u # v => Apart(u, v), file.platform # "posix",
               NEW v \in Writes, Ended(v)'
        PROVE  \E i \in DOMAIN content' : content'[i] = v
    <3>3. CASE v = w
      BY <1>4, <3>3
    <3>4. CASE v # w
      <4>1. PICK i \in DOMAIN content : content[i] = v
        BY <1>2, <1>7, <2>4, <3>4 DEF EndsSound
      <4> QED BY <1>2, <1>3, <1>4, <1>7, <2>4, <4>1, FileIsWorld DEF EndsSound, p, FileWorld
    <3> QED BY <3>3, <3>4
  <2> QED BY <1>1, <1>2, <1>7, <2>3, <2>4 DEF EndsSound, Apart, Begun
<1> QED BY <1>1, <1>2, <1>4, <1>7, <1>9, <1>10 DEF WriteInv, FlushSound, WriteTypes

LEMMA WriteFailsKeeps ==
    ASSUME file \in FileWorlds, WriteInv, NEW w \in Writes, WriteFails(w)
    PROVE  WriteInv'
<1>5. CountedWrites' = CountedWrites /\ Begun' = Begun
         /\ \A v \in Writes : (Ended(v) => Ended(v)') /\ writes'[v].pos = writes[v].pos
  BY DEF CountedWrites, Begun, Ended, WriteTypes, WriteFails, WriteInv
<1> QED BY <1>5 DEF WriteInv, PositionsSound, EndsSound, FlushSound, WriteTypes, WriteFails

\* The last that is counted is the last that runs.
LEMMA UncountKeeps ==
    ASSUME file \in FileWorlds, WriteInv, NEW w \in Writes, Uncount(w)
    PROVE  WriteInv'
<1>1. /\ file' = file /\ writes[w].at = "told"
      /\ writes' = [writes EXCEPT ![w].at = "done"]
      /\ outstandingWrites' = outstandingWrites - 1
      /\ flush' = IF outstandingWrites = 1 /\ flush.is = "waiting" THEN [flush EXCEPT !.is = "done"] ELSE flush
      /\ UNCHANGED <<wrpos, content>>
  BY DEF Uncount
<1>2. WriteTypes /\ IsFiniteSet(CountedWrites) /\ outstandingWrites = Cardinality(CountedWrites)
         /\ PositionsSound /\ EndsSound /\ FlushSound
  BY DEF WriteInv
<1>4. /\ CountedWrites' = CountedWrites \ {w} /\ w \in CountedWrites /\ Begun' = Begun
      /\ \A v \in Writes : (Ended(v)' <=> Ended(v)) /\ writes'[v].pos = writes[v].pos
  BY <1>1, <1>2 DEF CountedWrites, Begun, Ended, WriteTypes
<1>5. IsFiniteSet(CountedWrites') /\ Cardinality(CountedWrites') = Cardinality(CountedWrites) - 1
         /\ Cardinality(CountedWrites') \in Nat
  BY <1>2, <1>4, FS_RemoveElement, FS_CardinalityType
<1>9. FlushSound'
  <2>2. ASSUME outstandingWrites = 1 PROVE \A v \in Begun : Ended(v)
    <3>1. CountedWrites = {w}
      BY <1>2, <1>4, <1>5, <2>2, FS_EmptySet
    <3> QED BY <1>1, <1>2, <3>1 DEF CountedWrites, Begun, Ended, WriteTypes
  <2> QED BY <1>1, <1>2, <1>4, <2>2 DEF FlushSound, Begun, WriteTypes
<1> QED
  BY <1>1, <1>2, <1>4, <1>5, <1>9 DEF WriteInv, PositionsSound, InFile, EndsSound, Apart, Begun,
     WriteTypes

\* A sync() that need not wait has nothing to wait for.
LEMMA SyncKeeps ==
    ASSUME file \in FileWorlds, WriteInv, Sync
    PROVE  WriteInv'
<1>1. /\ file' = file /\ UNCHANGED <<writes, wrpos, content, outstandingWrites>>
      /\ flush' = [is |-> IF file.platform = "posix" /\ outstandingWrites > 0 THEN "waiting" ELSE "done",
                   before |-> {w \in Writes : writes[w].at # "new"}]
  BY DEF Sync
<1>2. WriteTypes /\ IsFiniteSet(CountedWrites) /\ outstandingWrites = Cardinality(CountedWrites)
         /\ PositionsSound /\ EndsSound /\ FlushSound
  BY DEF WriteInv
<1>7. FlushSound'
  <2>2. ASSUME flush'.is = "done", file.platform = "posix" PROVE \A v \in Begun : Ended(v)
    <3>1. CountedWrites = {}
      BY <1>1, <1>2, <2>2, FS_EmptySet DEF WriteTypes
    <3> QED BY <1>2, <3>1 DEF CountedWrites, Begun, Ended, WriteTypes
  <2> QED BY <1>1, <2>2 DEF FlushSound, Begun, CountedWrites, Ended, InFile
<1> QED
  BY <1>1, <1>2, <1>7 DEF WriteInv, PositionsSound, EndsSound, Apart, CountedWrites, Begun, Ended,
     InFile, WriteTypes

LEMMA WriteUnchanged ==
    ASSUME WriteInv, UNCHANGED <<file, writing>>
    PROVE  WriteInv'
<1>4. EndsSound'
  BY DEF WriteInv, EndsSound, Apart, CountedWrites, Begun, Ended, InFile, writing
<1> QED
  BY <1>4 DEF WriteInv, WriteTypes, PositionsSound, FlushSound, CountedWrites, Begun, Ended,
     InFile, writing

-----------------------------------------------------------------------------
(* Files: what the buffer holds and what the reader takes from it.            *)

LEMMA TakenType ==
    ASSUME NEW b \in Buffers, NEW n \in Nat, rdpos \in Nat
    PROVE  Taken(b, n) \in Seq(Characters) /\ Len(Taken(b, n)) = n /\ DOMAIN Taken(b, n) = 1..n
<1> DEFINE k == rdpos - b.off
<1> HIDE DEF k
<1> QED BY DEF Taken, k, Cells, Characters, Buffers

LEMMA TakenIs ==
    ASSUME NEW b \in Buffers, NEW n \in Nat, rdpos \in Nat, Holds(b), b.fill <= Len(b.mem),
           b.off <= rdpos, rdpos + n <= b.off + b.fill
    PROVE  \A j \in DOMAIN Taken(b, n) : Taken(b, n)[j] = rdpos + j - 1
<1> SUFFICES ASSUME NEW j \in 1..n PROVE Taken(b, n)[j] = rdpos + j - 1
  BY TakenType
<1>3. rdpos - b.off + j \in 1..b.fill /\ rdpos - b.off + j \in DOMAIN b.mem
  BY DEF Buffers
<1> QED BY <1>3 DEF Holds, Buffers, Taken, Cells

\* The call at the head ends: the others stay as they were.
LEMMA ReturnsIs ==
    ASSUME ReadTypes, OnesAsked, queue # <<>>, NEW at \in Nat, NEW got \in Seq(Characters),
           NEW is \in {"data", "end", "start", "wait", "error"}, Returns(Head(queue), at, got, is)
    PROVE  /\ queue' \in Seq(Ops) /\ OnesAsked' /\ last' \in Answers
           /\ last'.at = at /\ last'.got = got /\ last'.is = is
           /\ last'.kind = Head(queue).kind /\ last'.asked = Head(queue).n
<1>1. Head(queue) \in Ops /\ Tail(queue) \in Seq(Ops)
         /\ \A i \in DOMAIN Tail(queue) : i + 1 \in DOMAIN queue /\ Tail(queue)[i] = queue[i + 1]
  BY DEF ReadTypes
<1> QED BY <1>1 DEF Returns, Answers, Ops, OnesAsked

LEMMA HeadIs ==
    ASSUME ReadTypes, OnesAsked, queue # <<>>
    PROVE  /\ Head(queue) \in Ops /\ Head(queue).n \in Nat \ {0} /\ Head(queue).kind \in Kinds_Char \cup {"getn"}
           /\ Head(queue).kind # "getn" => Head(queue).n = 1
<1>1. Head(queue) \in Ops /\ 1 \in DOMAIN queue /\ Head(queue) = queue[1]
  BY DEF ReadTypes
<1> QED BY <1>1 DEF Ops, OnesAsked

\* A seek keeps the buffer only if the position is in it or just after it.
LEMMA SoughtIs ==
    ASSUME ReadTypes, NEW pos \in Nat
    PROVE  Sought(pos) \in Buffers
           /\ (Clean /\ BufferSound =>
                \/ Sought(pos) = NoBuffer
                \/ Sought(pos) = cache /\ cache # NoBuffer /\ cache.off <= pos /\ pos <= cache.off + cache.fill)
  BY EmptySeq DEF ReadTypes, Sought, Buffers, NoBuffer

\* What _fill_buffer_fsb starts: the buffer may shrink to what the read asks for,
\* and to no less than a page.
LEMMA ExtendedType ==
    ASSUME ReadTypes, NEW n \in Nat \ {0}, Unread(cache, rdpos) \in 0..(n - 1)
    PROVE  Extended(n, rdpos).cache \in Buffers /\ Extended(n, rdpos).io \in Fills
           /\ Len(Extended(n, rdpos).cache.mem) = Greatest(n, PageSize)
<1> DEFINE length == Greatest(n, PageSize)
           rem == Unread(cache, rdpos)
           kept == Cells(cache.mem, rdpos - cache.off, rem)
<1>1. length \in Nat /\ n <= length /\ PageSize <= length
  BY FileBufferAssumption DEF Greatest
<1>2. rem \in Nat /\ rem < n /\ cache.mem \in Seq(Characters) /\ cache.fill \in Nat /\ cache.off \in Nat /\ rdpos \in Nat
  BY DEF ReadTypes, Buffers
<1>3. \A i \in 1..rem : kept[i] \in Characters
  BY <1>2 DEF Characters, Cells
<1> HIDE DEF length, rem, kept
<1> DEFINE mem == [i \in 1..length |-> IF i <= rem THEN kept[i] ELSE Garbage]
<1>5. mem \in Seq(Characters) /\ Len(mem) = length
  BY <1>1, <1>2, <1>3 DEF Characters
<1>6. Extended(n, rdpos) =
        [cache |-> [mem |-> mem, off |-> rdpos, fill |-> cache.fill],
         io |-> [into |-> rem, from |-> rdpos + rem, most |-> length - rem, unread |-> rem, is |-> "reading"]]
  BY DEF Extended, length, rem, kept
<1> HIDE DEF mem
<1> QED BY <1>1, <1>2, <1>5, <1>6 DEF Buffers, Fills, length

LEMMA FreshType ==
    ASSUME ReadTypes, NEW n \in Nat \ {0}
    PROVE  Fresh(n, rdpos).cache \in Buffers /\ Fresh(n, rdpos).io \in Fills
           /\ Len(Fresh(n, rdpos).cache.mem) = Greatest(n, PageSize)
<1> DEFINE length == Greatest(n, PageSize)
           mem == [i \in 1..length |-> Garbage]
<1>1. length \in Nat
  BY FileBufferAssumption DEF Greatest
<1> HIDE DEF length
<1>2. mem \in Seq(Characters) /\ Len(mem) = length
  BY <1>1 DEF Characters
<1>3. Fresh(n, rdpos) =
        [cache |-> [mem |-> mem, off |-> rdpos, fill |-> cache.fill],
         io |-> [into |-> 0, from |-> rdpos, most |-> length, unread |-> 0, is |-> "reading"]]
  BY DEF Fresh, length
<1> HIDE DEF mem
<1> QED BY <1>1, <1>2, <1>3 DEF ReadTypes, Buffers, Fills, length

LEMMA ReusedType ==
    ASSUME ReadTypes
    PROVE  Reused(rdpos).cache \in Buffers /\ Reused(rdpos).io \in Fills
           /\ Reused(rdpos).cache = [cache EXCEPT !.off = rdpos]
<1>1. Unread(cache, rdpos) \in Int /\ Len(cache.mem) \in Nat
  BY DEF ReadTypes, Buffers, Unread
<1> QED BY <1>1 DEF ReadTypes, Buffers, Fills, Reused

LEMMA FillType ==
    ASSUME file \in FileWorlds, ReadTypes, NEW n \in Nat \ {0}
    PROVE  LET f == Fill(n, rdpos) IN
           /\ f.cache \in Buffers /\ f.io \in Fills
           /\ f.io = NoIO => f.cache = cache
           /\ f.io # NoIO => f.io.is = "reading"
<1>2. Fresh(n, rdpos).io.is = "reading" /\ Reused(rdpos).io.is = "reading" /\ Extended(n, rdpos).io.is = "reading"
  BY DEF Fresh, Reused, Extended
<1>3. Enough.cache = cache /\ Enough.io = NoIO /\ NoIO \in Fills /\ NoIO.is = "none"
  BY DEF Enough, NoIO, Fills
<1>4. \/ Fill(n, rdpos) = Fresh(n, rdpos) \/ Fill(n, rdpos) = Reused(rdpos) \/ Fill(n, rdpos) = Enough
      \/ Fill(n, rdpos) = Extended(n, rdpos) /\ Unread(cache, rdpos) \in 0..(n - 1)
  <2>1. \/ FillWin32(n, rdpos) = Fresh(n, rdpos) \/ FillWin32(n, rdpos) = Reused(rdpos)
        \/ FillWin32(n, rdpos) = Enough
        \/ FillWin32(n, rdpos) = Extended(n, rdpos) /\ Unread(cache, rdpos) \in 0..(n - 1)
    <3>1. ASSUME ~(rdpos < cache.off), ~(rdpos >= cache.off + cache.fill), Unread(cache, rdpos) < n
          PROVE  Unread(cache, rdpos) \in 0..(n - 1)
      BY <3>1 DEF Unread, ReadTypes, Buffers
    <3> QED BY <3>1 DEF FillWin32
  <2>2. \/ FillPosix(n, rdpos) = Fresh(n, rdpos) \/ FillPosix(n, rdpos) = Enough
        \/ FillPosix(n, rdpos) = Extended(n, rdpos) /\ Unread(cache, rdpos) \in 0..(n - 1)
    <3>1. CASE cache.mem = <<>>
      BY <3>1 DEF FillPosix
    <3>2. CASE cache.mem # <<>> /\ Unread(cache, rdpos) \in 0..(n - 1)
      BY <3>2 DEF FillPosix
    <3>3. CASE cache.mem # <<>> /\ Unread(cache, rdpos) \notin 0..(n - 1)
      BY <3>3 DEF FillPosix
    <3> QED BY <3>1, <3>2, <3>3
  <2> QED BY <2>1, <2>2 DEF Fill
<1> QED BY <1>2, <1>3, <1>4, FreshType, ReusedType, ExtendedType DEF ReadTypes, Buffers, Unread

\* As long as the buffer holds what it should, a read that does not find enough
\* in it starts to fill it anew, or leaves the unread characters uncounted.
LEMMA FillIsSound ==
    ASSUME file \in FileWorlds, ReadTypes, BufferSound, NEW n \in Nat \ {0}, InAvail < n,
           ~(Fill(n, rdpos).io.unread > 0)
    PROVE  LET f == Fill(n, rdpos) IN
           /\ f.io.is = "reading" /\ f.cache.mem # <<>> /\ f.cache.off = rdpos
           /\ f.io.into = 0 /\ f.io.unread = 0 /\ f.io.from = rdpos
           /\ n <= f.io.most /\ f.io.most <= Len(f.cache.mem)
<1> DEFINE length == Greatest(n, PageSize)
<1>1. length \in Nat /\ n <= length /\ 1 <= length
  BY FileBufferAssumption DEF Greatest
<1>2. cache.mem \in Seq(Characters) /\ cache.off \in Nat /\ cache.fill \in Nat /\ rdpos \in Nat /\ Len(cache.mem) \in Nat
  BY DEF ReadTypes, Buffers
<1>3. ASSUME Fill(n, rdpos) = Fresh(n, rdpos) PROVE Fill(n, rdpos).io.most = length
        /\ LET f == Fill(n, rdpos) IN
           /\ f.io.is = "reading" /\ Len(f.cache.mem) = length /\ f.cache.off = rdpos
           /\ f.io.into = 0 /\ f.io.unread = 0 /\ f.io.from = rdpos
  BY <1>3, FreshType DEF Fresh
<1>4. ASSUME Fill(n, rdpos) = Reused(rdpos), rdpos = cache.off + cache.fill, cache.mem # <<>>, n <= Len(cache.mem)
      PROVE  LET f == Fill(n, rdpos) IN
           /\ f.io.is = "reading" /\ f.cache.mem = cache.mem /\ f.cache.off = rdpos
           /\ f.io.into = 0 /\ f.io.unread = 0 /\ f.io.from = rdpos /\ f.io.most = Len(cache.mem)
  <2>2. Reused(rdpos).cache.mem = cache.mem /\ Reused(rdpos).cache.off = rdpos
    BY ReusedType DEF ReadTypes, Buffers
  <2> QED BY <1>2, <1>4, <2>2 DEF Reused, Unread
<1>5. ASSUME Fill(n, rdpos) = Extended(n, rdpos), Unread(cache, rdpos) \in 0..(n - 1)
      PROVE  LET f == Fill(n, rdpos) IN
           /\ f.io.is = "reading" /\ Len(f.cache.mem) = length /\ f.cache.off = rdpos
           /\ f.io.into = 0 /\ f.io.unread = 0 /\ f.io.from = rdpos /\ f.io.most = length
  BY <1>1, <1>2, <1>5, ExtendedType DEF Extended
<1>6. CASE cache.mem = <<>>
  BY <1>1, <1>3, <1>6 DEF Fill, FillWin32, FillPosix
<1>7. CASE cache.mem # <<>>
  <2>1. /\ cache.fill <= Len(cache.mem) /\ cache.off <= rdpos /\ rdpos <= cache.off + cache.fill
    BY <1>7 DEF BufferSound, NoBuffer
  <2>2. Unread(cache, rdpos) \in 0..(n - 1)
    BY <1>2, <2>1 DEF Unread, InAvail
  <2>3. \/ Fill(n, rdpos) = Fresh(n, rdpos)
        \/ Fill(n, rdpos) = Reused(rdpos) /\ rdpos = cache.off + cache.fill /\ n <= Len(cache.mem)
        \/ Fill(n, rdpos) = Extended(n, rdpos)
    BY <1>2, <1>7, <2>1, <2>2 DEF Fill, FillWin32, FillPosix
  <2>4. ASSUME Len(Fill(n, rdpos).cache.mem) = length PROVE Fill(n, rdpos).cache.mem # <<>>
    BY <1>1, <2>4
  <2> QED BY <1>1, <1>2, <1>3, <1>4, <1>5, <1>7, <2>2, <2>3, <2>4
<1> QED BY <1>6, <1>7

-----------------------------------------------------------------------------
(* Files: the reader's steps.                                                 *)

LEMMA FaultsGrow ==
    ASSUME faults \subseteq faults'
    PROVE  (Clean' => Clean) /\ (Dirty => Dirty')
  BY DEF Clean, Dirty

LEMMA LastKeeps ==
    ASSUME LastSound, last' = last, file' = file, faults \subseteq faults'
    PROVE  LastSound'
  BY FaultsGrow DEF LastSound, Remaining

LEMMA ReadInit ==
    file \in FileWorlds /\ FileInit => ReadInv
<1> SUFFICES ASSUME file \in FileWorlds, FileInit PROVE ReadInv
  OBVIOUS
<1>1. rdpos = 0 /\ atend = FALSE /\ cache = NoBuffer /\ queue = <<>> /\ io = NoIO /\ last = Nothing
        /\ opCount = 0 /\ readOpen = TRUE /\ faults = {}
  BY DEF FileInit
<1>2. <<>> \in Seq(Characters) /\ <<>> \in Seq(Ops) /\ DOMAIN queue = {}
  BY <1>1, EmptySeq
<1>3. cache \in Buffers /\ io \in Fills /\ last \in Answers /\ opCount \in 0..MaxOps
  BY <1>1, <1>2, FileBufferAssumption DEF Buffers, Fills, Answers, NoBuffer, NoIO, Nothing
<1>6. LastSound
  BY <1>1 DEF LastSound, Nothing, Remaining, Greatest, Least, Kinds_Sync
<1> QED BY <1>1, <1>2, <1>3, <1>6 DEF ReadInv, OnesAsked, BufferSound, AtEndSound, NoIO, ReadTypes

LEMMA EnqueueKeeps ==
    ASSUME file \in FileWorlds, ReadInv, "sized" \notin faults,
           NEW kind \in Kinds_Char \cup {"getn"}, NEW n \in file.counts \cup {1},
           Enqueue([kind |-> kind, n |-> n])
    PROVE  ReadInv'
<1> DEFINE op == [kind |-> kind, n |-> n]
<1>1. /\ n \in (IF kind = "getn" THEN file.counts ELSE {1})
      /\ queue' = Append(queue, op) /\ opCount' = opCount + 1 /\ opCount < MaxOps
      /\ UNCHANGED <<file, rdpos, atend, cache, io, last, readOpen, faults>>
  BY DEF Enqueue
<1>3. op \in Ops /\ (op.kind # "getn" => op.n = 1)
  BY <1>1, FileIsWorld DEF Ops, FileWorld
<1> HIDE DEF op
<1>4. /\ queue' \in Seq(Ops) /\ queue' # <<>>
      /\ \A i \in DOMAIN queue' : queue'[i] = IF i \in DOMAIN queue THEN queue[i] ELSE op
      /\ queue # <<>> => Head(queue') = Head(queue)
  BY <1>1, <1>3 DEF ReadInv, ReadTypes
<1>6. OnesAsked'
  <2>2. ASSUME NEW i \in DOMAIN queue', queue'[i].kind # "getn" PROVE queue'[i].n = 1
    <3>1. CASE i \in DOMAIN queue
      BY <1>4, <2>2, <3>1 DEF OnesAsked, ReadInv
    <3>2. CASE i \notin DOMAIN queue
      BY <1>3, <1>4, <2>2, <3>2
    <3> QED BY <3>1, <3>2
  <2> QED BY <2>2 DEF OnesAsked
<1> QED
  BY <1>1, <1>4, <1>6, LastKeeps, FileBufferAssumption DEF ReadInv, Clean, BufferSound,
     AtEndSound, FillSound, Holds, ReadTypes

LEMMA EndsAtOnceKeeps ==
    ASSUME file \in FileWorlds, ReadInv, "sized" \notin faults, EndsAtOnce
    PROVE  ReadInv'
<1> DEFINE op == Head(queue)
<1>1. /\ queue # <<>> /\ io.is = "none"
      /\ UNCHANGED <<file, atend, io, opCount, readOpen, faults>>
  BY DEF EndsAtOnce, Running
<1>2. ReadTypes /\ OnesAsked /\ rdpos \in Nat /\ cache \in Buffers /\ (Clean => BufferSound /\ AtEndSound) /\ LastSound
        /\ file.size \in Nat /\ <<>> \in Seq(Characters)
  BY <1>1, FileIsWorld, EmptySeq DEF ReadInv, ReadTypes, FileWorld
<1> HIDE DEF op
<1>4. PICK at \in Nat, is \in {"end", "start"} :
        /\ Returns(op, at, <<>>, is)
        /\ is = "end" => atend /\ rdpos <= at
        /\ \/ rdpos' = rdpos /\ cache' = cache
           \/ atend /\ rdpos' = rdpos + 1 /\ cache' = Sought(rdpos + 1)
  <2>1. CASE op.kind = "getn" /\ atend /\ UNCHANGED <<rdpos, cache>> /\ Returns(op, rdpos, <<>>, "end")
    BY <1>2, <2>1
  <2>2. CASE /\ op.kind = "nextc" /\ atend
             /\ rdpos' = rdpos + 1 /\ cache' = Sought(rdpos + 1)
             /\ Returns(op, rdpos', <<>>, "end")
    BY <1>2, <2>2
  <2>3. CASE op.kind = "ungetc" /\ rdpos = 0 /\ UNCHANGED <<rdpos, cache>> /\ Returns(op, 0, <<>>, "start")
    BY <1>2, <2>3
  <2> QED BY <2>1, <2>2, <2>3 DEF EndsAtOnce, op
<1>5. /\ queue' \in Seq(Ops) /\ OnesAsked' /\ last' \in Answers
      /\ last'.at = at /\ last'.got = <<>> /\ last'.is = is
  BY <1>1, <1>2, <1>4, ReturnsIs DEF op
<1>9. Clean' => BufferSound'
  <2> SUFFICES ASSUME Clean PROVE BufferSound'
    BY <1>1 DEF Clean
  <2>1. CASE rdpos' = rdpos
    BY <1>1, <1>2, <1>4, <2>1 DEF BufferSound, Holds
  <2>2. CASE rdpos' # rdpos
    BY <1>1, <1>2, <1>4, <2>2, SoughtIs DEF BufferSound, Holds
  <2> QED BY <2>1, <2>2
<1> QED
  BY <1>1, <1>2, <1>4, <1>5, <1>9, SoughtIs DEF ReadInv, AtEndSound, ReadTypes, LastSound, Clean,
     Dirty

LEMMA SeeksKeeps ==
    ASSUME file \in FileWorlds, ReadInv, "sized" \notin faults, Seeks
    PROVE  ReadInv'
<1> DEFINE to == IF Head(queue).kind = "nextc" THEN rdpos + 1 ELSE rdpos - 1
<1>1. /\ queue # <<>> /\ io.is = "none" /\ rdpos' = to /\ cache' = Sought(to)
      /\ Head(queue).kind = "nextc" \/ (Head(queue).kind = "ungetc" /\ rdpos > 0)
      /\ queue' = <<[Head(queue) EXCEPT !.kind = "getc"]>> \o Tail(queue)
      /\ faults' = IF atend THEN faults \cup {"rewound"} ELSE faults
      /\ UNCHANGED <<file, atend, io, last, opCount, readOpen>>
  BY DEF Seeks, Running
<1>2. ReadTypes /\ OnesAsked /\ rdpos \in Nat /\ cache \in Buffers /\ (Clean => BufferSound /\ AtEndSound) /\ LastSound
        /\ queue \in Seq(Ops) /\ faults \subseteq FaultKinds
  BY <1>1 DEF ReadInv, ReadTypes
<1>3. to \in Nat
  BY <1>1, <1>2
<1> HIDE DEF to
<1>5. queue' \in Seq(Ops)
         /\ \A i \in DOMAIN queue' : queue'[i].n = 1 \/ (i \in DOMAIN queue /\ queue'[i] = queue[i])
  <2>1. Tail(queue) \in Seq(Ops) /\ Len(Tail(queue)) = Len(queue) - 1 /\ Len(queue) \in Nat
           /\ DOMAIN queue = 1..Len(queue) /\ \A i \in 1..(Len(queue) - 1) : Tail(queue)[i] = queue[i + 1]
    BY <1>1, <1>2
  <2> DEFINE first == [Head(queue) EXCEPT !.kind = "getc"]
             rest == Tail(queue)
  <2>2. first \in Ops /\ first.n = 1
    BY <1>1, <1>2, HeadIs DEF Ops, Kinds_Char
  <2> HIDE DEF first, rest
  <2>3. queue' = <<first>> \o rest
    BY <1>1 DEF first, rest
  <2>4. rest \in Seq(Ops) /\ Len(rest) = Len(queue) - 1
           /\ \A i \in 1..(Len(queue) - 1) : rest[i] = queue[i + 1]
    BY <2>1 DEF rest
  <2>5. queue' \in Seq(Ops) /\ DOMAIN queue' = 1..Len(queue) /\ queue'[1] = first
           /\ \A i \in 2..Len(queue) : queue'[i] = rest[i - 1]
    <3>1. <<first>> \in Seq(Ops) /\ Len(<<first>>) = 1 /\ <<first>>[1] = first
      BY <2>2
    <3>2. queue' \in Seq(Ops) /\ Len(queue') = 1 + Len(rest)
      BY <2>3, <2>4, <3>1
    <3>4. queue'[1] = first
      BY <2>3, <2>4, <3>1
    <3>5. ASSUME NEW i \in 2..Len(queue) PROVE queue'[i] = rest[i - 1]
      BY <2>1, <2>3, <2>4, <3>1
    <3> QED BY <2>1, <2>4, <3>2, <3>4, <3>5
  <2>8. ASSUME NEW i \in DOMAIN queue' PROVE queue'[i].n = 1 \/ (i \in DOMAIN queue /\ queue'[i] = queue[i])
    <3>1. CASE i = 1
      BY <2>2, <2>5, <3>1
    <3>2. CASE i \in 2..Len(queue)
      BY <2>1, <2>4, <2>5, <3>2
    <3> QED BY <2>1, <2>5, <3>1, <3>2
  <2> QED BY <2>5, <2>8
<1>9. Clean' => Clean
  BY <1>1 DEF Clean
<1> QED
  BY <1>1, <1>2, <1>3, <1>5, <1>9, SoughtIs, LastKeeps DEF ReadInv, AtEndSound, BufferSound,
     Holds, ReadTypes, FaultKinds, OnesAsked

LEMMA SeekKeeps ==
    ASSUME file \in FileWorlds, ReadInv, "sized" \notin faults, NEW pos \in 0..file.size, Seek(pos)
    PROVE  ReadInv'
<1>1. /\ queue = <<>> /\ rdpos' = pos /\ cache' = Sought(pos)
      /\ opCount' = opCount + 1 /\ opCount < MaxOps
      /\ faults' = IF atend THEN faults \cup {"rewound"} ELSE faults
      /\ UNCHANGED <<file, atend, queue, io, last, readOpen>>
  BY DEF Seek, CallOf
<1> QED
  BY <1>1, FileIsWorld, LastKeeps, FileBufferAssumption, SoughtIs DEF ReadInv, AtEndSound,
     OnesAsked, BufferSound, Holds, Clean, ReadTypes, FaultKinds, FileWorld

LEMMA SizeKeeps ==
    ASSUME file \in FileWorlds, ReadInv, "sized" \notin faults, Size
    PROVE  ReadInv'
<1>5. ReadTypes'
  BY EmptySeq, FileBufferAssumption DEF ReadTypes, FaultKinds, NoBuffer, Buffers, Size, CallOf,
     ReadInv
<1> QED
  BY <1>5, LastKeeps DEF ReadInv, NoIO, AtEndSound, Clean, BufferSound, OnesAsked, Size, CallOf

\* A call that finds enough in the buffer gets the characters from where it is.
LEMMA FromBufferKeeps ==
    ASSUME file \in FileWorlds, ReadInv, "sized" \notin faults, FromBuffer
    PROVE  ReadInv'
<1> DEFINE op == Head(queue)
           got == Taken(cache, op.n)
<1>1. /\ queue # <<>> /\ io.is = "none" /\ InAvail >= op.n
      /\ rdpos' = IF Advances(op.kind) THEN rdpos + op.n ELSE rdpos
      /\ Returns(op, rdpos, got, "data")
      /\ UNCHANGED <<file, atend, cache, io, opCount, readOpen, faults>>
  BY DEF FromBuffer, Running
<1>2. ReadTypes /\ OnesAsked /\ rdpos \in Nat /\ cache \in Buffers /\ (Clean => BufferSound /\ AtEndSound) /\ LastSound
        /\ file.size \in Nat /\ cache.off \in Nat /\ cache.fill \in Nat /\ faults \subseteq FaultKinds
  BY <1>1, FileIsWorld DEF ReadInv, ReadTypes, FileWorld, Buffers
<1>3. op.n \in Nat \ {0}
  BY <1>1, <1>2, HeadIs
<1>4. got \in Seq(Characters) /\ Len(got) = op.n
  BY <1>2, <1>3, TakenType
<1>5. /\ queue' \in Seq(Ops) /\ OnesAsked' /\ last' \in Answers
      /\ last'.at = rdpos /\ last'.got = got /\ last'.is = "data" /\ last'.asked = op.n
  BY <1>1, <1>2, <1>4, ReturnsIs
<1>6. cache.off <= rdpos /\ rdpos + op.n <= cache.off + cache.fill /\ cache.fill > 0
  BY <1>1, <1>2, <1>3 DEF InAvail
<1>7. ASSUME Clean
      PROVE  /\ \A i \in DOMAIN got : got[i] = rdpos + i - 1
             /\ op.n = Least(op.n, Remaining(rdpos))
  <2>3. op.n = Least(op.n, Remaining(rdpos))
    BY <1>2, <1>3, <1>6, <1>7 DEF Least, Remaining, Greatest, BufferSound, NoBuffer
  <2> QED BY <1>2, <1>3, <1>6, <1>7, <2>3, TakenIs DEF BufferSound, NoBuffer
<1> HIDE DEF op, got
<1>8. rdpos' \in Nat /\ rdpos <= rdpos' /\ rdpos' <= cache.off + cache.fill
  BY <1>1, <1>2, <1>3, <1>6
<1>13. LastSound'
  <2>1. CASE Clean
    BY <1>1, <1>4, <1>5, <1>7, <2>1 DEF LastSound, Remaining
  <2>2. CASE ~Clean
    BY <1>1, <2>2 DEF LastSound, Clean, Dirty
  <2> QED BY <2>1, <2>2
<1> QED
  BY <1>1, <1>2, <1>5, <1>6, <1>8, <1>13 DEF ReadInv, AtEndSound, ReadTypes, BufferSound, Holds,
     Clean

\* What a callback of the read delivers.
LEMMA DeliversIs ==
    ASSUME file \in FileWorlds, ReadTypes, OnesAsked, queue # <<>>,
           NEW b \in Buffers, NEW amount \in Int, Delivers(Head(queue), b, amount)
    PROVE  LET copy == IF amount < 0 THEN Head(queue).n ELSE Least(amount, Head(queue).n) IN
           /\ copy \in Nat /\ queue' \in Seq(Ops) /\ OnesAsked' /\ last' \in Answers
           /\ atend' \in BOOLEAN /\ (atend' <=> copy < Head(queue).n)
           /\ rdpos' \in Nat /\ rdpos' = IF Advances(Head(queue).kind) THEN rdpos + copy ELSE rdpos
           /\ last'.at = rdpos /\ last'.got = Taken(b, copy) /\ last'.is = "data"
           /\ last'.asked = Head(queue).n /\ Len(last'.got) = copy
<1> DEFINE op == Head(queue)
           copy == IF amount < 0 THEN op.n ELSE Least(amount, op.n)
<1>1. op.n \in Nat \ {0} /\ rdpos \in Nat
  BY HeadIs DEF ReadTypes
<1>2. copy \in Nat
  BY <1>1 DEF Least
<1>4. /\ atend' = (copy < op.n) /\ rdpos' = IF Advances(op.kind) THEN rdpos + copy ELSE rdpos
      /\ Returns(op, rdpos, Taken(b, copy), "data")
  BY DEF Delivers
<1> HIDE DEF copy
<1>6. rdpos' \in Nat /\ atend' \in BOOLEAN /\ (atend' <=> copy < op.n)
  <2>2. (copy < op.n) \in BOOLEAN
    BY <1>1, <1>2
  <2>3. atend' \in BOOLEAN /\ (atend' <=> copy < op.n)
    BY <1>4, <2>2, Zenon
  <2> QED BY <1>1, <1>2, <1>4, <2>3
<1> QED BY <1>1, <1>2, <1>4, <1>6, TakenType, ReturnsIs DEF copy

LEMMA StartFillKeeps ==
    ASSUME file \in FileWorlds, ReadInv, "sized" \notin faults, StartFill
    PROVE  ReadInv'
<1> DEFINE n == Head(queue).n
           f == Fill(n, rdpos)
<1>1. /\ queue # <<>> /\ io.is = "none" /\ InAvail < n
      /\ cache' = f.cache /\ io' = f.io
      /\ IF f.io = NoIO THEN Delivers(Head(queue), cache, n) ELSE UNCHANGED <<rdpos, atend, queue, last>>
      /\ faults' = IF f.io.unread > 0 THEN faults \cup {"uneven"} ELSE faults
      /\ UNCHANGED <<file, opCount, readOpen>>
  BY DEF StartFill, Running
<1>2. ReadTypes /\ OnesAsked /\ rdpos \in Nat /\ cache \in Buffers /\ (Clean => BufferSound /\ AtEndSound) /\ LastSound
        /\ faults \subseteq FaultKinds
  BY <1>1 DEF ReadInv, ReadTypes
<1>3. n \in Nat \ {0}
  BY <1>1, <1>2, HeadIs
<1>5. faults' \subseteq FaultKinds /\ faults \subseteq faults' /\ (Clean' => Clean)
  BY <1>1, <1>2 DEF FaultKinds, Clean
<1>6. ASSUME Clean'
      PROVE  /\ f.io.is = "reading" /\ f.cache.mem # <<>> /\ f.cache.off = rdpos
             /\ f.io.into = 0 /\ f.io.unread = 0 /\ f.io.from = rdpos
             /\ n <= f.io.most /\ f.io.most <= Len(f.cache.mem)
  BY <1>1, <1>2, <1>3, <1>5, <1>6, FillIsSound DEF Clean
<1>7. CASE f.io = NoIO
  BY <1>1, <1>2, <1>3, <1>5, <1>6, <1>7, FillType, DeliversIs DEF ReadInv, NoIO, LastSound, Clean,
     Dirty, ReadTypes
<1>8. CASE f.io # NoIO
  BY <1>1, <1>2, <1>3, <1>5, <1>6, <1>8, FillType, LastKeeps DEF ReadInv, AtEndSound, Clean,
     ReadTypes, OnesAsked, FillSound
<1> QED BY <1>7, <1>8

\* The callback of the read puts the characters of the file where it read them.
LEMMA FilledIs ==
    ASSUME ReadTypes, NEW result \in Nat
    PROVE  /\ Filled(result) \in Buffers /\ Filled(result).fill = result /\ Filled(result).off = cache.off
           /\ Len(Filled(result).mem) = Len(cache.mem)
           /\ FillSound /\ result <= io.most => Holds(Filled(result))
<1> DEFINE mem == [i \in DOMAIN cache.mem |->
                       IF i - io.into \in 1..result THEN io.from + i - io.into - 1 ELSE cache.mem[i]]
<1>1. cache \in Buffers /\ cache.mem \in Seq(Characters) /\ DOMAIN cache.mem = 1..Len(cache.mem)
        /\ Len(cache.mem) \in Nat /\ io.into \in Nat /\ io.from \in Nat /\ io.most \in Nat /\ cache.off \in Nat
  BY DEF ReadTypes, Buffers, Fills
<1>2. \A i \in 1..Len(cache.mem) :
         (IF i - io.into \in 1..result THEN io.from + i - io.into - 1 ELSE cache.mem[i]) \in Characters
  <2> SUFFICES ASSUME NEW i \in 1..Len(cache.mem)
               PROVE  (IF i - io.into \in 1..result THEN io.from + i - io.into - 1 ELSE cache.mem[i]) \in Characters
    OBVIOUS
  <2>1. CASE i - io.into \in 1..result
    BY <1>1, <2>1 DEF Characters
  <2>2. CASE i - io.into \notin 1..result
    BY <1>1, <2>2
  <2> QED BY <2>1, <2>2
<1>3. mem \in Seq(Characters) /\ Len(mem) = Len(cache.mem)
  BY <1>1, <1>2
<1>4. Filled(result) = [cache EXCEPT !.fill = result, !.mem = mem]
  BY DEF Filled
<1>5. \A i \in 1..Len(cache.mem) :
         mem[i] = IF i - io.into \in 1..result THEN io.from + i - io.into - 1 ELSE cache.mem[i]
  BY <1>1
<1> HIDE DEF mem
<1>7. ASSUME FillSound, result <= io.most PROVE Holds(Filled(result))
  <2>2. \A i \in 1..result : mem[i] = cache.off + i - 1
    BY <1>1, <1>5, <1>7 DEF FillSound
  <2> QED BY <1>1, <1>3, <1>4, <2>2 DEF Holds, Buffers
<1> QED BY <1>1, <1>3, <1>4, <1>7 DEF Buffers

LEMMA FillDoneKeeps ==
    ASSUME file \in FileWorlds, ReadInv, "sized" \notin faults, FillDone
    PROVE  ReadInv'
<1> DEFINE result == Least(io.most, Greatest(0, file.size - io.from))
           b == Filled(result)
           amount == io.unread + result
           op == Head(queue)
           copy == IF amount < 0 THEN op.n ELSE Least(amount, op.n)
<1>1. /\ io.is = "reading" /\ cache' = b /\ Delivers(op, b, amount) /\ io' = NoIO
      /\ UNCHANGED <<file, opCount, readOpen, faults>>
  BY DEF FillDone
<1>2. ReadTypes /\ OnesAsked /\ queue # <<>> /\ rdpos \in Nat /\ (Clean => FillSound /\ AtEndSound)
        /\ io.most \in Nat /\ io.from \in Nat /\ io.unread \in Int /\ file.size \in Nat
        /\ faults \subseteq FaultKinds
  BY <1>1, FileIsWorld DEF ReadInv, ReadTypes, Fills, FileWorld
<1>3. result \in Nat /\ result <= io.most /\ result <= Greatest(0, file.size - io.from)
        /\ (result < io.most => result = Greatest(0, file.size - io.from))
  BY <1>2 DEF Least, Greatest
<1> HIDE DEF result
<1>4. b \in Buffers /\ b.fill = result /\ Len(b.mem) = Len(cache.mem) /\ b.off = cache.off /\ amount \in Int
        /\ (FillSound => Holds(b))
  BY <1>2, <1>3, FilledIs
<1>5. /\ op.n \in Nat \ {0} /\ (op.kind # "getn" => op.n = 1) /\ op.kind \in Kinds_Char \cup {"getn"}
  BY <1>2, HeadIs
<1> HIDE DEF b, amount
<1>6. /\ copy \in Nat /\ queue' \in Seq(Ops) /\ OnesAsked' /\ last' \in Answers
      /\ atend' \in BOOLEAN /\ (atend' <=> copy < op.n)
      /\ rdpos' \in Nat /\ rdpos' = IF Advances(op.kind) THEN rdpos + copy ELSE rdpos
      /\ last'.at = rdpos /\ last'.got = Taken(b, copy) /\ last'.is = "data"
      /\ last'.asked = op.n /\ Len(last'.got) = copy
  BY <1>1, <1>2, <1>4, DeliversIs
<1>7. ASSUME Clean
      PROVE  /\ b.off = rdpos /\ b.fill <= Len(b.mem) /\ Holds(b) /\ b.mem # <<>>
             /\ b.fill > 0 => b.off + b.fill <= file.size
             /\ copy <= b.fill /\ copy = Least(op.n, Remaining(rdpos))
             /\ copy < op.n => copy = Remaining(rdpos)
  <2>1. FillSound
    BY <1>2, <1>7
  <2>9. copy <= result /\ copy = Least(op.n, Remaining(rdpos)) /\ (copy < op.n => copy = Remaining(rdpos))
    BY <1>2, <1>3, <1>5, <2>1 DEF Least, Remaining, Greatest, amount, FillSound
  <2> QED BY <1>2, <1>3, <1>4, <2>1, <2>9 DEF ReadTypes, Buffers, Greatest, FillSound
<1> HIDE DEF op, copy
<1>10. Clean' => BufferSound'
  BY <1>1, <1>2, <1>3, <1>4, <1>6, <1>7 DEF BufferSound, Clean
<1>11. Clean' => AtEndSound'
  <2> SUFFICES ASSUME Clean, copy < op.n PROVE rdpos' >= file.size
    BY <1>1, <1>6 DEF AtEndSound, Clean
  <2>2. CASE Advances(op.kind)
    BY <1>2, <1>6, <1>7, <2>2 DEF Remaining, Greatest
  <2>3. CASE ~Advances(op.kind)
    BY <1>2, <1>5, <1>6, <1>7, <2>3 DEF Remaining, Greatest, Advances
  <2> QED BY <2>2, <2>3
<1>12. LastSound'
  <2>1. CASE Clean
    <3>1. \A j \in DOMAIN last'.got : last'.got[j] = last'.at + j - 1
      <4>1. rdpos + copy <= b.off + b.fill /\ b.off <= rdpos /\ b.fill <= Len(b.mem) /\ Holds(b)
        BY <1>2, <1>3, <1>4, <1>6, <1>7, <2>1
      <4>2. \A j \in DOMAIN Taken(b, copy) : Taken(b, copy)[j] = rdpos + j - 1
        BY <1>2, <1>4, <1>6, <4>1, TakenIs
      <4> QED BY <1>6, <4>2
    <3> QED BY <1>1, <1>6, <1>7, <2>1, <3>1 DEF LastSound, Remaining
  <2>2. CASE ~Clean
    BY <1>1, <2>2 DEF LastSound, Clean, Dirty
  <2> QED BY <2>1, <2>2
<1> QED BY <1>1, <1>2, <1>4, <1>6, <1>10, <1>11, <1>12 DEF ReadInv, NoIO, ReadTypes, Fills

LEMMA FillFailsKeeps ==
    ASSUME file \in FileWorlds, ReadInv, "sized" \notin faults, FillFails
    PROVE  ReadInv'
<1>1. /\ io.is = "reading" /\ faults' = faults \cup {"failed"} /\ UNCHANGED <<file, cache, opCount>>
  BY DEF FillFails
<1>2. ReadTypes /\ OnesAsked /\ queue # <<>> /\ rdpos \in Nat /\ <<>> \in Seq(Characters)
  BY <1>1, EmptySeq DEF ReadInv, ReadTypes
<1>4. /\ queue' \in Seq(Ops) /\ OnesAsked' /\ last' \in Answers
      /\ atend' \in BOOLEAN /\ rdpos' \in Nat /\ readOpen' \in BOOLEAN /\ io' \in Fills
      /\ io'.is = "none" \/ (io'.is = "lost" /\ queue' = queue)
  <2>1. CASE Returns(Head(queue), rdpos, <<>>, "error") /\ io' = NoIO /\ readOpen' = FALSE /\ UNCHANGED <<rdpos, atend>>
    <3>1. NoIO \in Fills /\ NoIO.is = "none"
      BY DEF NoIO, Fills
    <3> QED BY <1>2, <2>1, <3>1, ReturnsIs DEF ReadTypes
  <2>2. CASE Delivers(Head(queue), cache, Head(queue).n) /\ io' = NoIO /\ UNCHANGED readOpen
    <3>1. NoIO \in Fills /\ NoIO.is = "none"
      BY DEF NoIO, Fills
    <3> QED BY <1>2, <2>2, <3>1, HeadIs, DeliversIs DEF ReadTypes
  <2>3. CASE io' = [io EXCEPT !.is = "lost"] /\ UNCHANGED <<rdpos, atend, queue, last, readOpen>>
    BY <1>2, <2>3 DEF ReadTypes, OnesAsked, Fills
  <2> QED BY <1>1, <2>1, <2>2, <2>3 DEF FillFails
<1> QED BY <1>1, <1>2, <1>4 DEF ReadInv, Clean, Dirty, LastSound, ReadTypes, FaultKinds

LEMMA SyncReadKeeps ==
    ASSUME file \in FileWorlds, ReadInv, "sized" \notin faults,
           NEW kind \in Kinds_Sync, NEW n \in file.counts \cup {1}, SyncRead(kind, n)
    PROVE  ReadInv'
<1> DEFINE copy == IF atend THEN 0 ELSE Least(n, InAvail)
           is == IF atend THEN "end" ELSE IF copy = 0 THEN "wait" ELSE "data"
<1>1. /\ queue = <<>> /\ opCount' = opCount + 1 /\ opCount < MaxOps
      /\ last' = [kind |-> kind, at |-> rdpos, asked |-> n, got |-> Taken(cache, copy), is |-> is]
      /\ rdpos' = IF kind = "sgetc" THEN rdpos ELSE rdpos + copy
      /\ IF kind = "sgetn" /\ is = "data"
         THEN atend' = (copy < n) /\ faults' = IF copy < n THEN faults \cup {"short"} ELSE faults
         ELSE UNCHANGED <<atend, faults>>
      /\ UNCHANGED <<file, cache, queue, io, readOpen>>
  BY DEF SyncRead, CallOf
<1>2. ReadTypes /\ OnesAsked /\ io.is = "none" /\ (Clean => BufferSound /\ AtEndSound)
        /\ rdpos \in Nat /\ cache \in Buffers /\ cache.off \in Nat /\ cache.fill \in Nat
        /\ faults \subseteq FaultKinds /\ atend \in BOOLEAN
  BY <1>1 DEF ReadInv, ReadTypes, Buffers
<1>3. n \in Nat \ {0} /\ file.size \in Nat
  BY FileIsWorld DEF FileWorld
<1>4. InAvail \in Nat /\ (InAvail > 0 => cache.off <= rdpos /\ rdpos + InAvail = cache.off + cache.fill)
  BY <1>2 DEF InAvail
<1>5. copy \in Nat /\ copy <= InAvail
  BY <1>3, <1>4 DEF Least
<1>7. is \in {"end", "wait", "data"} /\ (is = "end" <=> atend)
  BY <1>2
<1> HIDE DEF copy, is
<1>8. ASSUME Clean PROVE \A j \in DOMAIN Taken(cache, copy) : Taken(cache, copy)[j] = rdpos + j - 1
  <2>1. CASE copy = 0
    BY <1>2, <1>5, <2>1, TakenType
  <2>2. CASE copy > 0
    BY <1>2, <1>4, <1>5, <1>8, <2>2, TakenIs DEF BufferSound, NoBuffer
  <2> QED BY <1>5, <2>1, <2>2
<1>9. rdpos' \in Nat /\ rdpos <= rdpos' /\ (rdpos' = rdpos \/ rdpos' <= cache.off + cache.fill)
  BY <1>1, <1>2, <1>4, <1>5
<1>10. atend' \in BOOLEAN /\ faults \subseteq faults' /\ faults' \subseteq FaultKinds /\ "sized" \notin faults'
         /\ (Clean' <=> Clean) /\ (Dirty' <=> Dirty)
         /\ (atend' => atend \/ "short" \in faults')
  <2>1. CASE kind = "sgetn" /\ is = "data"
    <3>1. (copy < n) \in BOOLEAN
      BY <1>3, <1>5
    <3>2. atend' \in BOOLEAN /\ (atend' <=> copy < n)
      BY <1>1, <2>1, <3>1, Zenon
    <3> QED BY <1>1, <1>2, <2>1, <3>2 DEF FaultKinds, Clean, Dirty
  <2>2. CASE ~(kind = "sgetn" /\ is = "data")
    BY <1>1, <1>2, <2>2 DEF Clean, Dirty
  <2> QED BY <2>1, <2>2
<1>11. last' \in Answers
  BY <1>1, <1>2, <1>3, <1>5, <1>7, TakenType DEF Answers
<1>12. ReadTypes' /\ OnesAsked'
  BY <1>1, <1>2, <1>9, <1>10, <1>11, FileBufferAssumption DEF ReadTypes, OnesAsked
<1>13. Clean' => BufferSound'
  <2> SUFFICES ASSUME Clean PROVE BufferSound'
    BY <1>10
  <2>1. CASE rdpos' = rdpos
    BY <1>1, <1>2, <2>1 DEF BufferSound, Holds
  <2>2. CASE rdpos' # rdpos
    BY <1>1, <1>2, <1>4, <1>5, <1>9, <2>2 DEF BufferSound, Holds, NoBuffer
  <2> QED BY <2>1, <2>2
<1>15. LastSound'
  <2>1. (\E i \in DOMAIN last'.got : last'.got[i] # last'.at + i - 1) => Dirty'
    <3>1. CASE Clean
      BY <1>1, <1>8, <3>1
    <3>2. CASE ~Clean
      BY <1>10, <3>2 DEF Clean, Dirty
    <3> QED BY <3>1, <3>2
  <2>3. last'.is = "end" /\ last'.at < file'.size => Dirty' \/ faults' \cap {"rewound", "short"} # {}
    <3> SUFFICES ASSUME atend, rdpos < file.size PROVE Dirty' \/ faults' \cap {"rewound", "short"} # {}
      BY <1>1, <1>7
    <3>1. CASE Clean
      BY <1>2, <1>3, <1>10, <3>1 DEF AtEndSound
    <3>2. CASE ~Clean
      BY <1>10, <3>2 DEF Clean, Dirty
    <3> QED BY <3>1, <3>2
  <2> QED BY <1>1, <2>1, <2>3 DEF LastSound
<1> QED BY <1>1, <1>2, <1>3, <1>9, <1>10, <1>12, <1>13, <1>15 DEF ReadInv, AtEndSound

LEMMA ReadUnchanged ==
    ASSUME ReadInv, UNCHANGED <<file, reading>>
    PROVE  ReadInv'
  BY LastKeeps DEF ReadInv, Clean, BufferSound, Holds, FillSound, AtEndSound, reading, ReadTypes,
     OnesAsked

-----------------------------------------------------------------------------
(* Files: the theorems.                                                       *)

LEMMA FileStepKeeps ==
    ASSUME FileInv, [FileNext]_fileVars
    PROVE  FileInv'
<1>1. file \in FileWorlds /\ ReadInv /\ WriteInv
  BY DEF FileInv
<1>2. CASE UNCHANGED fileVars
  BY <1>1, <1>2, ReadUnchanged, WriteUnchanged DEF FileInv, fileVars
<1>3. CASE FileNext
  <2>1. "sized" \notin faults
    BY <1>3 DEF FileNext, FileCrashed
  <2>2. ASSUME ReadInv', UNCHANGED <<file, writing>> PROVE FileInv'
    BY <1>1, <2>2, WriteUnchanged DEF FileInv
  <2>3. ASSUME WriteInv', UNCHANGED <<file, reading>> PROVE FileInv'
    BY <1>1, <2>3, ReadUnchanged DEF FileInv
  <2>4. ASSUME NEW kind \in Kinds_Char \cup {"getn"}, NEW n \in file.counts \cup {1},
               Enqueue([kind |-> kind, n |-> n])
        PROVE  FileInv'
    BY <1>1, <2>1, <2>2, <2>4, EnqueueKeeps DEF Enqueue
  <2>5. ASSUME NEW kind \in Kinds_Sync, NEW n \in file.counts \cup {1}, SyncRead(kind, n)
        PROVE  FileInv'
    BY <1>1, <2>1, <2>2, <2>5, SyncReadKeeps DEF SyncRead
  <2>6. ASSUME NEW pos \in 0..file.size, Seek(pos)
        PROVE  FileInv'
    BY <1>1, <2>1, <2>2, <2>6, SeekKeeps DEF Seek
  <2>7. CASE Size
    BY <1>1, <2>1, <2>2, <2>7, SizeKeeps DEF Size
  <2>8. CASE Sync
    BY <1>1, <2>3, <2>8, SyncKeeps DEF Sync
  <2>9. CASE EndsAtOnce
    BY <1>1, <2>1, <2>2, <2>9, EndsAtOnceKeeps DEF EndsAtOnce
  <2>10. CASE Seeks
    BY <1>1, <2>1, <2>2, <2>10, SeeksKeeps DEF Seeks
  <2>11. CASE FromBuffer
    BY <1>1, <2>1, <2>2, <2>11, FromBufferKeeps DEF FromBuffer
  <2>12. CASE StartFill
    BY <1>1, <2>1, <2>2, <2>12, StartFillKeeps DEF StartFill
  <2>13. CASE FillDone
    BY <1>1, <2>1, <2>2, <2>13, FillDoneKeeps DEF FillDone
  <2>14. CASE FillFails
    BY <1>1, <2>1, <2>2, <2>14, FillFailsKeeps DEF FillFails
  <2>15. ASSUME NEW w \in Writes, Put(w) PROVE FileInv'
    BY <1>1, <2>3, <2>15, PutKeeps DEF Put
  <2>16. ASSUME NEW w \in Writes, FindEnd(w) PROVE FileInv'
    BY <1>1, <2>3, <2>16, FindEndKeeps DEF FindEnd
  <2>17. ASSUME NEW w \in Writes, WriteDone(w) PROVE FileInv'
    BY <1>1, <2>3, <2>17, WriteDoneKeeps DEF WriteDone
  <2>18. ASSUME NEW w \in Writes, WriteFails(w) PROVE FileInv'
    BY <1>1, <2>3, <2>18, WriteFailsKeeps DEF WriteFails
  <2>19. ASSUME NEW w \in Writes, Uncount(w) PROVE FileInv'
    BY <1>1, <2>3, <2>19, UncountKeeps DEF Uncount
  <2> QED
    BY <1>3, <2>4, <2>5, <2>6, <2>7, <2>8, <2>9, <2>10, <2>11, <2>12, <2>13, <2>14, <2>15, <2>16,
       <2>17, <2>18, <2>19 DEF FileNext
<1> QED BY <1>2, <1>3

LEMMA FileInvInit == FileInit => FileInv
  BY ReadInit, WriteInit DEF FileInit, FileInv

LEMMA FileInvStep == FileInv /\ [FileNext]_fileVars => FileInv'
  BY FileStepKeeps

\* The inductive invariant holds in every state that can be reached, for every
\* file, every size of the buffer, and any number of calls and of writes.
THEOREM FileInvariant == FileSpec => []FileInv
  BY FileInvInit, FileInvStep, PTL DEF FileSpec

LEMMA FileInvTypes == FileInv => FileTypeOK
  BY DEF FileInv, ReadInv, ReadTypes, WriteInv, WriteTypes, Buffers, Ops, Fills, Answers,
     FileTypeOK

\* Every variable of the file buffer keeps to its type.
THEOREM FileTypeCorrect == FileSpec => []FileTypeOK
  BY FileInvTypes, FileInvariant, PTL

LEMMA ReadsAreSound ==
    file \in FileWorlds /\ ReadInv => ReadsSound
<1> SUFFICES ASSUME file \in FileWorlds, ReadInv PROVE ReadsSound
  OBVIOUS
<1>1. LastSound /\ rdpos \in Nat /\ cache \in Buffers /\ io.is \in {"none", "reading", "lost"}
  BY DEF ReadInv, ReadTypes, Fills
<1>2. ASSUME rdpos > cache.off + cache.fill, cache # NoBuffer, ~Dirty PROVE FALSE
  <2>3. CASE io.is = "none"
    BY <1>1, <1>2, <2>3 DEF ReadInv, BufferSound, Buffers, Clean, Dirty
  <2>4. CASE io.is = "reading"
    BY <1>1, <1>2, <2>4 DEF ReadInv, FillSound, Buffers, Clean, Dirty
  <2>5. CASE io.is = "lost"
    BY <1>2, <2>5 DEF ReadInv, Dirty
  <2> QED BY <1>1, <2>3, <2>4, <2>5
<1> QED BY <1>1, <1>2 DEF ReadsSound, LastSound, Dirty

LEMMA WritesAreSound ==
    file \in FileWorlds /\ WriteInv => WritesSound
<1> SUFFICES ASSUME file \in FileWorlds, WriteInv PROVE WritesSound
  OBVIOUS
<1> QED BY DEF WritesSound, FlushSound, CountedWrites, EndsSound, InFile, PositionsSound, WriteInv

\* A read gets the characters of the file from where it began and is told of the
\* end only there, unless one of the known miscalculations happened before; a
\* write comes to the place it was given, and a flush of POSIX has seen those
\* before it end.
THEOREM FileBufferIsSound == FileSpec => []FileBufferSound
<1>1. FileInv => FileBufferSound
  BY ReadsAreSound, WritesAreSound DEF FileInv, FileBufferSound
<1> QED BY <1>1, FileInvariant, PTL

-----------------------------------------------------------------------------
(* The server, the websocket and the file, side by side: one of them moves and *)
(* the others stand.                                                           *)

AsyncInv == ServerInv /\ WsInv /\ FileInv

LEMMA OneOfThreeSteps == [MCNext]_allVars => [Next]_vars /\ [WsNext]_wsVars /\ [FileNext]_fileVars
  BY DEF MCNext, allVars

LEMMA AsyncInvInit == MCInit => AsyncInv
  BY ServerInvInit, WsInvInit, FileInvInit DEF MCInit, AsyncInv

LEMMA AsyncInvStep == AsyncInv /\ [MCNext]_allVars => AsyncInv'
<1> SUFFICES ASSUME AsyncInv, [MCNext]_allVars PROVE AsyncInv'
  OBVIOUS
<1> QED BY OneOfThreeSteps, ServerInvStep, WsInvStep, FileInvStep DEF AsyncInv

\* Every variable of the server over HTTP.sys, of a websocket and of a file has
\* its type, whichever of them runs; in particular, the counts of the requests,
\* of the sends of a websocket and of the outstanding writes of a file never
\* become negative
\* (http_server_httpsys.cpp, ws_client_wspp.cpp, fileio_win32.cpp, fileio_posix.cpp).
THEOREM AsyncTypes == MCSpec => []AsyncTypeOK
<1>1. AsyncInv => AsyncTypeOK
  <2>1. ServerInv => TypeOK
    BY DEF ServerInv
  <2>2. WsInv => WsTypeOK
    BY DEF WsInv
  <2>3. FileInv => FileTypeOK
    BY FileInvTypes
  <2> QED BY <2>1, <2>2, <2>3 DEF AsyncInv, AsyncTypeOK
<1> QED BY <1>1, AsyncInvInit, AsyncInvStep, PTL DEF MCSpec
=============================================================================
