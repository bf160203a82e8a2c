-------------------------- MODULE Monitoring_proofs --------------------------
(* Proofs about the monitoring application.  Of Inventory, for every set of   *)
(* computers, names and requests of the page, and for every number of posts:  *)
(* the inductive invariant, InvInv, relates the place of a post among those   *)
(* assigned to json_buffer (turn) to what is in the buffer, in the map and in *)
(* the handlers.  Of SoftwareEnumeration, for every finite set of keys, every *)
(* length of their names below the size of the buffer, every order of the     *)
(* keys and every number of changes by installers: the inductive invariant,   *)
(* EnumInv, says of the key whose name the loop holds that it is not before   *)
(* the index, and that every key before it has been dealt with.  Of           *)
(* ServerApi, for every set of listeners, of addresses and of users who wait: *)
(* the inductive invariant, ApiInv, adds to the properties what is true while *)
(* somebody holds s_lock.  The three run side by side in MCSpec.              *)
EXTENDS MCMonitoring, FiniteSetTheorems, SequenceTheorems, TLAPS

-----------------------------------------------------------------------------
(* The inventory.                                                             *)

\* An agent's posts are numbered as it sends them, and it is within its script.
SentOf(a) == {n \in 1..MaxPosts[a] : post[<<a, n>>].pc # "none"}
Numbered ==
    /\ \A a \in Agents : Posted(a) \in Nat /\ SentOf(a) = 1..Posted(a)
    /\ \A a \in Agents : agent[a].pc # "idle" => agent[a].at \in 1..Len(Script[a])
    /\ \A p \in Posts : post[p].pc # "none" =>
            post[p].report \in Report /\ post[p].report.by = p /\ post[p].report.whole

Turned == {p \in Posts : post[p].turn > 0}
TurnsCounted ==
    /\ IsFiniteSet(Turned)
    /\ \A p \in Posts :
        /\ post[p].turn <= Turns
        /\ post[p].pc \in {"none", "lost", "sent"} => post[p].turn = 0 /\ ~post[p].raced
        /\ Active(p) \/ post[p].status = 200 => post[p].turn > 0
        /\ post[p].status = 200 => post[p].pc = "done"

\* A report that was posted and assigned to the buffer, or a mixture made by the
\* handler of a post that was, and was not alone.
Genuine(r) ==
    /\ r \in Report /\ Turn(r) > 0
    /\ IF r.whole THEN post[r.by].report = r ELSE ~post[r.by].alone

\* What the buffer has, and so what a handler has read back, is not earlier than
\* any report whose post was alone.
HasRead == {"parsing", "insert", "inserting"}
NotBeforeLone(r) == \A p \in Posts : post[p].alone => Turn(r) >= post[p].turn
BufferIsLast == Turns > 0 => Genuine(buffer) /\ NotBeforeLone(buffer)
OwnIsLater ==
    \A p \in Posts : post[p].pc \in HasRead => Genuine(post[p].own) /\ NotBeforeLone(post[p].own)

\* A post that overlaps no other has its own report in the buffer, does not
\* race, and is kept; handlers that run later were assigned later.
Undisturbed(p) ==
    /\ Active(p) => /\ \A q \in Posts \ {p} : ~Active(q)
                    /\ buffer = post[p].report /\ ~post[p].raced
    /\ post[p].pc \in HasRead => post[p].own = post[p].report
    /\ post[p].pc = "done" => \A q \in Posts : Active(q) => post[q].turn > post[p].turn
    /\ post[p].pc = "reply" \/ post[p].status = 200 => Kept(p)
LoneUndisturbed == \A p \in Posts : post[p].alone => Undisturbed(p)

MapIsGenuine == \A n \in Names : map[n] # Empty => map[n].name = n /\ Genuine(map[n])

\* While the administrator waits for each answer, one request is outstanding
\* and asks for what is selected.
Answered(g) ==
    get[g].report # Empty =>
        Genuine(get[g].report) /\ get[g].report.name = get[g].name
PageInOrder ==
    /\ \A g \in Gets : Answered(g)
    /\ page.table # Empty => Genuine(page.table)
    /\ page.orderly =>
        /\ page.table # Empty => page.table.name = page.selected
        /\ \A g \in Gets : get[g].pc # "none" =>
              /\ get[g].name \in {"all", page.selected}
              /\ \A h \in Gets \ {g} : get[h].pc = "none"

InvInv ==
    /\ TypeOK /\ Numbered /\ TurnsCounted /\ BufferIsLast /\ OwnIsLater
    /\ LoneUndisturbed /\ MapIsGenuine /\ PageInOrder
-----------------------------------------------------------------------------
(* Records of a post, updated.                                                *)

PostPC == {"none", "lost", "sent", "assigning", "parsing", "insert", "inserting", "reply", "done"}
Status == {0, 200, 500}

LEMMA PostType ==
    Post = [pc : PostPC, report : AnyReport, own : AnyReport, status : Status,
            alone : BOOLEAN, raced : BOOLEAN, turn : Nat]
  BY DEF Post, PostPC, Status

Replied(x, c, t) == [x EXCEPT !.pc = c, !.status = t]
Assigned(x, c, n, b, d) == [x EXCEPT !.pc = c, !.turn = n, !.alone = b, !.raced = d]
Overlapped(x, b, d) == [x EXCEPT !.alone = @ /\ b, !.raced = @ \/ d]
ReadBack(x, c, r, b) == [x EXCEPT !.pc = c, !.own = r, !.raced = b]
Inserting(x, c, b) == [x EXCEPT !.pc = c, !.raced = b]
Racing(x, b) == [x EXCEPT !.raced = @ \/ b]
Left(x, c) == [x EXCEPT !.pc = c, !.own = Empty, !.raced = FALSE]
Thrown(x, c, t) == [x EXCEPT !.pc = c, !.status = t, !.own = Empty, !.raced = FALSE]
SentAs(x, c, r) == [x EXCEPT !.pc = c, !.report = r]

LEMMA PostReplied ==
    ASSUME NEW x \in Post, NEW c \in PostPC, NEW t \in Status
    PROVE  /\ Replied(x, c, t) \in Post
           /\ Replied(x, c, t).pc = c
           /\ Replied(x, c, t).status = t
           /\ Replied(x, c, t).own = x.own
           /\ Replied(x, c, t).report = x.report
           /\ Replied(x, c, t).turn = x.turn
           /\ Replied(x, c, t).alone = x.alone
           /\ Replied(x, c, t).raced = x.raced
  BY PostType DEF Replied

LEMMA PostAssigned ==
    ASSUME NEW x \in Post, NEW c \in PostPC, NEW n \in Nat, NEW b \in BOOLEAN,
           NEW d \in BOOLEAN
    PROVE  /\ Assigned(x, c, n, b, d) \in Post
           /\ Assigned(x, c, n, b, d).pc = c
           /\ Assigned(x, c, n, b, d).status = x.status
           /\ Assigned(x, c, n, b, d).own = x.own
           /\ Assigned(x, c, n, b, d).report = x.report
           /\ Assigned(x, c, n, b, d).turn = n
           /\ (Assigned(x, c, n, b, d).alone => b)
           /\ (Assigned(x, c, n, b, d).raced => d)
  BY PostType DEF Assigned

LEMMA PostOverlapped ==
    ASSUME NEW x \in Post, NEW b \in BOOLEAN, NEW d \in BOOLEAN
    PROVE  /\ Overlapped(x, b, d) \in Post
           /\ Overlapped(x, b, d).pc = x.pc
           /\ Overlapped(x, b, d).status = x.status
           /\ Overlapped(x, b, d).own = x.own
           /\ Overlapped(x, b, d).report = x.report
           /\ Overlapped(x, b, d).turn = x.turn
           /\ (Overlapped(x, b, d).alone => x.alone /\ b)
           /\ (Overlapped(x, b, d).raced => x.raced \/ d)
  BY PostType DEF Overlapped

LEMMA PostRead ==
    ASSUME NEW x \in Post, NEW c \in PostPC, NEW r \in AnyReport, NEW b \in BOOLEAN
    PROVE  /\ ReadBack(x, c, r, b) \in Post
           /\ ReadBack(x, c, r, b).pc = c
           /\ ReadBack(x, c, r, b).status = x.status
           /\ ReadBack(x, c, r, b).own = r
           /\ ReadBack(x, c, r, b).report = x.report
           /\ ReadBack(x, c, r, b).turn = x.turn
           /\ ReadBack(x, c, r, b).alone = x.alone
           /\ ReadBack(x, c, r, b).raced = b
  BY PostType DEF ReadBack

LEMMA PostInserting ==
    ASSUME NEW x \in Post, NEW c \in PostPC, NEW b \in BOOLEAN
    PROVE  /\ Inserting(x, c, b) \in Post
           /\ Inserting(x, c, b).pc = c
           /\ Inserting(x, c, b).status = x.status
           /\ Inserting(x, c, b).own = x.own
           /\ Inserting(x, c, b).report = x.report
           /\ Inserting(x, c, b).turn = x.turn
           /\ Inserting(x, c, b).alone = x.alone
           /\ Inserting(x, c, b).raced = b
  BY PostType DEF Inserting

LEMMA PostRaced ==
    ASSUME NEW x \in Post, NEW b \in BOOLEAN
    PROVE  /\ Racing(x, b) \in Post
           /\ Racing(x, b).pc = x.pc
           /\ Racing(x, b).status = x.status
           /\ Racing(x, b).own = x.own
           /\ Racing(x, b).report = x.report
           /\ Racing(x, b).turn = x.turn
           /\ Racing(x, b).alone = x.alone
           /\ (Racing(x, b).raced => x.raced \/ b)
  BY PostType DEF Racing

LEMMA PostLeft ==
    ASSUME NEW x \in Post, NEW c \in PostPC
    PROVE  /\ Left(x, c) \in Post
           /\ Left(x, c).pc = c
           /\ Left(x, c).status = x.status
           /\ Left(x, c).report = x.report
           /\ Left(x, c).turn = x.turn
           /\ Left(x, c).alone = x.alone
           /\ ~Left(x, c).raced
  BY PostType DEF Left, AnyReport

LEMMA PostThrown ==
    ASSUME NEW x \in Post, NEW c \in PostPC, NEW t \in Status
    PROVE  /\ Thrown(x, c, t) \in Post
           /\ Thrown(x, c, t).pc = c
           /\ Thrown(x, c, t).status = t
           /\ Thrown(x, c, t).report = x.report
           /\ Thrown(x, c, t).turn = x.turn
           /\ Thrown(x, c, t).alone = x.alone
  BY PostType DEF Thrown, AnyReport

LEMMA PostSent ==
    ASSUME NEW x \in Post, NEW c \in PostPC, NEW r \in AnyReport
    PROVE  /\ SentAs(x, c, r) \in Post
           /\ SentAs(x, c, r).pc = c
           /\ SentAs(x, c, r).status = x.status
           /\ SentAs(x, c, r).own = x.own
           /\ SentAs(x, c, r).report = r
           /\ SentAs(x, c, r).turn = x.turn
           /\ SentAs(x, c, r).alone = x.alone
           /\ SentAs(x, c, r).raced = x.raced
  BY PostType DEF SentAs

-----------------------------------------------------------------------------
(* What a step leaves alone.                                                 *)

\* No step takes back a post, changes a report, or moves a post's turn, and a
\* post that overlapped another has.
PostsGrow ==
    \A p \in Posts :
        /\ post[p].pc # "none" => post'[p].pc # "none" /\ post'[p].report = post[p].report
        /\ post[p].turn > 0 =>
              post'[p].turn = post[p].turn /\ (post'[p].alone => post[p].alone)

\* Nobody who was not alone is, and nobody was assigned.
SameTurns ==
    \A p \in Posts : post'[p].turn = post[p].turn /\ (post'[p].alone => post[p].alone)

LEMMA GenuineStays ==
    ASSUME InvInv, PostsGrow
    PROVE  \A r \in Report : Genuine(r) => Genuine(r)' /\ Turn(r)' = Turn(r)
<1> SUFFICES ASSUME NEW r \in Report, Genuine(r)
             PROVE  Genuine(r)' /\ Turn(r)' = Turn(r)
  OBVIOUS
<1>1. r.by \in Posts /\ post[r.by].turn > 0 /\ post[r.by].pc # "none"
  BY DEF Genuine, Turn, Report, InvInv, TurnsCounted
<1> QED BY <1>1 DEF PostsGrow, Genuine, Turn

LEMMA MapStays ==
    ASSUME InvInv, PostsGrow, map' = map
    PROVE  MapIsGenuine'
  BY GenuineStays DEF InvInv, MapIsGenuine, Genuine, Turn

LEMMA PageStays ==
    ASSUME InvInv, PostsGrow, UNCHANGED <<get, page>>
    PROVE  PageInOrder'
<1>2. ASSUME NEW g \in Gets PROVE Answered(g)'
  BY GenuineStays DEF InvInv, PageInOrder, Answered, Genuine, Turn
<1> QED BY <1>2, GenuineStays DEF InvInv, PageInOrder, Genuine, Turn

\* The handler of p goes on: nothing changes of the others but that they race,
\* and nothing of what was posted or of its turn.
Handles(p) ==
    /\ \A q \in Posts \ {p} :
        /\ post'[q].pc = post[q].pc /\ post'[q].own = post[q].own
        /\ post'[q].status = post[q].status
    /\ \A q \in Posts :
        /\ post'[q].report = post[q].report /\ post'[q].turn = post[q].turn
        /\ post'[q].alone = post[q].alone
    /\ post[p].pc # "none" /\ post'[p].pc # "none"
    /\ UNCHANGED <<agent, get, page>>

LEMMA NumberedStays ==
    ASSUME InvInv, UNCHANGED agent,
           \A p \in Posts : /\ post'[p].pc = "none" <=> post[p].pc = "none"
                            /\ post'[p].report = post[p].report
    PROVE  Numbered'
<1>1. ASSUME NEW a \in Agents PROVE SentOf(a)' = SentOf(a) /\ Posted(a)' = Posted(a)
  <2>1. \A n \in 1..MaxPosts[a] : <<a, n>> \in Posts
    BY DEF Posts
  <2> QED BY <2>1 DEF SentOf, Posted
<1> QED BY <1>1 DEF InvInv, Numbered

LEMMA HandlesStays ==
    ASSUME InvInv, NEW p \in Posts, Handles(p)
    PROVE  /\ Numbered' /\ PostsGrow /\ SameTurns /\ Turned' = Turned /\ Turns' = Turns
           /\ PageInOrder'
  BY NumberedStays, PageStays DEF Handles, Turned, Turns, PostsGrow, SameTurns

LEMMA TurnsStays ==
    ASSUME InvInv, NEW p \in Posts, Handles(p), post[p].turn > 0,
           post'[p].pc \notin {"none", "lost", "sent"},
           post'[p].status = 200 => post'[p].pc = "done",
           \A q \in Posts : post[q].pc \in {"none", "lost", "sent"} => ~post'[q].raced
    PROVE  TurnsCounted'
<1>1. Turned' = Turned /\ Turns' = Turns
  BY HandlesStays
<1>2. ASSUME NEW q \in Posts
      PROVE  /\ post'[q].turn <= Turns'
             /\ post'[q].pc \in {"none", "lost", "sent"} => post'[q].turn = 0 /\ ~post'[q].raced
             /\ (Active(q) \/ post[q].status = 200)' => post'[q].turn > 0
             /\ post'[q].status = 200 => post'[q].pc = "done"
  <2>1. CASE q = p
    BY <1>1, <2>1 DEF InvInv, TurnsCounted, Handles
  <2>2. CASE q # p
    BY <1>1, <2>2 DEF InvInv, TurnsCounted, Handles, Active
  <2> QED BY <2>1, <2>2
<1> QED BY <1>1, <1>2 DEF InvInv, TurnsCounted

LEMMA LoneStays ==
    ASSUME InvInv, SameTurns, PostsGrow, NEW r \in Report, Genuine(r), NotBeforeLone(r)
    PROVE  NotBeforeLone(r)'
  BY GenuineStays DEF SameTurns, NotBeforeLone, Turn

LEMMA BufferStays ==
    ASSUME InvInv, PostsGrow, SameTurns, buffer' = buffer, Turns' = Turns
    PROVE  BufferIsLast'
  BY GenuineStays, LoneStays DEF InvInv, BufferIsLast, Genuine, NotBeforeLone, Turn

LEMMA OwnStays ==
    ASSUME InvInv, PostsGrow, SameTurns,
           \A q \in Posts : post'[q].pc \in HasRead =>
                post[q].pc \in HasRead /\ post'[q].own = post[q].own
    PROVE  OwnIsLater'
<1> SUFFICES ASSUME NEW q \in Posts, post'[q].pc \in HasRead
             PROVE  (Genuine(post[q].own) /\ NotBeforeLone(post[q].own))'
  BY DEF OwnIsLater
<1>1. PICK r \in Report : Genuine(r) /\ NotBeforeLone(r) /\ post'[q].own = r
  BY DEF InvInv, OwnIsLater, Genuine
<1>2. Genuine(r)' /\ NotBeforeLone(r)' /\ Turn(r)' = Turn(r)
  BY <1>1, GenuineStays, LoneStays
<1> QED BY <1>1, <1>2 DEF Genuine, NotBeforeLone, Turn

LEMMA KeptStays ==
    ASSUME InvInv, PostsGrow, map' = map, NEW q \in Posts, post[q].turn > 0, Kept(q)
    PROVE  Kept(q)'
<1> DEFINE r == map[post[q].report.name]
<1>2. post[q].pc # "none" /\ post[q].report.name \in Names
  BY DEF InvInv, TurnsCounted, Numbered, Report
<1>3. r # Empty /\ Genuine(r) /\ r \in Report /\ Turn(r) >= post[q].turn
  BY <1>2 DEF Kept, InvInv, MapIsGenuine, Genuine
<1> QED BY <1>2, <1>3, GenuineStays DEF Kept, Turn, PostsGrow

\* While the handler of p runs, nobody else is alone and in its handler.
LEMMA OthersUndisturbed ==
    ASSUME InvInv, NEW p \in Posts, Handles(p), Active(p),
           NEW q \in Posts \ {p}, post'[q].alone, Kept(q) /\ post[q].status = 200 => Kept(q)'
    PROVE  Undisturbed(q)'
  BY DEF Undisturbed, Handles, HasRead, Active, InvInv, LoneUndisturbed

-----------------------------------------------------------------------------
(* The steps of the handler of a post.                                        *)

LEMMA ExtractFailsStep ==
    ASSUME InvInv, NEW p \in Posts, ExtractFails(p)
    PROVE  InvInv'
<1>1. /\ post' = [post EXCEPT ![p].pc = "done", ![p].status = 500] /\ post[p].pc = "sent"
      /\ UNCHANGED <<server, buffer, map, agent, get, page>> /\ post \in [Posts -> Post]
  BY DEF ExtractFails, Step, InvInv, TypeOK
<1>2. /\ \A q \in Posts \ {p} : post'[q] = post[q]
      /\ post'[p] = [post[p] EXCEPT !.pc = "done", !.status = 500]
      /\ post[p] \in Post
  BY <1>1
<1>3. /\ post'[p].pc = "done" /\ post'[p].status = 500 /\ post'[p].own = post[p].own
      /\ post'[p].report = post[p].report /\ post'[p].turn = post[p].turn
      /\ post'[p].alone = post[p].alone /\ post'[p] \in Post
  <2>2. post'[p] = Replied(post[p], "done", 500)
    BY <1>2 DEF Replied
  <2> QED BY <1>2, <2>2, PostReplied DEF PostPC, Status
<1>5. Numbered' /\ PostsGrow /\ SameTurns /\ Turned' = Turned /\ Turns' = Turns /\ PageInOrder'
  BY <1>1, <1>2, <1>3, HandlesStays DEF Handles
<1>6. TypeOK'
  BY <1>1, <1>2, <1>3 DEF InvInv, TypeOK
<1>7. TurnsCounted'
  BY <1>1, <1>2, <1>3, <1>5 DEF InvInv, TurnsCounted, Active
<1>9. OwnIsLater'
  BY <1>2, <1>3, <1>5, OwnStays DEF HasRead
<1>10. LoneUndisturbed'
  <2> SUFFICES ASSUME NEW q \in Posts, post'[q].alone PROVE Undisturbed(q)'
    BY DEF LoneUndisturbed
  <2>2. \A s \in Posts : (Active(s)' <=> Active(s)) /\ post'[s].turn = post[s].turn
    BY <1>1, <1>2, <1>3 DEF Active
  <2>3. CASE q = p
    BY <1>1, <1>3, <2>2, <2>3 DEF Undisturbed, Active, HasRead, InvInv, TurnsCounted
  <2>4. CASE q # p
    <3>2. post[q].status = 200 \/ post[q].pc = "reply" => Kept(q)'
      BY <1>1, <1>2, <1>3, <1>5, KeptStays DEF Undisturbed, InvInv, TurnsCounted, Active,
         LoneUndisturbed
    <3> QED BY <1>1, <1>2, <1>3, <2>2, <2>4, <3>2 DEF Undisturbed, InvInv, LoneUndisturbed
  <2> QED BY <2>3, <2>4
<1> QED BY <1>1, <1>5, <1>6, <1>7, <1>9, <1>10, BufferStays, MapStays DEF InvInv

\* The buffer is assigned.
LEMMA AssignStep ==
    ASSUME InvInv, NEW p \in Posts, Assign(p)
    PROVE  InvInv'
<1> DEFINE others == {q \in Posts \ {p} : Active(q)}
           rivals == In("assigning")
           race == rivals \cup In("parsing")
<1>1. /\ post[p].pc = "sent"
      /\ buffer' \in {post[p].report} \cup (IF rivals = {} THEN {} ELSE {buffer} \cup Torn(p))
      /\ UNCHANGED <<map, agent, get, page>> /\ server' \in {"up", "dead"}
      /\ post \in [Posts -> Post]
      /\ post' = [q \in Posts |->
                    IF q = p THEN [post[p] EXCEPT !.pc = "assigning", !.turn = Turns + 1,
                                                  !.alone = (others = {}), !.raced = (rivals # {})]
                    ELSE [post[q] EXCEPT !.alone = @ /\ q \notin others,
                                         !.raced = @ \/ q \in race]]
  BY DEF Assign, Step, AfterRace, InvInv, TypeOK
<1>2. Turns \in Nat /\ IsFiniteSet(Turned) /\ post[p].turn = 0
  BY <1>1, FS_CardinalityType DEF InvInv, TurnsCounted, Turns, Turned
<1>11. rivals # {} => others # {} /\ Turns > 0
  <2> SUFFICES ASSUME NEW q \in rivals PROVE others # {} /\ Turns > 0
    OBVIOUS
  <2>1. q \in Posts /\ Active(q) /\ q # p
    BY <1>1 DEF In, Active
  <2>2. post[q].turn > 0 /\ post[q].turn \in Nat /\ post[q].turn <= Turns
    BY <1>1, <2>1 DEF InvInv, TurnsCounted, Post
  <2> QED BY <1>2, <2>1, <2>2
<1>3. /\ post[p] \in Post
      /\ post'[p] = [post[p] EXCEPT !.pc = "assigning", !.turn = Turns + 1,
                                    !.alone = (others = {}), !.raced = (rivals # {})]
      /\ \A q \in Posts \ {p} :
            /\ post[q] \in Post
            /\ post'[q] = [post[q] EXCEPT !.alone = @ /\ q \notin others, !.raced = @ \/ q \in race]
  BY <1>1
<1>4. /\ post'[p] \in Post /\ post'[p].pc = "assigning" /\ post'[p].turn = Turns + 1
      /\ post'[p].report = post[p].report /\ post'[p].status = post[p].status
      /\ (post'[p].alone => others = {}) /\ (post'[p].raced => rivals # {})
  <2> DEFINE b == others = {}
             d == rivals # {}
  <2>1. b \in BOOLEAN /\ d \in BOOLEAN /\ Turns + 1 \in Nat /\ "assigning" \in PostPC
    BY <1>2 DEF PostPC
  <2>2. post'[p] = Assigned(post[p], "assigning", Turns + 1, b, d)
    BY <1>3 DEF Assigned
  <2>3. (b => others = {}) /\ (d => rivals # {})
    OBVIOUS
  <2> HIDE DEF b, d, others, rivals
  <2>4. /\ post'[p] \in Post /\ post'[p].pc = "assigning" /\ post'[p].turn = Turns + 1
        /\ post'[p].report = post[p].report /\ post'[p].status = post[p].status
        /\ (post'[p].alone => b) /\ (post'[p].raced => d)
    <3>1. post[p] \in Post
      BY <1>3
    <3> QED BY <2>1, <2>2, <3>1, PostAssigned
  <2> QED BY <2>3, <2>4
<1>5. \A q \in Posts \ {p} :
        /\ post'[q] \in Post /\ post'[q].pc = post[q].pc /\ post'[q].turn = post[q].turn
        /\ post'[q].report = post[q].report /\ post'[q].status = post[q].status
        /\ post'[q].own = post[q].own /\ (post'[q].raced => post[q].raced \/ Active(q))
        /\ (post'[q].alone => post[q].alone /\ ~Active(q))
  <2> SUFFICES ASSUME NEW q \in Posts \ {p}
               PROVE  /\ post'[q] \in Post /\ post'[q].pc = post[q].pc /\ post'[q].turn = post[q].turn
                      /\ post'[q].report = post[q].report /\ post'[q].status = post[q].status
                      /\ post'[q].own = post[q].own /\ (post'[q].raced => post[q].raced \/ Active(q))
                      /\ (post'[q].alone => post[q].alone /\ ~Active(q))
    OBVIOUS
  <2> DEFINE b == q \notin others
             d == q \in race
  <2>1. post[q] \in Post /\ post'[q] = Overlapped(post[q], b, d)
    BY <1>3 DEF Overlapped
  <2>2. b \in BOOLEAN /\ d \in BOOLEAN /\ (b => ~Active(q)) /\ (d => Active(q))
    BY DEF In, Active
  <2> HIDE DEF b, d
  <2> QED BY <2>1, <2>2, PostOverlapped
<1>16. buffer' \in AnyReport
  BY <1>1 DEF InvInv, TypeOK, Numbered, AnyReport, Torn, Report
<1>6. TypeOK'
  <2>1. post' \in [Posts -> Post]
    BY <1>1, <1>4, <1>5
  <2> QED BY <1>1, <1>16, <2>1 DEF InvInv, TypeOK
<1>7. PostsGrow
  <2> SUFFICES ASSUME NEW q \in Posts
               PROVE  /\ post[q].pc # "none" =>
                             post'[q].pc # "none" /\ post'[q].report = post[q].report
                      /\ post[q].turn > 0 =>
                            post'[q].turn = post[q].turn /\ (post'[q].alone => post[q].alone)
    BY DEF PostsGrow
  <2>1. CASE q = p
    BY <1>2, <1>4, <2>1
  <2>2. CASE q # p
    BY <1>5, <2>2
  <2> QED BY <2>1, <2>2
<1>8. Numbered'
  BY <1>1, <1>4, <1>5, NumberedStays
<1>9. Turned' = Turned \cup {p} /\ Turns' = Turns + 1 /\ IsFiniteSet(Turned)'
  <2>1. Turned' = Turned \cup {p} /\ p \notin Turned
    BY <1>2, <1>4, <1>5 DEF Turned
  <2>3. Turns = Cardinality(Turned) /\ Turns' = Cardinality(Turned')
    BY DEF Turns, Turned
  <2> QED BY <1>2, <2>1, <2>3, FS_AddElement
<1>10. TurnsCounted'
  <2>1. ASSUME NEW q \in Posts
        PROVE  /\ post'[q].turn <= Turns'
               /\ post'[q].pc \in {"none", "lost", "sent"} => post'[q].turn = 0 /\ ~post'[q].raced
               /\ Active(q)' \/ post'[q].status = 200 => post'[q].turn > 0
               /\ post'[q].status = 200 => post'[q].pc = "done"
    <3>1. CASE q = p
      <4>1. post[p].status # 200
        BY <1>1 DEF InvInv, TurnsCounted
      <4> QED BY <1>2, <1>4, <1>9, <3>1, <4>1
    <3>2. CASE q # p
      <4>1. post[q].turn <= Turns /\ post[q].turn \in Nat
        BY <1>3, <3>2 DEF InvInv, TurnsCounted, Post
      <4>2. post'[q].turn <= Turns'
        BY <1>2, <1>5, <1>9, <3>2, <4>1
      <4>3. /\ post'[q].pc \in {"none", "lost", "sent"} => post'[q].turn = 0 /\ ~post'[q].raced
            /\ Active(q)' \/ post'[q].status = 200 => post'[q].turn > 0
            /\ post'[q].status = 200 => post'[q].pc = "done"
        BY <1>5, <3>2 DEF InvInv, TurnsCounted, Active
      <4> QED BY <4>2, <4>3
    <3> QED BY <3>1, <3>2
  <2> QED BY <1>9, <2>1 DEF TurnsCounted
<1>17. ASSUME NEW r \in Report, Genuine(r), NotBeforeLone(r), others # {}
       PROVE  Genuine(r)' /\ NotBeforeLone(r)'
  <2>1. Genuine(r)' /\ Turn(r)' = Turn(r)
    BY <1>7, <1>17, GenuineStays
  <2>2. ASSUME NEW q \in Posts, post'[q].alone PROVE Turn(r) >= post'[q].turn
    <3>1. q # p
      BY <1>4, <1>17, <2>2
    <3> QED BY <1>5, <1>17, <2>2, <3>1 DEF NotBeforeLone
  <2> QED BY <2>1, <2>2 DEF NotBeforeLone
<1>18. ASSUME NEW r \in Report, r.by = p, r.whole => r = post[p].report, ~r.whole => others # {}
       PROVE  Genuine(r)' /\ NotBeforeLone(r)'
  <2>1. Turn(r)' = Turns'
    BY <1>4, <1>9, <1>18 DEF Turn
  <2>2. Turns' \in Nat /\ Turns' > 0
    BY <1>2, <1>9
  <2>3. Genuine(r)'
    BY <1>4, <1>18, <2>1, <2>2 DEF Genuine
  <2>4. \A q \in Posts : post'[q].turn <= Turns' /\ post'[q].turn \in Nat
    BY <1>10, <1>6 DEF TurnsCounted, TypeOK, Post
  <2>5. NotBeforeLone(r)'
    <3>1. \A q \in Posts : Turn(r)' >= post'[q].turn
      BY <2>1, <2>2, <2>4
    <3> QED BY <3>1 DEF NotBeforeLone
  <2> QED BY <2>3, <2>5
<1>12. BufferIsLast'
  <2>1. CASE buffer' = post[p].report
    <3>1. post[p].report \in Report /\ post[p].report.by = p /\ post[p].report.whole
      BY <1>1 DEF InvInv, Numbered
    <3>2. Genuine(buffer)' /\ NotBeforeLone(buffer)'
      BY <1>18, <2>1, <3>1 DEF Genuine, NotBeforeLone, Turn
    <3> QED BY <3>2 DEF BufferIsLast
  <2>2. CASE rivals # {} /\ buffer' = buffer
    <3>1. buffer \in Report /\ Genuine(buffer) /\ NotBeforeLone(buffer) /\ others # {}
      BY <1>11, <2>2 DEF InvInv, BufferIsLast, Genuine
    <3>2. Genuine(buffer)' /\ NotBeforeLone(buffer)'
      BY <1>17, <2>2, <3>1 DEF Genuine, NotBeforeLone, Turn
    <3> QED BY <3>2 DEF BufferIsLast
  <2>3. CASE rivals # {} /\ buffer' \in Torn(p)
    <3>1. buffer' \in Report /\ buffer'.by = p /\ ~buffer'.whole /\ others # {}
      BY <1>11, <2>3 DEF Torn, Report
    <3>2. PICK r \in Report : r = buffer'
      BY <3>1
    <3>3. Genuine(r)' /\ NotBeforeLone(r)'
      BY <1>18, <3>1, <3>2
    <3>4. Genuine(buffer)' /\ NotBeforeLone(buffer)'
      BY <3>2, <3>3 DEF Genuine, NotBeforeLone, Turn
    <3> QED BY <3>4 DEF BufferIsLast
  <2> QED BY <1>1, <2>1, <2>2, <2>3
<1>13. OwnIsLater'
  <2> SUFFICES ASSUME NEW q \in Posts, post'[q].pc \in HasRead
               PROVE  (Genuine(post[q].own) /\ NotBeforeLone(post[q].own))'
    BY DEF OwnIsLater
  <2>1. q # p /\ post[q].pc \in HasRead /\ post'[q].own = post[q].own
    BY <1>4, <1>5 DEF HasRead
  <2>2. PICK r \in Report : Genuine(r) /\ NotBeforeLone(r) /\ post'[q].own = r
    BY <2>1 DEF InvInv, OwnIsLater, Genuine
  <2>3. others # {}
    BY <2>1 DEF HasRead, Active
  <2>4. Genuine(r)' /\ NotBeforeLone(r)'
    BY <1>17, <2>2, <2>3
  <2> QED BY <2>2, <2>4 DEF Genuine, NotBeforeLone, Turn
<1>14. LoneUndisturbed'
  <2> SUFFICES ASSUME NEW q \in Posts, post'[q].alone PROVE Undisturbed(q)'
    BY DEF LoneUndisturbed
  <2>1. CASE q = p
    <3>1. \A s \in Posts \ {p} : ~Active(s)'
      BY <1>4, <1>5, <2>1 DEF Active
    <3>2. post[p].status # 200
      BY <1>1 DEF InvInv, TurnsCounted
    <3>3. rivals = {} /\ buffer' = post[p].report
      BY <1>1, <1>4, <1>11, <2>1
    <3> QED BY <1>1, <1>4, <2>1, <3>1, <3>2, <3>3 DEF Undisturbed, HasRead
  <2>2. CASE q # p
    <3>1. post[q].alone /\ Undisturbed(q) /\ ~Active(q) /\ ~Active(q)'
      BY <1>5, <2>2 DEF InvInv, LoneUndisturbed, Active
    <3>2. post[q].status = 200 => Kept(q)'
      BY <1>1, <1>7, <3>1, KeptStays DEF Undisturbed, InvInv, TurnsCounted
    <3>3. post'[q].pc = "done" => \A s \in Posts : Active(s)' => post'[s].turn > post'[q].turn
      <4>1. post[q].turn <= Turns /\ post[q].turn \in Nat
        BY <1>3, <2>2 DEF Post, InvInv, TurnsCounted
      <4> QED BY <1>2, <1>4, <1>5, <2>2, <3>1, <4>1 DEF Undisturbed, Active
    <3> QED BY <1>5, <2>2, <3>1, <3>2, <3>3 DEF Undisturbed, HasRead, Active
  <2> QED BY <2>1, <2>2
<1>15. MapIsGenuine' /\ PageInOrder'
  BY <1>1, <1>7, MapStays, PageStays
<1> QED BY <1>6, <1>8, <1>10, <1>12, <1>13, <1>14, <1>15 DEF InvInv

LEMMA ReportNotEmpty == ASSUME NEW r \in Report PROVE r # Empty
<1>1. PICK a \in Agents : r.by \in {a} \X (1..MaxPosts[a])
  BY DEF Report, Posts
<1>2. PICK n \in 1..MaxPosts[a] : r.by = <<a, n>>
  BY <1>1
<1> QED BY <1>2 DEF Empty

\* What the step of one handler, past its assignment, has to show.
LEMMA HandlerStep ==
    ASSUME InvInv, NEW p \in Posts, Handles(p), Active(p), post' \in [Posts -> Post],
           post'[p].pc \in HasRead \cup {"reply", "done"}, post'[p].status = 200 => post'[p].pc = "done",
           \A q \in Posts : post[q].pc \in {"none", "lost", "sent"} => ~post'[q].raced,
           server' \in {"up", "dead"}, buffer' = buffer, map' \in [Names -> AnyReport],
           OwnIsLater', MapIsGenuine', post'[p].alone => Undisturbed(p)',
           \A q \in Posts \ {p} :
                post'[q].alone /\ Undisturbed(q) /\ post[q].status = 200 => Kept(q)'
    PROVE  InvInv'
<1>5. LoneUndisturbed'
  <2> SUFFICES ASSUME NEW q \in Posts, post'[q].alone PROVE Undisturbed(q)'
    BY DEF LoneUndisturbed
  <2>1. CASE q # p
    BY <2>1, OthersUndisturbed DEF Handles, InvInv, LoneUndisturbed
  <2> QED BY <2>1
<1> QED
  BY <1>5, TurnsStays, HandlesStays, BufferStays DEF InvInv, HasRead, TurnsCounted, TypeOK,
     Handles

LEMMA ParseStep ==
    ASSUME InvInv, NEW p \in Posts, ParseBegin(p) \/ ParseEnd(p)
    PROVE  InvInv'
<1> DEFINE to == IF post[p].pc = "assigning" THEN "parsing" ELSE "insert"
<1>1. /\ post[p].pc \in {"assigning", "parsing"} /\ post \in [Posts -> Post]
      /\ UNCHANGED <<buffer, map, agent, get, page>> /\ server' \in {"up", "dead"}
      /\ map \in [Names -> AnyReport] /\ to \in PostPC /\ buffer \in AnyReport
  BY DEF ParseBegin, ParseEnd, Step, AfterRace, InvInv, TypeOK, PostPC
<1>10. Active(p) /\ post[p].turn > 0 /\ Turns > 0
  BY <1>1, FS_CardinalityType DEF Active, InvInv, TurnsCounted, Turns, Turned, Post
<1>11. post[p].alone => In("assigning") \subseteq {p} /\ ~post[p].raced
  BY <1>10 DEF InvInv, LoneUndisturbed, Undisturbed, In, Active
<1>2. PICK r \in AnyReport, b \in BOOLEAN :
        /\ post' = [post EXCEPT ![p].pc = to, ![p].own = r, ![p].raced = b]
        /\ \/ r = buffer
           \/ post[p].pc = "parsing" /\ r = post[p].own
           \/ r \in Torn(p) /\ ~post[p].alone
        /\ post[p].alone => ~b
  <2>2. CASE ParseBegin(p)
    <3> DEFINE b == In("assigning") # {p}
    <3>1. /\ post' = [post EXCEPT ![p].pc = to, ![p].own = buffer, ![p].raced = b]
          /\ post[p].pc = "assigning"
      BY <2>2 DEF ParseBegin, Step
    <3>2. b \in BOOLEAN /\ (post[p].alone => ~b)
      BY <1>11, <3>1 DEF In
    <3> HIDE DEF b
    <3> QED BY <1>1, <3>1, <3>2
  <2>3. CASE ParseEnd(p)
    <3>1. PICK r \in {post[p].own} \cup (IF post[p].raced THEN {buffer} \cup Torn(p) ELSE {}) :
            post' = [post EXCEPT ![p].pc = "insert", ![p].own = r, ![p].raced = FALSE]
      BY <2>3 DEF ParseEnd
    <3>2. to = "insert" /\ post[p].pc = "parsing" /\ post[p].own \in AnyReport
      BY <1>1, <2>3 DEF ParseEnd, Step, Post
    <3>3. r \in AnyReport
      BY <1>1, <3>1, <3>2 DEF Torn, AnyReport, Report
    <3> QED BY <1>11, <3>1, <3>2, <3>3
  <2> QED BY <2>2, <2>3
<1>3. /\ \A q \in Posts \ {p} : post'[q] = post[q]
      /\ post'[p] = ReadBack(post[p], to, r, b)
      /\ post' \in [Posts -> Post] /\ post'[p].pc = to /\ post'[p].own = r
      /\ post'[p].report = post[p].report /\ post'[p].turn = post[p].turn
      /\ post'[p].alone = post[p].alone /\ post'[p].status = post[p].status
      /\ post'[p].raced = b
  <2> HIDE DEF to
  <2>1. /\ \A q \in Posts \ {p} : post'[q] = post[q] /\ post'[q] \in Post
        /\ post'[p] = ReadBack(post[p], to, r, b)
        /\ DOMAIN post' = Posts /\ post' = [q \in Posts |-> post'[q]]
    BY <1>1, <1>2 DEF ReadBack
  <2> QED BY <1>1, <2>1, PostRead
<1>4. Handles(p) /\ Active(p)
  BY <1>1, <1>3, <1>10 DEF Handles
<1>5. /\ Genuine(r) /\ NotBeforeLone(r) /\ r \in Report
      /\ post[p].alone => r = post[p].report
  <2>5. CASE r = buffer
    BY <1>10, <2>5 DEF Genuine, InvInv, BufferIsLast, LoneUndisturbed, Undisturbed
  <2>6. CASE post[p].pc = "parsing" /\ r = post[p].own
    BY <2>6 DEF InvInv, OwnIsLater, LoneUndisturbed, Undisturbed, HasRead, Genuine
  <2>7. CASE r \in Torn(p) /\ ~post[p].alone
    <3>1. r \in Report /\ Genuine(r) /\ Turn(r) = post[p].turn
      BY <1>10, <2>7 DEF Torn, Report, Genuine, Turn
    <3>2. ASSUME NEW q \in Posts, post[q].alone PROVE post[p].turn >= post[q].turn
      <4>1. Undisturbed(q) /\ q # p /\ ~Active(q)
        BY <1>10, <2>7, <3>2 DEF InvInv, LoneUndisturbed, Undisturbed
      <4>2. CASE post[q].pc = "done"
        BY <1>1, <1>10, <4>1, <4>2 DEF Undisturbed, Post
      <4>3. CASE post[q].pc \in {"none", "lost", "sent"}
        BY <1>1, <1>10, <4>3 DEF InvInv, TurnsCounted, Post
      <4> QED BY <1>1, <4>1, <4>2, <4>3 DEF Post, Active
    <3> QED BY <2>7, <3>1, <3>2 DEF NotBeforeLone
  <2> QED BY <1>2, <2>5, <2>6, <2>7
<1>6. PostsGrow /\ SameTurns /\ MapIsGenuine'
  BY <1>1, <1>4, HandlesStays, MapStays
<1>7. Genuine(r)' /\ NotBeforeLone(r)'
  BY <1>5, <1>6, GenuineStays, LoneStays
<1>8. OwnIsLater'
  <2> SUFFICES ASSUME NEW q \in Posts, post'[q].pc \in HasRead
               PROVE  (Genuine(post[q].own) /\ NotBeforeLone(post[q].own))'
    BY DEF OwnIsLater
  <2>1. CASE q = p
    BY <1>3, <1>7, <2>1 DEF Genuine, NotBeforeLone, Turn
  <2>2. CASE q # p
    <3>1. PICK s \in Report : Genuine(s) /\ NotBeforeLone(s) /\ post'[q].own = s
      BY <1>3, <1>4, <2>2 DEF InvInv, OwnIsLater, Genuine, Handles
    <3>2. Genuine(s)' /\ NotBeforeLone(s)'
      BY <1>6, <3>1, GenuineStays, LoneStays
    <3> QED BY <3>1, <3>2 DEF Genuine, NotBeforeLone, Turn
  <2> QED BY <2>1, <2>2
<1>9. post'[p].alone => Undisturbed(p)'
  <2> SUFFICES ASSUME post[p].alone PROVE Undisturbed(p)'
    BY <1>3
  <2> QED BY <1>1, <1>2, <1>3, <1>4, <1>5 DEF Undisturbed, InvInv, LoneUndisturbed, Active,
         TurnsCounted
<1> QED
  BY <1>1, <1>3, <1>4, <1>6, <1>8, <1>9, KeptStays, HandlerStep DEF InvInv, TurnsCounted, HasRead,
     Undisturbed

\* The handler replies, or its text does not parse.
LEMMA EndsStep ==
    ASSUME InvInv, NEW p \in Posts, ParseThrows(p) \/ ReplyOK(p)
    PROVE  InvInv'
<1> DEFINE t == IF post[p].pc = "parsing" THEN 500 ELSE 200
<1>1. /\ post[p].pc \in {"parsing", "reply"} /\ post \in [Posts -> Post]
      /\ UNCHANGED <<server, buffer, map, agent, get, page>>
      /\ server \in {"up", "dead"} /\ map \in [Names -> AnyReport]
      /\ t \in Status /\ "done" \in PostPC
      /\ \/ post' = [post EXCEPT ![p].pc = "done", ![p].status = t]
         \/ post' = [post EXCEPT ![p].pc = "done", ![p].status = t, ![p].own = Empty,
                                 ![p].raced = FALSE]
  BY DEF ParseThrows, ReplyOK, Step, InvInv, TypeOK, Status, PostPC
<1>2. /\ \A q \in Posts \ {p} : post'[q] = post[q]
      /\ post' \in [Posts -> Post] /\ post'[p].pc = "done" /\ post'[p].status = t
      /\ post'[p].report = post[p].report /\ post'[p].turn = post[p].turn
      /\ post'[p].alone = post[p].alone
  <2> HIDE DEF t
  <2>1. /\ \A q \in Posts \ {p} : post'[q] = post[q] /\ post'[q] \in Post
        /\ post'[p] = Replied(post[p], "done", t) \/ post'[p] = Thrown(post[p], "done", t)
        /\ DOMAIN post' = Posts /\ post' = [q \in Posts |-> post'[q]]
    BY <1>1 DEF Replied, Thrown
  <2> QED BY <1>1, <2>1, PostReplied, PostThrown
<1>3. Handles(p) /\ Active(p)
  BY <1>1, <1>2 DEF Handles, Active
<1>4. PostsGrow /\ SameTurns /\ MapIsGenuine'
  BY <1>1, <1>3, HandlesStays, MapStays
<1>6. post'[p].alone => Undisturbed(p)'
  <2> SUFFICES ASSUME post[p].alone PROVE Undisturbed(p)'
    BY <1>2
  <2>1. Undisturbed(p) /\ post[p].turn > 0 /\ \A q \in Posts \ {p} : ~Active(q) /\ ~Active(q)'
    BY <1>2, <1>3 DEF InvInv, LoneUndisturbed, Undisturbed, Active, TurnsCounted
  <2>2. ~Active(p)' /\ post'[p].pc = "done"
    BY <1>2 DEF Active
  <2>3. post'[p].status = 200 => Kept(p)'
    BY <1>1, <1>2, <1>4, <2>1, KeptStays DEF Undisturbed
  <2> QED BY <2>1, <2>2, <2>3 DEF Undisturbed, HasRead
<1>8. \A q \in Posts : post[q].pc \in {"none", "lost", "sent"} => ~post'[q].raced
  BY <1>1, <1>2 DEF InvInv, TurnsCounted
<1> QED
  BY <1>1, <1>2, <1>3, <1>4, <1>6, <1>8, OwnStays, KeptStays, HandlerStep DEF Undisturbed, InvInv,
     TurnsCounted, HasRead

LEMMA InsertBeginStep ==
    ASSUME InvInv, NEW p \in Posts, InsertBegin(p)
    PROVE  InvInv'
<1> DEFINE race == In("inserting") # {}
<1>1. /\ post[p].pc = "insert" /\ post \in [Posts -> Post]
      /\ UNCHANGED <<buffer, map, agent, get, page>>
      /\ server' \in {"up", "dead"} /\ map \in [Names -> AnyReport]
      /\ race \in BOOLEAN /\ "inserting" \in PostPC
      /\ post' = [q \in Posts |->
                    IF q = p THEN [post[p] EXCEPT !.pc = "inserting", !.raced = race]
                    ELSE [post[q] EXCEPT !.raced = @ \/ post[q].pc = "inserting"]]
  BY DEF InsertBegin, Step, AfterRace, InvInv, TypeOK, PostPC
<1>2. /\ post'[p] \in Post /\ post'[p].pc = "inserting" /\ post'[p].status = post[p].status
      /\ post'[p].report = post[p].report /\ post'[p].turn = post[p].turn
      /\ post'[p].alone = post[p].alone /\ post'[p].own = post[p].own
      /\ (post'[p].raced => race)
  <2>1. /\ post[p] \in Post /\ post'[p] = Inserting(post[p], "inserting", race)
        /\ race \in BOOLEAN /\ "inserting" \in PostPC
    BY <1>1 DEF Inserting
  <2> HIDE DEF race
  <2> QED BY <2>1, PostInserting
<1>3. ASSUME NEW q \in Posts \ {p}
      PROVE  /\ post'[q] \in Post /\ post'[q].pc = post[q].pc /\ post'[q].status = post[q].status
             /\ post'[q].report = post[q].report /\ post'[q].turn = post[q].turn
             /\ post'[q].alone = post[q].alone /\ post'[q].own = post[q].own
             /\ post'[q].raced => post[q].raced \/ post[q].pc = "inserting"
  <2> DEFINE b == post[q].pc = "inserting"
  <2>1. post[q] \in Post /\ post'[q] = Racing(post[q], b) /\ b \in BOOLEAN
    BY <1>1 DEF Racing
  <2> HIDE DEF b
  <2>2. post'[q].raced => post[q].raced \/ b
    BY <2>1, PostRaced
  <2>3. /\ post'[q] \in Post /\ post'[q].pc = post[q].pc /\ post'[q].status = post[q].status
        /\ post'[q].report = post[q].report /\ post'[q].turn = post[q].turn
        /\ post'[q].alone = post[q].alone /\ post'[q].own = post[q].own
    BY <2>1, PostRaced
  <2> QED BY <2>2, <2>3 DEF b
<1>4. post' \in [Posts -> Post]
  BY <1>1, <1>2, <1>3
<1>5. Handles(p) /\ Active(p)
  BY <1>1, <1>2, <1>3 DEF Handles, Active
<1>6. PostsGrow /\ SameTurns /\ MapIsGenuine'
  BY <1>1, <1>5, HandlesStays, MapStays
<1>7. OwnIsLater'
  BY <1>1, <1>2, <1>3, <1>6, OwnStays DEF HasRead
<1>8. post'[p].alone => Undisturbed(p)'
  <2> SUFFICES ASSUME post[p].alone PROVE Undisturbed(p)'
    BY <1>2
  <2>1. Undisturbed(p) /\ \A q \in Posts \ {p} : ~Active(q) /\ ~Active(q)'
    BY <1>3, <1>5 DEF InvInv, LoneUndisturbed, Undisturbed, Active
  <2>2. ~race
    BY <1>1, <2>1 DEF In, Active
  <2>3. post[p].status # 200
    BY <1>1 DEF InvInv, TurnsCounted
  <2> QED BY <1>1, <1>2, <1>5, <2>1, <2>2, <2>3 DEF Undisturbed, HasRead
<1>10. post'[p].pc \in HasRead /\ (post'[p].status = 200 => post'[p].pc = "done")
  BY <1>1, <1>2 DEF InvInv, TurnsCounted, HasRead
<1>11. ASSUME NEW q \in Posts, post[q].pc \in {"none", "lost", "sent"} PROVE ~post'[q].raced
  BY <1>1, <1>3, <1>11 DEF InvInv, TurnsCounted
<1> QED
  BY <1>1, <1>4, <1>5, <1>6, <1>7, <1>8, <1>10, <1>11, KeptStays, HandlerStep DEF Undisturbed,
     InvInv, TurnsCounted

\* The report is stored, in place of an earlier one.
LEMMA InsertEndStep ==
    ASSUME InvInv, NEW p \in Posts, InsertEnd(p)
    PROVE  InvInv'
<1>0. PICK r : r = post[p].own
  OBVIOUS
<1>1. /\ post[p].pc = "inserting" /\ post \in [Posts -> Post]
      /\ UNCHANGED <<server, buffer, agent, get, page>>
      /\ server \in {"up", "dead"} /\ map \in [Names -> AnyReport]
      /\ "reply" \in PostPC
      /\ post' = [post EXCEPT ![p].pc = "reply", ![p].own = Empty, ![p].raced = FALSE]
      /\ map' = [map EXCEPT ![r.name] = r] \/ (post[p].raced /\ map' = map)
  <2>1. post[p].pc = "inserting"
    BY DEF InsertEnd, Step
  <2>3. UNCHANGED <<server, buffer, agent, get, page>>
    BY DEF InsertEnd
  <2>4. post' = [post EXCEPT ![p].pc = "reply", ![p].own = Empty, ![p].raced = FALSE]
    <3>1. AfterInsert(p)
      BY DEF InsertEnd
    <3> QED BY <3>1, Zenon DEF AfterInsert
  <2>5. /\ post \in [Posts -> Post] /\ server \in {"up", "dead"} /\ map \in [Names -> AnyReport]
        /\ "reply" \in PostPC
    BY DEF InvInv, TypeOK, PostPC
  <2>2. map' = [map EXCEPT ![r.name] = r] \/ (post[p].raced /\ map' = map)
    BY <1>0 DEF InsertEnd, Stored
  <2> QED BY <2>1, <2>2, <2>3, <2>4, <2>5
<1>2. /\ \A q \in Posts \ {p} : post'[q] = post[q]
      /\ post' \in [Posts -> Post] /\ post'[p].pc = "reply" /\ post'[p].status = post[p].status
      /\ post'[p].report = post[p].report /\ post'[p].turn = post[p].turn
      /\ post'[p].alone = post[p].alone /\ ~post'[p].raced
  <2>1. /\ \A q \in Posts \ {p} : post'[q] = post[q] /\ post'[q] \in Post
        /\ post'[p] = Left(post[p], "reply") /\ post[p] \in Post
        /\ DOMAIN post' = Posts /\ post' = [q \in Posts |-> post'[q]]
    BY <1>1 DEF Left
  <2>2. /\ post'[p] \in Post /\ post'[p].pc = "reply" /\ post'[p].status = post[p].status
        /\ post'[p].report = post[p].report /\ post'[p].turn = post[p].turn
        /\ post'[p].alone = post[p].alone /\ ~post'[p].raced
    BY <1>1, <2>1, PostLeft
  <2>3. \A q \in Posts : post'[q] \in Post
    BY <2>1, <2>2
  <2> QED BY <2>1, <2>2, <2>3
<1>3. Handles(p) /\ Active(p)
  BY <1>1, <1>2 DEF Handles, Active
<1>4. PostsGrow /\ SameTurns
  BY <1>3, HandlesStays
<1>5. \A s \in Report : Genuine(s) => Genuine(s)' /\ Turn(s)' = Turn(s)
  BY <1>4, GenuineStays
<1>6. /\ Genuine(r) /\ NotBeforeLone(r) /\ r \in Report /\ r # Empty
      /\ r.name \in Names /\ r.by \in Posts
  BY <1>0, <1>1, ReportNotEmpty DEF InvInv, OwnIsLater, HasRead, Genuine, Report
<1>8. MapIsGenuine'
  <2> SUFFICES ASSUME NEW n \in Names, map'[n] # Empty
               PROVE  map'[n].name = n /\ Genuine(map[n])'
    BY DEF MapIsGenuine
  <2>1. CASE map'[n] = map[n]
    BY <1>5, <2>1 DEF Genuine, Turn, InvInv, MapIsGenuine
  <2>2. CASE map'[n] # map[n]
    BY <1>1, <1>5, <1>6, <2>2 DEF Genuine, Turn
  <2> QED BY <2>1, <2>2
<1>9. OwnIsLater'
  BY <1>1, <1>2, <1>4, OwnStays DEF HasRead
<1>7. \A q \in Posts : post[q].alone => Turn(r)' >= post[q].turn
  BY <1>5, <1>6 DEF NotBeforeLone
<1>10. post'[p].alone => Undisturbed(p)'
  <2> SUFFICES ASSUME post[p].alone PROVE Undisturbed(p)'
    BY <1>2
  <2>1. /\ Undisturbed(p) /\ ~post[p].raced /\ r = post[p].report /\ buffer = post[p].report
        /\ \A q \in Posts \ {p} : ~Active(q) /\ ~Active(q)'
    BY <1>0, <1>1, <1>2, <1>3 DEF InvInv, LoneUndisturbed, Undisturbed, Active, HasRead
  <2>2. map' = [map EXCEPT ![r.name] = r] /\ post'[p].report = r
    BY <1>1, <1>2, <2>1
  <2>3. Kept(p)'
    BY <1>1, <1>2, <1>6, <1>7, <2>2 DEF Kept, Turn
  <2> QED BY <1>1, <1>2, <2>1, <2>3 DEF Undisturbed, HasRead
<1>11. ASSUME NEW q \in Posts \ {p}, post'[q].alone, Undisturbed(q), post[q].status = 200
       PROVE  Kept(q)'
  <2>1. Kept(q) /\ post[q].turn > 0 /\ post[q].alone
    BY <1>1, <1>2, <1>11 DEF Undisturbed, InvInv, TurnsCounted
  <2>2. post[q].report.name \in Names /\ post'[q] = post[q]
    BY <1>2, <2>1 DEF InvInv, TurnsCounted, Numbered, Report
  <2>3. CASE map'[post[q].report.name] = map[post[q].report.name]
    BY <1>5, <2>1, <2>2, <2>3 DEF Kept, Turn, InvInv, MapIsGenuine, Genuine
  <2>4. CASE map'[post[q].report.name] # map[post[q].report.name]
    <3>1. map'[post[q].report.name] = r
      BY <1>1, <1>6, <2>2, <2>4
    <3> QED BY <1>6, <1>7, <2>1, <2>2, <3>1 DEF Kept, Turn
  <2> QED BY <2>3, <2>4
<1> QED
  BY <1>1, <1>2, <1>3, <1>6, <1>8, <1>9, <1>10, <1>11, HandlerStep DEF InvInv, TurnsCounted,
     HasRead, AnyReport

-----------------------------------------------------------------------------
(* The steps of the agents.                                                   *)

LEMMA AgentOnlyStep ==
    ASSUME InvInv, NEW a \in Agents, Click(a) \/ PostAnswered(a) \/ PostThrows(a)
    PROVE  InvInv'
<1>1. UNCHANGED <<server, buffer, map, post, get, page>> /\ agent \in [Agents -> Agent]
  BY DEF Click, PostAnswered, PostThrows, InvInv, TypeOK
<1>2. /\ agent' \in [Agents -> Agent] /\ \A b \in Agents \ {a} : agent'[b] = agent[b]
      /\ agent'[a].at <= Len(Script[a])
      /\ agent'[a].pc # "idle" => agent'[a].at \in 1..Len(Script[a])
  <2>1. Script[a] \in Seq(Names) /\ Len(Script[a]) \in Nat
    BY InventoryAssumption
  <2>3. CASE Click(a)
    BY <1>1, <2>1, <2>3, EmptySeq DEF Click, Agent
  <2>4. CASE PostAnswered(a)
    <3>2. agent'[a].at \in Nat /\ agent'[a].at <= Len(Script[a]) /\ agent'[a] \in Agent
      <4>1. CASE agent'[a] = [pc |-> "idle", at |-> 0]
        BY <2>1, <4>1 DEF Agent
      <4>2. CASE agent[a].at # Len(Script[a]) /\ agent'[a] = [pc |-> "ready", at |-> agent[a].at + 1]
        BY <1>1, <2>1, <4>2 DEF Agent, InvInv, TypeOK
      <4> QED BY <1>1, <2>4, <4>1, <4>2 DEF PostAnswered
    <3> QED BY <1>1, <2>1, <2>4, <3>2 DEF PostAnswered, InvInv, TypeOK, Agent
  <2>5. CASE PostThrows(a)
    BY <1>1, <2>1, <2>5 DEF PostThrows, Agent
  <2> QED BY <2>3, <2>4, <2>5
<1>3. TypeOK'
  BY <1>1, <1>2 DEF InvInv, TypeOK
<1>4. Numbered'
  BY <1>1, <1>2 DEF InvInv, Numbered, SentOf, Posted
<1>7. LoneUndisturbed'
  BY <1>1 DEF InvInv, LoneUndisturbed, Undisturbed, Active, Kept, Turn
<1>8. MapIsGenuine' /\ PageInOrder'
  BY <1>1, MapStays, PageStays DEF PostsGrow
<1> QED
  BY <1>1, <1>3, <1>4, <1>7, <1>8 DEF InvInv, TurnsCounted, Turned, Turns, Active, BufferIsLast,
     OwnIsLater, NotBeforeLone, Genuine, Turn


LEMMA SendPostStep ==
    ASSUME InvInv, NEW a \in Agents, NEW arrives \in BOOLEAN, SendPost(a, arrives)
    PROVE  InvInv'
<1> DEFINE k == Posted(a)
           p == <<a, k + 1>>
           r == [name |-> Script[a][agent[a].at], by |-> p, whole |-> TRUE]
           c == IF arrives THEN "sent" ELSE "lost"
<1>1. /\ UNCHANGED <<server, buffer, map, get, page>> /\ post \in [Posts -> Post]
      /\ agent \in [Agents -> Agent] /\ agent[a].pc = "ready"
      /\ agent' = [agent EXCEPT ![a].pc = "waiting"]
      /\ post' = [post EXCEPT ![p].pc = c, ![p].report = r]
      /\ server \in {"up", "dead"} /\ buffer \in AnyReport /\ map \in [Names -> AnyReport]
      /\ get \in [Gets -> Get] /\ page \in Page
      /\ \A b \in Agents : agent[b].at <= Len(Script[b])
  BY DEF SendPost, InvInv, TypeOK
<1>3. k \in Nat /\ SentOf(a) = 1..k /\ c \in PostPC /\ c \in {"sent", "lost"}
  BY DEF InvInv, Numbered, PostPC
<1>4. \A b \in Agents : agent'[b].pc # "idle" => agent'[b].at \in 1..Len(Script[b])
  BY <1>1 DEF InvInv, Numbered, Agent
<1>6. Script[a][agent[a].at] \in Names
  BY <1>1, InventoryAssumption, ElementOfSeq DEF InvInv, Numbered
<1>7. CASE p \notin Posts
  <2>1. post' = post /\ buffer' = buffer /\ map' = map
    BY <1>1, <1>7
  <2>2. TypeOK'
    BY <1>1, <2>1 DEF TypeOK, Agent
  <2>3. Numbered'
    BY <1>4, <2>1 DEF InvInv, Numbered, SentOf, Posted
  <2>6. LoneUndisturbed'
    BY <2>1 DEF InvInv, LoneUndisturbed, Undisturbed, Active, Kept, Turn
  <2>7. MapIsGenuine' /\ PageInOrder'
    BY <1>1, <2>1, MapStays, PageStays DEF PostsGrow
  <2> QED
    BY <2>1, <2>2, <2>3, <2>6, <2>7 DEF InvInv, TurnsCounted, Turned, Turns, Active, BufferIsLast,
       OwnIsLater, NotBeforeLone, Genuine, Turn
<1>8. CASE p \in Posts
  <2>1. k + 1 \in 1..MaxPosts[a] /\ r \in Report /\ r \in AnyReport /\ r.by = p /\ r.whole
    BY <1>3, <1>6, <1>8, InventoryAssumption DEF Report, AnyReport, Posts
  <2>2. post[p].pc = "none" /\ post[p].turn = 0 /\ post[p].status # 200
    BY <1>3, <1>8, <2>1 DEF SentOf, InvInv, TurnsCounted
  <2>3. /\ \A q \in Posts \ {p} : post'[q] = post[q]
        /\ post' \in [Posts -> Post] /\ post'[p].pc = c /\ post'[p].report = r
        /\ post'[p].turn = 0 /\ post'[p].status # 200 /\ post'[p].raced = post[p].raced
        /\ post'[p].alone = post[p].alone
    <3> HIDE DEF p, r, c
    <3>1. /\ \A q \in Posts \ {p} : post'[q] = post[q] /\ post'[q] \in Post
          /\ post'[p] = SentAs(post[p], c, r) /\ post[p] \in Post
          /\ DOMAIN post' = Posts /\ post' = [q \in Posts |-> post'[q]]
      BY <1>1, <1>8 DEF SentAs
    <3> QED BY <1>3, <2>1, <2>2, <3>1, PostSent
  <2>4. TypeOK'
    BY <1>1, <2>3 DEF TypeOK, Agent
  <2>5. PostsGrow /\ SameTurns
    BY <2>2, <2>3 DEF PostsGrow, SameTurns
  <2>6. ASSUME NEW b \in Agents PROVE Posted(b)' \in Nat /\ SentOf(b)' = 1..Posted(b)'
    <3>1. \A n \in 1..MaxPosts[b] : <<b, n>> \in Posts
      BY InventoryAssumption DEF Posts
    <3>2. CASE b = a
      <4>2. SentOf(a)' = 1..(k + 1)
        BY <1>3, <2>1, <2>3, <3>1, <3>2 DEF SentOf
      <4>3. Posted(a)' = k + 1
        <5> HIDE DEF k
        <5>1. Cardinality(1..(k + 1)) = k + 1
          BY <1>3, FS_Interval
        <5> QED BY <4>2, <5>1 DEF SentOf, Posted
      <4> QED BY <1>3, <3>2, <4>2, <4>3
    <3>3. CASE b # a
      <4>2. \A n \in 1..MaxPosts[b] : post'[<<b, n>>] = post[<<b, n>>]
        BY <2>3, <3>1, <3>3
      <4> QED BY <4>2 DEF InvInv, Numbered, SentOf, Posted
    <3> QED BY <3>2, <3>3
  <2>7. Numbered'
    <3>1. ASSUME NEW q \in Posts, post'[q].pc # "none"
          PROVE  post'[q].report \in Report /\ post'[q].report.by = q /\ post'[q].report.whole
      <4>1. CASE q = p
        BY <2>1, <2>3, <4>1
      <4>2. CASE q # p
        BY <2>3, <3>1, <4>2 DEF InvInv, Numbered
      <4> QED BY <4>1, <4>2
    <3> QED BY <1>4, <2>6, <3>1 DEF Numbered
  <2>8. Turned' = Turned /\ Turns' = Turns
    <3>1. \A q \in Posts : post'[q].turn = post[q].turn
      BY <2>2, <2>3
    <3> QED BY <3>1 DEF Turned, Turns
  <2>9. \A q \in Posts : /\ Active(q)' <=> Active(q)
                         /\ post'[q].pc \in HasRead <=> post[q].pc \in HasRead
                         /\ post'[q].pc = "done" <=> post[q].pc = "done"
    BY <1>3, <2>2, <2>3 DEF Active, HasRead
  <2>10. TurnsCounted'
    <3>1. ASSUME NEW q \in Posts
          PROVE  /\ post'[q].turn <= Turns'
                 /\ post'[q].pc \in {"none", "lost", "sent"} => post'[q].turn = 0 /\ ~post'[q].raced
                 /\ (Active(q) \/ post[q].status = 200)' => post'[q].turn > 0
                 /\ post'[q].status = 200 => post'[q].pc = "done"
      <4>1. CASE q = p
        <5> HIDE DEF p, c, r
        <5> QED BY <2>2, <2>3, <2>8, <2>9, <4>1 DEF Active, InvInv, TurnsCounted
      <4>2. CASE q # p
        BY <2>3, <2>8, <4>2 DEF InvInv, TurnsCounted, Active
      <4> QED BY <4>1, <4>2
    <3> QED BY <2>8, <3>1 DEF InvInv, TurnsCounted
  <2>11. BufferIsLast' /\ MapIsGenuine' /\ PageInOrder'
    BY <1>1, <2>5, <2>8, BufferStays, MapStays, PageStays
  <2>12. OwnIsLater'
    BY <2>2, <2>3, <2>5, <2>9, OwnStays DEF HasRead
  <2>13. ASSUME NEW q \in Posts, post'[q].alone PROVE Undisturbed(q)'
    <3>1. CASE q = p
      <4> HIDE DEF p, c, r
      <4> QED BY <1>3, <2>3, <3>1 DEF Undisturbed, Active, HasRead
    <3>2. CASE q # p
      <4>1. post'[q] = post[q] /\ Undisturbed(q)
        BY <2>3, <2>13, <3>2 DEF InvInv, LoneUndisturbed
      <4>2. Kept(q) /\ (post[q].pc = "reply" \/ post[q].status = 200) => Kept(q)'
        BY <1>1, <2>5, KeptStays DEF InvInv, TurnsCounted, Active
      <4>3. \A s \in Posts : Active(s)' => Active(s) /\ post'[s].turn = post[s].turn
        BY <2>2, <2>3, <2>9 DEF Active
      <4> QED BY <1>1, <2>9, <4>1, <4>2, <4>3 DEF Undisturbed
    <3> QED BY <3>1, <3>2
  <2> QED BY <2>4, <2>7, <2>10, <2>11, <2>12, <2>13 DEF InvInv, LoneUndisturbed
<1> QED BY <1>7, <1>8

-----------------------------------------------------------------------------
(* The steps of the page.                                                     *)

AskedFor(n) == [NoGet(n) EXCEPT !.pc = "sent"]
Listing(x, s) == [x EXCEPT !.pc = "answered", !.list = s]
Reporting(x, r) == [x EXCEPT !.pc = "answered", !.report = r]

LEMMA GetRecords ==
    ASSUME NEW n \in Names \cup {"all"}
    PROVE  /\ NoGet(n) \in Get /\ NoGet(n).pc = "none" /\ NoGet(n).report = Empty
           /\ AskedFor(n) \in Get /\ AskedFor(n).pc = "sent" /\ AskedFor(n).name = n
           /\ AskedFor(n).report = Empty
  BY DEF NoGet, AskedFor, Get, AnyReport

LEMMA GetAnswered ==
    ASSUME NEW x \in Get, NEW s \in SUBSET Names, NEW r \in AnyReport
    PROVE  /\ Listing(x, s) \in Get /\ Listing(x, s).pc = "answered"
           /\ Listing(x, s).name = x.name /\ Listing(x, s).report = x.report
           /\ Reporting(x, r) \in Get /\ Reporting(x, r).pc = "answered"
           /\ Reporting(x, r).name = x.name /\ Reporting(x, r).report = r
  BY DEF Get, Listing, Reporting

\* The page, as it shows and asks for something else.
ListShown(x, s) == [x EXCEPT !.listed = s, !.table = Empty]
Unlisted(x) == [x EXCEPT !.listed = {}]
Tabled(x, r) == [x EXCEPT !.table = r]
Selecting(x, n, b) == [x EXCEPT !.selected = n, !.table = Empty, !.orderly = @ /\ b]

LEMMA PageRecords ==
    ASSUME NEW x \in Page, NEW s \in SUBSET Names, NEW r \in AnyReport, NEW n \in Names,
           NEW b \in BOOLEAN
    PROVE  /\ ListShown(x, s) \in Page /\ ListShown(x, s).table = Empty
           /\ ListShown(x, s).selected = x.selected /\ ListShown(x, s).orderly = x.orderly
           /\ Unlisted(x) \in Page /\ Unlisted(x).table = x.table
           /\ Unlisted(x).selected = x.selected /\ Unlisted(x).orderly = x.orderly
           /\ Tabled(x, r) \in Page /\ Tabled(x, r).table = r
           /\ Tabled(x, r).selected = x.selected /\ Tabled(x, r).orderly = x.orderly
           /\ Selecting(x, n, b) \in Page /\ Selecting(x, n, b).table = Empty
           /\ Selecting(x, n, b).selected = n /\ (Selecting(x, n, b).orderly => x.orderly /\ b)
  BY DEF Page, ListShown, Unlisted, Tabled, Selecting, AnyReport

LEMMA PageOnlyStep ==
    ASSUME InvInv, UNCHANGED <<buffer, map, post, agent>>, server' \in {"up", "dead"},
           get' \in [Gets -> Get], page' \in Page,
           \A g \in Gets : get'[g].report # Empty =>
                Genuine(get'[g].report) /\ get'[g].report.name = get'[g].name,
           page'.table # Empty => Genuine(page'.table),
           page'.orderly =>
               /\ page'.table # Empty => page'.table.name = page'.selected
               /\ \A g \in Gets : get'[g].pc # "none" =>
                    /\ get'[g].name \in {"all", page'.selected}
                    /\ \A h \in Gets \ {g} : get'[h].pc = "none"
    PROVE  InvInv'
<1>1. TypeOK'
  BY DEF InvInv, TypeOK
<1>2. post' = post /\ buffer' = buffer /\ map' = map /\ agent' = agent
  OBVIOUS
<1>3. Numbered'
  BY <1>2 DEF InvInv, Numbered, SentOf, Posted
<1>5. LoneUndisturbed'
  BY <1>2 DEF InvInv, LoneUndisturbed, Undisturbed, Active, Kept, Turn
<1>6. MapIsGenuine'
  BY <1>2 DEF InvInv, MapIsGenuine, Genuine, Turn
<1>7. PageInOrder'
  BY <1>2 DEF PageInOrder, Genuine, Turn, Answered
<1> QED
  BY <1>1, <1>2, <1>3, <1>5, <1>6, <1>7 DEF InvInv, TurnsCounted, Turned, Turns, Active,
     BufferIsLast, OwnIsLater, NotBeforeLone, Genuine, Turn

LEMMA LoadPageStep ==
    ASSUME InvInv, NEW g \in Gets, LoadPage(g)
    PROVE  InvInv'
  BY GetRecords, PageOnlyStep DEF NewPage, Page, AnyReport, LoadPage, InvInv, TypeOK, AskedFor

LEMMA SelectStep ==
    ASSUME InvInv, NEW g \in Gets, NEW n \in Names, Select(g, n)
    PROVE  InvInv'
<1> DEFINE b == Unasked
<1>1. /\ UNCHANGED <<buffer, map, post, agent>> /\ server' \in {"up", "dead"}
      /\ page' = Selecting(page, n, b) /\ b \in BOOLEAN
      /\ get' = [get EXCEPT ![g] = AskedFor(n)]
      /\ get \in [Gets -> Get] /\ page \in Page
  BY DEF Select, Ask, InvInv, TypeOK, AskedFor, Selecting, Unasked
<1>2. b => \A h \in Gets : get[h].pc = "none"
  BY DEF Unasked
<1> HIDE DEF b
<1>3. /\ page' \in Page /\ page'.table = Empty /\ page'.selected = n
      /\ page'.orderly => b
  BY <1>1, PageRecords DEF Selecting, Page, AnyReport
<1> QED BY <1>1, <1>2, <1>3, GetRecords, PageOnlyStep DEF InvInv, PageInOrder, Answered

\* What is asked of the map is there, or nothing is.
LEMMA ServeGetStep ==
    ASSUME InvInv, NEW g \in Gets, ServeGet(g)
    PROVE  InvInv'
<1> DEFINE n == get[g].name
           s == {m \in Names : map[m] # Empty}
<1>1. /\ UNCHANGED <<buffer, map, post, agent, page>> /\ server' \in {"up", "dead"}
      /\ get \in [Gets -> Get] /\ page \in Page /\ map \in [Names -> AnyReport]
      /\ get[g].pc = "sent" /\ get[g] \in Get /\ n \in Names \cup {"all"} /\ s \in SUBSET Names
      /\ \A h \in Gets \ {g} : get'[h] = get[h] /\ get'[h] \in Get
      /\ DOMAIN get' = Gets /\ get' = [h \in Gets |-> get'[h]]
      /\ get'[g] = IF n = "all" THEN Listing(get[g], s) ELSE Reporting(get[g], map[n])
  BY DEF ServeGet, AfterRace, InvInv, TypeOK, Listing, Reporting, Get
<1>2. /\ get'[g] \in Get /\ get'[g].name = n
      /\ get'[g].report # Empty =>
            get'[g].report = get[g].report \/ (n \in Names /\ get'[g].report = map[n])
  <2>1. CASE n = "all"
    <3> HIDE DEF s
    <3> QED BY <1>1, <2>1, GetAnswered DEF AnyReport
  <2>2. CASE n # "all"
    BY <1>1, <2>2, GetAnswered
  <2> QED BY <2>1, <2>2
<1>6. ASSUME page'.orderly
      PROVE  /\ page'.table # Empty => page'.table.name = page'.selected
             /\ \A h \in Gets : get'[h].pc # "none" =>
                  /\ get'[h].name \in {"all", page'.selected}
                  /\ \A j \in Gets \ {h} : get'[j].pc = "none"
  BY <1>1, <1>2, <1>6 DEF InvInv, PageInOrder
<1> QED BY <1>1, <1>2, <1>6, PageOnlyStep DEF InvInv, PageInOrder, Answered, MapIsGenuine

\* The answer, or the error, ends the request; the table shows what it was for.
LEMMA EndOfGetStep ==
    ASSUME InvInv, NEW g \in Gets, ShowAnswer(g) \/ GetFails(g)
    PROVE  InvInv'
<1>1. /\ UNCHANGED <<server, buffer, map, post, agent>> /\ server \in {"up", "dead"}
      /\ get \in [Gets -> Get] /\ page \in Page /\ get[g].pc # "none"
      /\ get' = [get EXCEPT ![g] = NoGet("all")]
      /\ get[g] \in Get /\ get[g].list \in SUBSET Names /\ get[g].report \in AnyReport
  BY DEF ShowAnswer, GetFails, InvInv, TypeOK, Get
<1>2. /\ page' \in Page /\ page'.selected = page.selected /\ (page'.orderly => page.orderly)
      /\ page'.table # Empty =>
            page'.table = page.table \/ (get[g].name # "all" /\ page'.table = get[g].report)
  <2>1. Empty \in AnyReport /\ {} \in SUBSET Names
    BY DEF AnyReport
  <2>3. CASE page' = ListShown(page, get[g].list)
    BY <1>1, <2>1, <2>3 DEF ListShown, Page
  <2>4. CASE page' = Unlisted(page)
    BY <1>1, <2>1, <2>4 DEF Unlisted, Page
  <2>5. CASE get[g].name # "all" /\ page' = Tabled(page, get[g].report)
    BY <1>1, <2>1, <2>5 DEF Tabled, Page
  <2>6. CASE page' = Tabled(page, Empty)
    BY <1>1, <2>1, <2>6 DEF Tabled, Page
  <2> QED BY <2>3, <2>4, <2>5, <2>6 DEF ShowAnswer, GetFails, ListShown, Unlisted, Tabled
<1>6. ASSUME page'.orderly
      PROVE  /\ page'.table # Empty => page'.table.name = page'.selected
             /\ \A h \in Gets : get'[h].pc = "none"
  BY <1>1, <1>2, <1>6, GetRecords DEF InvInv, PageInOrder, Answered
<1> QED BY <1>1, <1>2, <1>6, GetRecords, PageOnlyStep DEF InvInv, PageInOrder, Answered

-----------------------------------------------------------------------------
(* The invariant, and what follows from it.                                   *)

LEMMA InitInv ==
    ASSUME Init
    PROVE  InvInv
<1>1. /\ server = "up" /\ buffer = Empty /\ map = [n \in Names |-> Empty]
      /\ post = [p \in Posts |-> NoPost]
      /\ agent = [a \in Agents |-> [pc |-> "idle", at |-> 0]]
      /\ get = [g \in Gets |-> NoGet("all")] /\ page = NewPage
  BY DEF Init
<1>2. /\ NoPost \in Post /\ NoPost.pc = "none" /\ NoPost.turn = 0 /\ NoPost.status = 0
      /\ ~NoPost.raced
  BY DEF NoPost, Post, AnyReport
<1>4. TypeOK
  BY <1>1, <1>2, GetRecords, InventoryAssumption DEF TypeOK, AnyReport, Agent, NewPage, Page
<1>5. ASSUME NEW a \in Agents PROVE Posted(a) \in Nat /\ SentOf(a) = 1..Posted(a)
  <2>2. SentOf(a) = {}
    BY <1>1, <1>2 DEF SentOf, Posts
  <2>3. Posted(a) = 0
    BY <2>2, FS_EmptySet DEF SentOf, Posted
  <2> QED BY <2>2, <2>3
<1>7. Turned = {} /\ IsFiniteSet(Turned) /\ Turns = 0
  <2>1. Turned = {}
    BY <1>1, <1>2 DEF Turned
  <2> QED BY <2>1, FS_EmptySet DEF Turned, Turns
<1>10. MapIsGenuine /\ PageInOrder
  BY <1>1, GetRecords DEF MapIsGenuine, PageInOrder, Answered, NewPage, Page, AnyReport
<1> QED
  BY <1>1, <1>2, <1>4, <1>5, <1>7, <1>10 DEF InvInv, TurnsCounted, Active, BufferIsLast,
     OwnIsLater, HasRead, LoneUndisturbed, Undisturbed, Numbered

LEMMA NextInv ==
    ASSUME InvInv, [Next]_vars
    PROVE  InvInv'
<1>1. CASE UNCHANGED vars
  BY <1>1 DEF vars, InvInv, TypeOK, Numbered, SentOf, Posted, TurnsCounted, Turned, Turns, Active,
     BufferIsLast, OwnIsLater, NotBeforeLone, Genuine, Turn, LoneUndisturbed, Undisturbed, Kept, MapIsGenuine,
     PageInOrder, Answered
<1>2. ASSUME NEW a \in Agents, Click(a) \/ AgentStep(a) PROVE InvInv'
  BY <1>2, AgentOnlyStep, SendPostStep DEF AgentStep
<1>3. ASSUME NEW p \in Posts, PostHandler(p) PROVE InvInv'
  BY <1>3, ExtractFailsStep, AssignStep, ParseStep, EndsStep, InsertBeginStep, InsertEndStep DEF
     PostHandler
<1>4. ASSUME NEW g \in Gets, LoadPage(g) \/ ServeGet(g) \/ ShowAnswer(g) \/ GetFails(g)
      PROVE  InvInv'
  BY <1>4, LoadPageStep, ServeGetStep, EndOfGetStep
<1>5. ASSUME NEW g \in Gets, NEW n \in Names, Select(g, n) PROVE InvInv'
  BY <1>5, SelectStep
<1> QED BY <1>1, <1>2, <1>3, <1>4, <1>5 DEF Next

\* What the agents, the handlers' threads and the page have done and are about
\* to do fits together, in every state: the invariant from which the rest follows.
THEOREM InventoryInvariant == Spec => []InvInv
<1>1. Init => InvInv
  BY InitInv
<1>2. InvInv /\ [Next]_vars => InvInv'
  BY NextInv
<1> QED BY <1>1, <1>2, PTL DEF Spec

\* Whatever the agents, the handlers' threads and the page do, and however they
\* interleave, every variable keeps its type and an agent stays in its script.
THEOREM InventoryTypes == Spec => []TypeOK
<1>1. InvInv => TypeOK
  BY DEF InvInv
<1> QED BY <1>1, InventoryInvariant, PTL

\* For every set of computers and every number of posts, and whatever the text of
\* json_buffer becomes when its handlers race: what the server stores under a name
\* is a report that was posted under that name, or a mixture for which handlers
\* that overlapped answer; and a post that no other overlapped is not lost, nor
\* replaced by an earlier report or by a mixture of them, once it was answered
\* with OK.
THEOREM StoredReportsAreSound == Spec => []ReportsSound
<1>1. InvInv => StoredIsGenuine
  <2> SUFFICES ASSUME InvInv, NEW n \in Names, map[n] # Empty
               PROVE  /\ map[n].name = n /\ Turn(map[n]) > 0
                      /\ \/ map[n] = post[map[n].by].report
                         \/ ~map[n].whole /\ ~post[map[n].by].alone
    BY DEF StoredIsGenuine
  <2> QED BY DEF InvInv, MapIsGenuine, Genuine
<1>2. InvInv => LonePostIsKept
  BY DEF InvInv, LoneUndisturbed, Undisturbed, LonePostIsKept
<1>3. InvInv => ReportsSound
  BY <1>1, <1>2 DEF ReportsSound
<1> QED BY <1>3, InventoryInvariant, PTL

\* The page never shows what no agent posted, and while the administrator waits
\* for each answer the table is that of the computer selected.
THEOREM TableIsOfTheSelection == Spec => []TableMatchesSelection
<1>1. InvInv => TableMatchesSelection
  BY DEF InvInv, PageInOrder, TableMatchesSelection, Genuine
<1> QED BY <1>1, InventoryInvariant, PTL

-----------------------------------------------------------------------------
(* The enumeration of the registry.                                           *)

Scanning == pc \in {"enum", "item"}

\* The buffer has the name of the key that the loop deals with, or that did not
\* open; the size of the buffer is then the length of that name.
Held == pc = "item" \/ cbName # BufferSize
NameHeld == Held => szSubKeyName \in Keys /\ cbName = NameLength[szSubKeyName]

\* A program that was there all along and can be listed is listed.
Listed(r, k) == k \in stayed[r] \cap Listable(r) => programList[k] # 0
ListedBefore(n) == \A p \in DOMAIN hive[i] : p < n => Listed(i, hive[i][p])

\* In a root that no key was removed from, the loop is past listed keys only.
HeldAt(n) == n > dwIndex /\ hive[i][n] = szSubKeyName /\ ListedBefore(n)
Scan ==
    IF Held THEN \E n \in DOMAIN hive[i] : HeldAt(n) ELSE ListedBefore(dwIndex + 1)
RetriedIsLocked == pc = "enum" /\ Held => szSubKeyName \in locked
ScanSound ==
    Scanning => readable[i] /\ (i \notin disturbed => Scan /\ RetriedIsLocked)

RootsRead == \A r \in Roots \ disturbed : r < i \/ pc = "done" => \A k \in Keys : Listed(r, k)

StayedThere == \A r \in Roots : stayed[r] \subseteq ToSet(hive[r])

\* While nobody has changed the registry, the list has what the loop is past.
Passed(r) ==
    IF r < i \/ pc = "done" THEN ToSet(hive[r])
    ELSE IF r = i /\ Scanning THEN {hive[r][n] : n \in 1..dwIndex} ELSE {}
PassedPrograms(r) == Passed(r) \cap Listable(r)
Unchanged ==
    /\ disturbed = {} /\ \A r \in Roots : stayed[r] = ToSet(hive[r])
    /\ Scanning => dwIndex <= Len(hive[i])
    /\ Scanning /\ Held => dwIndex < Len(hive[i]) /\ szSubKeyName = hive[i][dwIndex + 1]
    /\ \A k \in Keys :
        programList[k] = IF k \in PassedPrograms(2) THEN 2
                         ELSE IF k \in PassedPrograms(1) THEN 1 ELSE 0

EnumInv ==
    /\ EnumTypeOK
    /\ broken => Scanning /\ i \in disturbed
    /\ NameHeld /\ StayedThere /\ ScanSound /\ RootsRead
    /\ changes = 0 => Unchanged

-----------------------------------------------------------------------------
(* Lemmas about the subkeys of a root.                                        *)

\* A key inserted at a position moves those from there on by one.
LEMMA InsertedAt ==
    ASSUME NEW s \in Seq(Keys), NEW k \in Keys, NEW n \in 1..(Len(s) + 1)
    PROVE  /\ InsertAt(s, n, k) \in Seq(Keys)
           /\ Len(InsertAt(s, n, k)) = Len(s) + 1
           /\ \A p \in 1..(Len(s) + 1) :
                InsertAt(s, n, k)[p] = IF p < n THEN s[p] ELSE IF p = n THEN k ELSE s[p - 1]
<1> DEFINE a == SubSeq(s, 1, n - 1)
           b == a \o <<k>>
           c == SubSeq(s, n, Len(s))
<1>1. Len(s) \in Nat /\ n \in Int /\ \A p \in 1..Len(s) : s[p] \in Keys
  BY LenProperties
<1>2. a \in Seq(Keys) /\ Len(a) = n - 1 /\ \A p \in 1..(n - 1) : a[p] = s[p]
    <2>1. \A p \in 1..(n - 1) : s[p] \in Keys
    BY <1>1
    <2> QED BY <1>1, <2>1, SubSeqProperties
<1>3. b \in Seq(Keys) /\ Len(b) = n /\ \A p \in 1..n : b[p] = IF p < n THEN s[p] ELSE k
    <2>1. <<k>> \in Seq(Keys) /\ Len(<<k>>) = 1 /\ <<k>>[1] = k
    OBVIOUS
    <2> HIDE DEF a
    <2> QED BY <1>1, <1>2, <2>1, ConcatProperties
<1>4. c \in Seq(Keys) /\ Len(c) = Len(s) - n + 1 /\ \A p \in 1..(Len(s) - n + 1) : c[p] = s[n + p - 1]
    <2>1. \A p \in n..Len(s) : s[p] \in Keys
    BY <1>1
    <2> QED BY <1>1, <2>1, SubSeqProperties
<1>5. InsertAt(s, n, k) = b \o c
  BY DEF InsertAt
<1> HIDE DEF b, c
<1>6. /\ b \o c \in Seq(Keys) /\ Len(b \o c) = Len(s) + 1
      /\ \A p \in 1..(Len(s) + 1) : (b \o c)[p] = IF p <= n THEN b[p] ELSE c[p - n]
    <2>1. /\ b \o c \in Seq(Keys) /\ Len(b \o c) = Len(b) + Len(c)
          /\ \A p \in 1..(Len(b) + Len(c)) : (b \o c)[p] = IF p <= Len(b) THEN b[p] ELSE c[p - Len(b)]
    BY <1>3, <1>4, ConcatProperties
    <2>2. Len(b) = n /\ Len(b) + Len(c) = Len(s) + 1
    BY <1>1, <1>3, <1>4
    <2> QED BY <2>1, <2>2
<1>7. ASSUME NEW p \in 1..(Len(s) + 1)
      PROVE  (b \o c)[p] = IF p < n THEN s[p] ELSE IF p = n THEN k ELSE s[p - 1]
    <2>1. CASE p <= n
        <3>1. p \in 1..n /\ (b \o c)[p] = b[p]
        BY <1>1, <1>6, <2>1
        <3>2. b[p] = IF p < n THEN s[p] ELSE k
        BY <1>3, <3>1
        <3>3. ~(p < n) => p = n
        BY <1>1, <2>1
        <3> QED BY <3>1, <3>2, <3>3
    <2>2. CASE p > n
        <3>1. p - n \in 1..(Len(s) - n + 1) /\ n + (p - n) - 1 = p - 1
        BY <1>1, <2>2
        <3>2. (b \o c)[p] = c[p - n] /\ c[p - n] = s[p - 1]
        BY <1>1, <1>4, <1>6, <2>2, <3>1
        <3>3. ~(p < n) /\ p # n
        BY <1>1, <2>2
        <3> QED BY <3>2, <3>3
    <2>3. p <= n \/ p > n
    BY <1>1
    <2> QED BY <2>1, <2>2, <2>3
<1> QED BY <1>5, <1>6, <1>7

\* A key removed from a position moves those behind it by one.
LEMMA RemovedAt ==
    ASSUME NEW s \in Seq(Keys), NEW n \in 1..Len(s)
    PROVE  /\ RemoveAt(s, n) \in Seq(Keys)
           /\ Len(RemoveAt(s, n)) = Len(s) - 1
           /\ \A p \in 1..(Len(s) - 1) : RemoveAt(s, n)[p] = IF p < n THEN s[p] ELSE s[p + 1]
<1> DEFINE a == SubSeq(s, 1, n - 1)
           c == SubSeq(s, n + 1, Len(s))
<1>1. Len(s) \in Nat /\ n \in Int /\ \A p \in 1..Len(s) : s[p] \in Keys
  BY LenProperties
<1>2. a \in Seq(Keys) /\ Len(a) = n - 1 /\ \A p \in 1..(n - 1) : a[p] = s[p]
  BY <1>1, SubSeqProperties
<1>3. c \in Seq(Keys) /\ Len(c) = Len(s) - n /\ \A p \in 1..(Len(s) - n) : c[p] = s[n + p]
  BY <1>1, SubSeqProperties
<1>4. RemoveAt(s, n) = a \o c
  BY DEF RemoveAt
<1> HIDE DEF a, c
<1>5. /\ a \o c \in Seq(Keys) /\ Len(a \o c) = Len(s) - 1
      /\ \A p \in 1..(Len(s) - 1) : (a \o c)[p] = IF p <= n - 1 THEN a[p] ELSE c[p - (n - 1)]
    <2>1. /\ a \o c \in Seq(Keys) /\ Len(a \o c) = Len(a) + Len(c)
          /\ \A p \in 1..(Len(a) + Len(c)) : (a \o c)[p] = IF p <= Len(a) THEN a[p] ELSE c[p - Len(a)]
    BY <1>2, <1>3, ConcatProperties
    <2>2. Len(a) = n - 1 /\ Len(a) + Len(c) = Len(s) - 1
    BY <1>1, <1>2, <1>3
    <2> QED BY <2>1, <2>2
<1> QED BY <1>1, <1>2, <1>3, <1>4, <1>5

\* No root has a key twice after either.
LEMMA StaysInjective ==
    ASSUME NEW s \in Seq(Keys), IsInjective(s)
    PROVE  /\ \A k \in Keys, n \in 1..(Len(s) + 1) :
                k \notin ToSet(s) => IsInjective(InsertAt(s, n, k))
           /\ \A n \in 1..Len(s) : IsInjective(RemoveAt(s, n))
<1>1. Len(s) \in Nat /\ DOMAIN s = 1..Len(s)
  BY LenProperties
<1>2. ASSUME NEW k \in Keys, NEW n \in 1..(Len(s) + 1), k \notin ToSet(s)
      PROVE  IsInjective(InsertAt(s, n, k))
    <2> DEFINE t == InsertAt(s, n, k)
    <2>1. /\ DOMAIN t = 1..(Len(s) + 1)
          /\ \A p \in 1..(Len(s) + 1) :
                t[p] = IF p < n THEN s[p] ELSE IF p = n THEN k ELSE s[p - 1]
    BY InsertedAt, LenProperties
    <2>2. \A p \in 1..Len(s) : s[p] # k
    BY <1>1, <1>2 DEF ToSet
    <2>3. \A p, q \in 1..Len(s) : s[p] = s[q] => p = q
    BY <1>1 DEF IsInjective
    <2> HIDE DEF t
    <2>4. ASSUME NEW p \in 1..(Len(s) + 1), NEW q \in 1..(Len(s) + 1), t[p] = t[q]
          PROVE  p = q
    BY <1>1, <2>1, <2>2, <2>3, <2>4
    <2>5. IsInjective(t)
    BY <2>1, <2>4 DEF IsInjective
    <2> QED BY <2>5 DEF t
<1>3. ASSUME NEW n \in 1..Len(s)
      PROVE  IsInjective(RemoveAt(s, n))
    <2> DEFINE t == RemoveAt(s, n)
    <2>1. /\ DOMAIN t = 1..(Len(s) - 1)
          /\ \A p \in 1..(Len(s) - 1) : t[p] = IF p < n THEN s[p] ELSE s[p + 1]
    BY <1>1, RemovedAt, LenProperties
    <2>2. \A p, q \in 1..Len(s) : s[p] = s[q] => p = q
    BY <1>1 DEF IsInjective
    <2> HIDE DEF t
    <2>3. ASSUME NEW p \in 1..(Len(s) - 1), NEW q \in 1..(Len(s) - 1), t[p] = t[q]
          PROVE  p = q
    BY <1>1, <2>1, <2>2, <2>3
    <2>4. IsInjective(t)
    BY <2>1, <2>3 DEF IsInjective
    <2> QED BY <2>4 DEF t
<1> QED BY <1>2, <1>3

\* A root has no more subkeys than there are keys, whatever their order.
LEMMA NoMoreThanKeys ==
    ASSUME NEW s \in Seq(Keys), IsInjective(s)
    PROVE  Cardinality(Keys) \in Nat /\ Len(s) \in Nat /\ Len(s) <= Cardinality(Keys)
<1>1. Len(s) \in Nat /\ s \in [1..Len(s) -> Keys]
  BY LenProperties
<1>5. Cardinality(1..Len(s)) = Len(s)
  BY <1>1, FS_Interval
<1>6. IsFiniteSet(Keys) /\ Cardinality(Keys) \in Nat
  BY EnumerationAssumption, FS_CardinalityType
<1>7. s \in Injection(1..Len(s), Keys)
  BY <1>1 DEF IsInjective, Injection
<1> QED BY <1>1, <1>5, <1>6, <1>7, FS_Injection

-----------------------------------------------------------------------------
(* The invariant holds at first, and every step keeps it.                     *)

LEMMA LengthsFit ==
    ASSUME EnumTypeOK
    PROVE  /\ \A r \in Roots : /\ hive[r] \in Seq(Keys) /\ DOMAIN hive[r] = 1..Len(hive[r])
                               /\ \A n \in 1..Len(hive[r]) : hive[r][n] \in Keys
                               /\ Len(hive[r]) \in Nat /\ Len(hive[r]) <= Cardinality(Keys)
           /\ \A k \in Keys : NameLength[k] \in 1..(BufferSize - 1)
           /\ Cardinality(Keys) \in Nat /\ BufferSize \in Nat \ {0} /\ dwIndex \in Nat
<1>1. ASSUME NEW r \in Roots
      PROVE  /\ hive[r] \in Seq(Keys) /\ DOMAIN hive[r] = 1..Len(hive[r])
             /\ \A n \in 1..Len(hive[r]) : hive[r][n] \in Keys
             /\ Len(hive[r]) \in Nat /\ Len(hive[r]) <= Cardinality(Keys)
  BY NoMoreThanKeys, LenProperties DEF EnumTypeOK
<1> QED BY <1>1, EnumerationAssumption, FS_CardinalityType DEF EnumTypeOK

LEMMA EnumInvInit == EnumInit => EnumInv
<1> SUFFICES ASSUME EnumInit
             PROVE  EnumInv
  OBVIOUS
<1> USE DEF Roots
<1>2. stayed = [r \in Roots |-> ToSet(hive[r])] /\ stayed \in [Roots -> SUBSET Keys]
  BY EnumerationAssumption, LenProperties DEF EnumInit, ToSet
<1>7. Unchanged
  BY <1>2 DEF Unchanged, EnumInit, PassedPrograms, Passed, Held, Scanning
<1>8. EnumTypeOK
  <2>1. Cardinality(Keys) \in Nat /\ 0 \in 0..(IndexSize - 1)
    BY EnumerationAssumption, FS_CardinalityType
  <2>2. hive \in [Roots -> Seq(Keys)] /\ \A r \in Roots : IsInjective(hive[r])
    BY EnumerationAssumption DEF EnumInit
  <2>3. cbName \in 1..BufferSize /\ dwIndex \in 0..(IndexSize - 1) /\ changes \in 0..MaxChanges
    BY <2>1, EnumerationAssumption DEF EnumInit
  <2>4. /\ readable \in [Roots -> BOOLEAN] /\ locked \subseteq Keys /\ removable \subseteq Keys
        /\ pc = "root" /\ i = 1 /\ szSubKeyName = "none" /\ broken = FALSE /\ disturbed = {}
        /\ programList = [k \in Keys |-> 0]
    BY DEF EnumInit
  <2>5. programList \in [Keys -> Roots \cup {0}]
    BY <2>4
  <2>6. BufferSize \in Nat \ {0}
    BY EnumerationAssumption
  <2>7. /\ hive \in [Roots -> Seq(Keys)] /\ \A r \in Roots : IsInjective(hive[r])
        /\ readable \in [Roots -> BOOLEAN] /\ locked \subseteq Keys /\ removable \subseteq Keys
    BY <2>2, <2>4
  <2>8. /\ pc \in {"root", "enum", "item", "done"} /\ i \in Roots
        /\ szSubKeyName \in Keys \cup {"none"} /\ broken \in BOOLEAN /\ disturbed \subseteq Roots
    <3>1. broken \in BOOLEAN
      BY <2>4, Zenon
    <3> QED BY <2>4, <3>1
  <2>9. stayed \in [Roots -> SUBSET Keys]
    BY <1>2
  <2> HIDE DEF Roots
  <2> QED BY <2>3, <2>5, <2>7, <2>8, <2>9 DEF EnumTypeOK
<1> QED
  BY <1>2, <1>7, <1>8 DEF EnumInv, NameHeld, StayedThere, ScanSound, RootsRead, EnumInit, Held,
     Scanning

\* The loop goes on with the next root when the one it was at is read.
LEMMA LeavesRoot ==
    ASSUME EnumInv, NextRoot, UNCHANGED <<registry, programList>>, pc \in {"root", "enum"}, ~broken,
           i \notin disturbed => \A k \in Keys : Listed(i, k),
           changes = 0 => PassedPrograms(i) = ToSet(hive[i]) \cap Listable(i)
    PROVE  EnumInv'
<1> USE DEF Roots
<1>1. /\ i \in {1, 2} /\ i' \in {1, 2}
      /\ i = 1 => i' = 2 /\ pc' = "root"
      /\ i = 2 => i' = 2 /\ pc' = "done"
  BY DEF NextRoot, EnumInv, EnumTypeOK
<1>2. /\ hive' = hive /\ readable' = readable /\ locked' = locked /\ removable' = removable
      /\ changes' = changes /\ stayed' = stayed /\ disturbed' = disturbed
      /\ broken' = broken /\ programList' = programList
      /\ dwIndex' = dwIndex /\ cbName' = cbName /\ szSubKeyName' = szSubKeyName
  BY DEF registry, NextRoot
<1>3. ~Scanning' /\ pc' # "item" /\ pc # "item"
  BY <1>1 DEF Scanning
<1>8. ASSUME changes = 0
      PROVE  Unchanged'
    <2>2. \A r \in Roots : PassedPrograms(r)' = PassedPrograms(r)
        <3>1. SUFFICES ASSUME NEW r \in Roots
                       PROVE  Passed(r)' \cap Listable(r) = Passed(r) \cap Listable(r)
      BY <1>2 DEF PassedPrograms, Listable
        <3>2. Passed(r)' = IF r < i' \/ pc' = "done" THEN ToSet(hive[r]) ELSE {}
      BY <1>2, <1>3 DEF Passed
        <3>3. CASE r < i
      BY <1>1, <3>2, <3>3 DEF Passed
        <3>4. CASE r = i
      BY <1>1, <1>8, <3>2, <3>4 DEF PassedPrograms
        <3>5. CASE r > i
      BY <1>1, <3>2, <3>5 DEF Passed
        <3> QED BY <1>1, <3>3, <3>4, <3>5
    <2> QED BY <1>2, <1>3, <1>8, <2>2 DEF Unchanged, EnumInv
<1> QED
  BY <1>1, <1>2, <1>3, <1>8 DEF EnumInv, NameHeld, Held, StayedThere, ScanSound, EnumTypeOK,
     RootsRead, Listed, Listable

LEMMA OpenRootKeeps == EnumInv /\ OpenRoot => EnumInv'
<1> SUFFICES ASSUME EnumInv, OpenRoot
             PROVE  EnumInv'
  OBVIOUS
<1> USE DEF Roots
<1>0. EnumTypeOK /\ i \in {1, 2} /\ pc = "root" /\ ~Scanning /\ ~broken
  BY DEF EnumInv, EnumTypeOK, OpenRoot, Scanning
<1>1. CASE ~readable[i]
  BY <1>0, <1>1, LeavesRoot DEF PassedPrograms, OpenRoot, Listed, Listable
<1>2. CASE readable[i]
    <2>1. /\ hive' = hive /\ readable' = readable /\ locked' = locked /\ removable' = removable
          /\ changes' = changes /\ stayed' = stayed /\ disturbed' = disturbed /\ broken' = broken
          /\ programList' = programList /\ i' = i /\ szSubKeyName' = szSubKeyName
          /\ pc' = "enum" /\ dwIndex' = 0 /\ cbName' = BufferSize
    BY <1>2 DEF OpenRoot, registry
    <2>4. ~Held' /\ Scanning'
    BY <2>1 DEF Held, Scanning
    <2>7. RootsRead'
    BY <1>0, <2>1 DEF EnumInv, RootsRead, Listed, Listable
    <2>8. ASSUME changes = 0
          PROVE  Unchanged'
    BY <1>0, <2>1, <2>4, <2>8, LengthsFit DEF Unchanged, PassedPrograms, Listable, Passed,
       Scanning, EnumInv
    <2>9. EnumTypeOK'
      <3>1. Cardinality(Keys) \in Nat /\ 0 \in 0..(IndexSize - 1) /\ BufferSize \in 1..BufferSize
      BY EnumerationAssumption, FS_CardinalityType
      <3> QED BY <1>0, <2>1, <3>1 DEF EnumTypeOK
    <2> QED
    BY <1>0, <1>2, <2>1, <2>4, <2>7, <2>8, <2>9, LengthsFit DEF EnumInv, NameHeld, StayedThere,
       ScanSound, Scan, RetriedIsLocked, ListedBefore
<1> QED BY <1>1, <1>2

\* What the index is past, in the root that the loop is at.
LEMMA ListedTo ==
    ASSUME EnumInv, Scanning, i \notin disturbed
    PROVE  ListedBefore(dwIndex + 1)
<1>3. Scan
  BY DEF EnumInv, ScanSound
<1>4. CASE Held
    <2>1. PICK n \in DOMAIN hive[i] : HeldAt(n)
    BY <1>3, <1>4 DEF Scan
    <2> QED BY <2>1, LengthsFit DEF HeldAt, ListedBefore, EnumTypeOK, EnumInv
<1>5. CASE ~Held
  BY <1>3, <1>5 DEF Scan
<1> QED BY <1>4, <1>5

LEMMA EnumEndsKeeps == EnumInv /\ EnumEnds => EnumInv'
<1> SUFFICES ASSUME EnumInv, EnumEnds
             PROVE  EnumInv'
  OBVIOUS
<1>1. /\ EnumTypeOK /\ i \in Roots /\ pc = "enum" /\ Scanning /\ dwIndex >= Len(hive[i])
      /\ ~broken
  BY DEF EnumInv, EnumTypeOK, EnumEnds, Scanning, AtEnd
<1>2. /\ DOMAIN hive[i] = 1..Len(hive[i]) /\ Len(hive[i]) \in Nat /\ dwIndex \in Nat
  BY <1>1, LengthsFit
<1>3. ASSUME i \notin disturbed, NEW k \in Keys
      PROVE  Listed(i, k)
    <2>1. ListedBefore(dwIndex + 1)
    BY <1>1, <1>3, ListedTo
    <2>2. CASE k \in ToSet(hive[i])
        <3>1. PICK n \in DOMAIN hive[i] : hive[i][n] = k
      BY <2>2 DEF ToSet
        <3>2. n < dwIndex + 1
      BY <1>1, <1>2
        <3> QED BY <2>1, <3>1, <3>2 DEF ListedBefore
    <2>3. CASE k \notin ToSet(hive[i])
    BY <1>1, <2>3 DEF EnumInv, StayedThere, Listed
    <2> QED BY <2>2, <2>3
<1>4. ASSUME changes = 0
      PROVE  PassedPrograms(i) = ToSet(hive[i]) \cap Listable(i)
    <2>1. dwIndex = Len(hive[i])
    BY <1>1, <1>2, <1>4 DEF EnumInv, Unchanged
    <2>2. Passed(i) = {hive[i][n] : n \in 1..dwIndex}
        <3>1. ~(i < i) /\ pc # "done"
      BY <1>1 DEF Roots
        <3> QED BY <1>1, <3>1 DEF Passed
    <2> QED BY <1>2, <2>1, <2>2 DEF PassedPrograms, ToSet
<1>5. NextRoot /\ UNCHANGED <<registry, programList>>
  BY DEF EnumEnds
<1> QED BY <1>1, <1>3, <1>4, <1>5, LeavesRoot

\* The loop goes on with the next index when the key at the index is dealt with.
LEMMA GoesOn ==
    ASSUME EnumInv, NextIndex, UNCHANGED registry, Scanning,
           i \notin disturbed => dwIndex < Cardinality(Keys),
           programList' \in [Keys -> Roots \cup {0}],
           \A k \in Keys : programList[k] # 0 => programList'[k] # 0,
           i \notin disturbed => ListedBefore(dwIndex + 1)',
           changes = 0 =>
                /\ dwIndex < Len(hive[i])
                /\ \A k \in Keys :
                    programList'[k] = IF k = hive[i][dwIndex + 1] /\ k \in Listable(i)
                                      THEN i ELSE programList[k]
    PROVE  EnumInv'
<1> USE DEF Roots
<1>1. /\ EnumTypeOK /\ i \in {1, 2} /\ Cardinality(Keys) \in Nat /\ BufferSize \in Nat \ {0}
      /\ dwIndex \in 0..(IndexSize - 1) /\ IndexSize \in Nat /\ Cardinality(Keys) < IndexSize
      /\ Len(hive[i]) \in Nat /\ Len(hive[i]) <= Cardinality(Keys)
  BY LengthsFit, EnumerationAssumption DEF EnumInv, EnumTypeOK
<1>2. /\ hive' = hive /\ readable' = readable /\ locked' = locked /\ removable' = removable
      /\ changes' = changes /\ stayed' = stayed /\ disturbed' = disturbed /\ broken' = broken
      /\ i' = i /\ szSubKeyName' = szSubKeyName
      /\ pc' = "enum" /\ cbName' = BufferSize
      /\ dwIndex' = IF dwIndex = IndexSize - 1 THEN 0 ELSE dwIndex + 1
  BY DEF NextIndex, registry
<1>5. /\ dwIndex' \in 0..(IndexSize - 1)
      /\ i \notin disturbed \/ changes = 0 => dwIndex' = dwIndex + 1
  BY <1>1, <1>2
<1>3. EnumTypeOK'
  BY <1>1, <1>2, <1>5 DEF EnumTypeOK
<1>4. ~Held' /\ Scanning' /\ pc # "done"
  BY <1>2 DEF Held, Scanning
<1>8. ASSUME changes = 0
      PROVE  Unchanged'
    <2>1. Unchanged
    BY <1>8 DEF EnumInv
    <2> DEFINE key == hive[i][dwIndex + 1]
    <2>3. \A r \in Roots : PassedPrograms(r)' =
                IF r = i THEN PassedPrograms(r) \cup ({key} \cap Listable(i)) ELSE PassedPrograms(r)
        <3>1. SUFFICES ASSUME NEW r \in Roots
                       PROVE  Passed(r)' = IF r = i THEN Passed(r) \cup {key} ELSE Passed(r)
      BY <1>2 DEF PassedPrograms, Listable
        <3>2. CASE r = i
      BY <1>1, <1>2, <1>4, <1>5, <1>8, <3>2 DEF Passed
        <3>3. CASE r # i
      BY <1>2, <1>4, <3>3 DEF Passed
        <3> QED BY <3>2, <3>3
    <2>4. ASSUME NEW k \in Keys
          PROVE  programList'[k] = IF k \in PassedPrograms(2)' THEN 2
                                   ELSE IF k \in PassedPrograms(1)' THEN 1 ELSE 0
        <3>4. CASE i = 1
      BY <1>4, <1>8, <2>1, <2>3, <3>4 DEF Unchanged, PassedPrograms, Passed
        <3>5. CASE i = 2
      BY <1>8, <2>1, <2>3, <3>5 DEF Unchanged
        <3> QED BY <1>1, <3>4, <3>5
    <2> QED BY <1>1, <1>2, <1>4, <1>5, <1>8, <2>1, <2>4, LengthsFit DEF Unchanged, EnumInv, ScanSound
<1> QED
  BY <1>1, <1>2, <1>3, <1>4, <1>5, <1>8 DEF EnumInv, NameHeld, StayedThere, ScanSound, Scan,
     RetriedIsLocked, Listed, Listable, RootsRead

LEMMA EnumSucceedsKeeps == EnumInv /\ EnumSucceeds => EnumInv'
<1> SUFFICES ASSUME EnumInv, EnumSucceeds
             PROVE  EnumInv'
  OBVIOUS
<1> USE DEF Roots
<1>1. EnumTypeOK /\ i \in {1, 2} /\ pc = "enum" /\ Scanning /\ ~(dwIndex >= Len(hive[i]))
  BY DEF EnumInv, EnumTypeOK, EnumSucceeds, Scanning, AtEnd
<1>2. /\ DOMAIN hive[i] = 1..Len(hive[i]) /\ Len(hive[i]) \in Nat /\ Len(hive[i]) <= Cardinality(Keys)
      /\ dwIndex \in Nat /\ BufferSize \in Nat /\ Cardinality(Keys) \in Nat
      /\ \A n \in 1..Len(hive[i]) : hive[i][n] \in Keys
      /\ \A k \in Keys : NameLength[k] \in 1..(BufferSize - 1)
  BY <1>1, LengthsFit
<1> DEFINE key == hive[i][dwIndex + 1]
<1>3. dwIndex + 1 \in DOMAIN hive[i] /\ key \in Keys /\ dwIndex < Len(hive[i])
  BY <1>1, <1>2
<1>4. /\ hive' = hive /\ readable' = readable /\ locked' = locked /\ removable' = removable
      /\ changes' = changes /\ stayed' = stayed /\ disturbed' = disturbed
      /\ broken' = broken /\ programList' = programList
      /\ i' = i /\ dwIndex' = dwIndex
      /\ pc' = "item" /\ szSubKeyName' = key /\ cbName' = NameLength[key]
  BY DEF EnumSucceeds, registry, Current
<1> HIDE DEF key
<1>6. Held' /\ Scanning' /\ NameHeld' /\ StayedThere'
  BY <1>3, <1>4 DEF EnumInv, Held, Scanning, NameHeld, StayedThere
<1>7. ScanSound'
    <2>1. ASSUME i \notin disturbed
          PROVE  Scan'
        <3>3. ListedBefore(dwIndex + 1)'
      BY <1>1, <1>4, <2>1, ListedTo DEF ListedBefore, Listed, Listable
        <3> QED BY <1>2, <1>3, <1>4, <1>6, <3>3 DEF Scan, HeldAt, key
    <2> QED BY <1>1, <1>4, <2>1 DEF ScanSound, RetriedIsLocked, EnumInv
<1>9. ASSUME changes = 0
      PROVE  Unchanged'
  BY <1>1, <1>2, <1>3, <1>4, <1>6, <1>9 DEF Unchanged, key, PassedPrograms, Passed, Listable,
     EnumInv
<1> QED
  BY <1>1, <1>2, <1>3, <1>4, <1>6, <1>7, <1>9 DEF EnumInv, EnumTypeOK, RootsRead, Listed, Listable

\* A name fits into a buffer of full size.  So the one that does not fit is
\* behind one that was held, whose key is locked: or it is that key.
LEMMA EnumFailsKeeps == EnumInv /\ EnumFails => EnumInv'
<1> SUFFICES ASSUME EnumInv, EnumFails
             PROVE  EnumInv'
  OBVIOUS
<1> USE DEF Roots
<1>1. /\ EnumTypeOK /\ i \in {1, 2} /\ pc = "enum" /\ Scanning /\ ~(dwIndex >= Len(hive[i]))
      /\ programList \in [Keys -> Roots \cup {0}]
  BY DEF EnumInv, EnumTypeOK, EnumFails, Scanning, AtEnd
<1>2. /\ DOMAIN hive[i] = 1..Len(hive[i]) /\ Len(hive[i]) \in Nat /\ Len(hive[i]) <= Cardinality(Keys)
      /\ dwIndex \in Nat /\ BufferSize \in Nat /\ Cardinality(Keys) \in Nat
      /\ \A n \in 1..Len(hive[i]) : hive[i][n] \in Keys
      /\ \A k \in Keys : NameLength[k] \in 1..(BufferSize - 1)
  BY <1>1, LengthsFit
<1> DEFINE key == hive[i][dwIndex + 1]
<1>3. dwIndex + 1 \in DOMAIN hive[i] /\ key \in Keys /\ dwIndex < Len(hive[i])
  BY <1>1, <1>2
<1>4. NameLength[key] >= cbName /\ NextIndex /\ UNCHANGED <<registry, programList>>
  BY DEF EnumFails, Current
<1>5. Held
  BY <1>2, <1>3, <1>4 DEF Held
<1>7. /\ hive' = hive /\ readable' = readable /\ locked' = locked /\ removable' = removable
      /\ changes' = changes /\ stayed' = stayed /\ i' = i /\ dwIndex' = dwIndex + 1
  <2>1. dwIndex # IndexSize - 1
    BY <1>2, <1>3, EnumerationAssumption
  <2> QED BY <1>4, <2>1 DEF registry, NextIndex
<1>8. ASSUME szSubKeyName \in locked
      PROVE  szSubKeyName \notin Listable(i)
  BY <1>8 DEF Listable
<1>9. ASSUME i \notin disturbed
      PROVE  ListedBefore(dwIndex + 1)'
    <2>1. Scan /\ szSubKeyName \in locked
    BY <1>1, <1>5, <1>9 DEF EnumInv, ScanSound, RetriedIsLocked
    <2>2. PICK n \in DOMAIN hive[i] : HeldAt(n)
    BY <1>5, <2>1 DEF Scan
    <2>3. SUFFICES ASSUME NEW p \in DOMAIN hive[i], p < dwIndex + 2
                   PROVE  Listed(i, hive[i][p])
    BY <1>2, <1>4, <1>7 DEF ListedBefore, Listed, Listable
    <2>5. CASE p < n
    BY <2>2, <2>3, <2>5 DEF HeldAt, ListedBefore
    <2>6. CASE p = n
    BY <1>8, <2>1, <2>2, <2>6 DEF HeldAt, Listed
    <2> QED BY <1>2, <2>2, <2>3, <2>5, <2>6 DEF HeldAt
<1>10. ASSUME changes = 0
       PROVE  key \notin Listable(i)
  BY <1>1, <1>5, <1>8, <1>10 DEF Unchanged, EnumInv, ScanSound, RetriedIsLocked
<1> HIDE DEF key
<1> QED BY <1>1, <1>2, <1>3, <1>4, <1>9, <1>10, GoesOn DEF key

LEMMA ItemSkippedKeeps == EnumInv /\ ItemSkipped => EnumInv'
<1> SUFFICES ASSUME EnumInv, ItemSkipped
             PROVE  EnumInv'
  OBVIOUS
<1> USE DEF Roots
<1>1. /\ EnumTypeOK /\ i \in {1, 2} /\ pc = "item" /\ Scanning /\ Held
      /\ broken \/ szSubKeyName \notin ToSet(hive[i]) \ locked
  BY DEF EnumInv, EnumTypeOK, ItemSkipped, Scanning, Held, Opens
<1>3. /\ hive' = hive /\ readable' = readable /\ locked' = locked /\ removable' = removable
      /\ changes' = changes /\ stayed' = stayed /\ disturbed' = disturbed
      /\ broken' = broken /\ programList' = programList
      /\ i' = i /\ dwIndex' = dwIndex /\ szSubKeyName' = szSubKeyName /\ cbName' = cbName
      /\ pc' = "enum"
  BY DEF ItemSkipped, registry
<1>5. Held' /\ Scanning'
  BY <1>1, <1>3, LengthsFit DEF Held, Scanning, EnumInv, NameHeld
<1>7. ScanSound'
    <2>1. ASSUME i \notin disturbed
          PROVE  Scan' /\ szSubKeyName \in locked
        <3>1. PICK n \in DOMAIN hive[i] : HeldAt(n)
      BY <1>1, <2>1 DEF EnumInv, ScanSound, Scan
        <3>2. ~broken
      BY <2>1 DEF EnumInv
        <3> QED BY <1>1, <1>3, <1>5, <3>1, <3>2 DEF Scan, HeldAt, ToSet, ListedBefore, Listed, Listable
    <2> QED BY <1>1, <1>3, <2>1 DEF ScanSound, RetriedIsLocked, EnumInv
<1>9. ASSUME changes = 0
      PROVE  Unchanged'
  BY <1>1, <1>3, <1>5, <1>9 DEF Unchanged, PassedPrograms, Passed, Listable, EnumInv
<1> QED
  BY <1>1, <1>3, <1>5, <1>7, <1>9 DEF EnumInv, NameHeld, StayedThere, RootsRead, Listed, Listable,
     EnumTypeOK

LEMMA ItemReadKeeps == EnumInv /\ ItemRead => EnumInv'
<1> SUFFICES ASSUME EnumInv, ItemRead
             PROVE  EnumInv'
  OBVIOUS
<1> USE DEF Roots
<1>1. /\ EnumTypeOK /\ i \in {1, 2} /\ pc = "item" /\ Scanning /\ Held
      /\ szSubKeyName \in ToSet(hive[i]) /\ szSubKeyName \notin locked
      /\ programList \in [Keys -> Roots \cup {0}]
  BY DEF EnumInv, EnumTypeOK, ItemRead, Scanning, Held, Opens
<1>2. /\ DOMAIN hive[i] = 1..Len(hive[i]) /\ Len(hive[i]) \in Nat /\ dwIndex \in Nat
      /\ szSubKeyName \in Keys /\ readable[i] /\ Len(hive[i]) <= Cardinality(Keys)
      /\ Cardinality(Keys) \in Nat
  BY <1>1, LengthsFit DEF EnumInv, NameHeld, ScanSound
<1>5. i \notin disturbed => dwIndex < Cardinality(Keys) /\ dwIndex # IndexSize - 1
  <2> SUFFICES ASSUME i \notin disturbed
               PROVE  dwIndex < Cardinality(Keys) /\ dwIndex # IndexSize - 1
    OBVIOUS
  <2>1. PICK n \in DOMAIN hive[i] : HeldAt(n)
    BY <1>1 DEF EnumInv, ScanSound, Scan
  <2> QED BY <1>2, <2>1, EnumerationAssumption DEF HeldAt
<1>3. /\ NextIndex /\ UNCHANGED registry
      /\ programList' = IF szSubKeyName \in removable
                        THEN [programList EXCEPT ![szSubKeyName] = i] ELSE programList
  BY DEF ItemRead
<1>4. /\ hive' = hive /\ readable' = readable /\ locked' = locked /\ removable' = removable
      /\ changes' = changes /\ stayed' = stayed /\ i' = i /\ szSubKeyName' = szSubKeyName
      /\ i \notin disturbed => dwIndex' = dwIndex + 1
  BY <1>3, <1>5 DEF registry, NextIndex
<1>6. \A k \in Keys : programList'[k] =
            IF k = szSubKeyName /\ k \in Listable(i) THEN i ELSE programList[k]
  BY <1>1, <1>2, <1>3 DEF Listable
<1>9. ASSUME i \notin disturbed
      PROVE  ListedBefore(dwIndex + 1)'
    <2>1. PICK n \in DOMAIN hive[i] : HeldAt(n)
    BY <1>1, <1>9 DEF EnumInv, ScanSound, Scan
    <2>5. SUFFICES ASSUME NEW p \in DOMAIN hive[i], p < dwIndex + 2
                   PROVE  (Listed(i, hive[i][p]))'
    BY <1>2, <1>4, <1>9 DEF ListedBefore
    <2>7. CASE p < n
        <3>1. Listed(i, hive[i][p])
      BY <2>1, <2>5, <2>7 DEF HeldAt, ListedBefore
        <3> QED BY <1>1, <1>4, <1>6, <2>5, <3>1, LengthsFit DEF Listed, Listable
    <2>8. CASE p = n
    BY <1>1, <1>2, <1>4, <1>6, <2>1, <2>8 DEF Listed, Listable, HeldAt
    <2> QED BY <1>2, <2>1, <2>5, <2>7, <2>8 DEF HeldAt
<1>10. ASSUME changes = 0
       PROVE  dwIndex < Len(hive[i]) /\ szSubKeyName = hive[i][dwIndex + 1]
  BY <1>1, <1>10 DEF EnumInv, Unchanged
<1> QED BY <1>1, <1>2, <1>3, <1>5, <1>6, <1>9, <1>10, GoesOn

\* A root of which a call has failed is one of those about which nothing is said.
LEMMA EnumFailedKeeps == EnumInv /\ (EnumRefused \/ EnumErrs) => EnumInv'
<1> SUFFICES ASSUME EnumInv, EnumRefused \/ EnumErrs
             PROVE  EnumInv'
  OBVIOUS
<1>1. /\ EnumTypeOK /\ i \in Roots /\ dwIndex \in 0..(IndexSize - 1) /\ IndexSize \in Nat
      /\ BufferSize \in Nat \ {0} /\ IndexSize > 0 /\ MaxChanges \in Nat
      /\ pc = "enum" /\ Scanning /\ changes \in 0..MaxChanges
  BY EnumerationAssumption, FS_CardinalityType DEF EnumInv, EnumTypeOK, EnumRefused, EnumErrs, Scanning
<1>2. /\ hive' = hive /\ readable' = readable /\ locked' = locked /\ removable' = removable
      /\ stayed' = stayed /\ broken' = broken /\ programList' = programList
      /\ i' = i /\ szSubKeyName' = szSubKeyName /\ pc' = "enum" /\ cbName' = BufferSize
      /\ dwIndex' = IF dwIndex = IndexSize - 1 THEN 0 ELSE dwIndex + 1
  BY DEF EnumRefused, EnumErrs, NextIndex, registry
<1>3. /\ changes' \in 0..MaxChanges /\ changes' # 0
      /\ disturbed \subseteq disturbed' /\ i \in disturbed' /\ disturbed' \subseteq Roots
  <2>1. CASE EnumErrs
    BY <1>1, <2>1 DEF EnumErrs, EnumTypeOK
  <2>2. CASE EnumRefused
    BY <1>1, <2>2 DEF EnumRefused, EnumInv, Unchanged, registry, EnumTypeOK
  <2> QED BY <2>1, <2>2
<1>4. EnumTypeOK'
  BY <1>1, <1>2, <1>3 DEF EnumTypeOK
<1>5. ~Held' /\ Scanning' /\ pc # "done"
  BY <1>1, <1>2 DEF Held, Scanning
<1>6. RootsRead'
  BY <1>2, <1>3, <1>5 DEF EnumInv, RootsRead, Listed, Listable
<1>7. ScanSound'
  BY <1>1, <1>2, <1>3 DEF EnumInv, ScanSound
<1> QED BY <1>2, <1>3, <1>4, <1>5, <1>6, <1>7 DEF EnumInv, NameHeld, StayedThere

-----------------------------------------------------------------------------
(* Installers.                                                                *)

LEMMA ChangeKeepsTypes ==
    ASSUME EnumInv, NEW r \in Roots, NEW keys \in Seq(Keys), IsInjective(keys),
           Change(r, keys), stayed' \in [Roots -> SUBSET Keys], disturbed' \subseteq Roots,
           broken' \in BOOLEAN
    PROVE  EnumTypeOK' /\ hive'[r] = keys /\ \A q \in Roots : q # r => hive'[q] = hive[q]
<1>1. EnumTypeOK
  BY DEF EnumInv
<1>3. hive' \in [Roots -> Seq(Keys)] /\ hive'[r] = keys /\ \A q \in Roots : q # r => hive'[q] = hive[q]
  BY <1>1 DEF Change, EnumTypeOK
<1>4. \A q \in Roots : IsInjective(hive'[q])
    <2>2. ASSUME NEW q \in Roots
          PROVE  IsInjective(hive'[q])
        <3>1. CASE q = r
      BY <1>3, <3>1
        <3>2. CASE q # r
      BY <1>1, <1>3, <3>2 DEF EnumTypeOK
        <3> QED BY <3>1, <3>2
    <2> QED BY <2>2
<1> QED BY <1>1, <1>3, <1>4, EnumerationAssumption DEF EnumTypeOK, Change, loop

\* What is not about the subkeys of the root that the loop is at.
LEMMA ChangeKeeps ==
    ASSUME EnumInv, NEW r \in Roots, NEW keys \in Seq(Keys), IsInjective(keys),
           Change(r, keys), stayed' \in [Roots -> SUBSET Keys], disturbed' \subseteq Roots,
           disturbed \subseteq disturbed', \A q \in Roots : stayed'[q] \subseteq stayed[q],
           stayed'[r] \subseteq ToSet(keys),
           broken' \in BOOLEAN, broken' => broken \/ (Scanning /\ i \in disturbed'),
           Scanning /\ r = i /\ i \notin disturbed' => Scan'
    PROVE  EnumInv'
<1>1. EnumTypeOK' /\ hive'[r] = keys /\ \A q \in Roots : q # r => hive'[q] = hive[q]
  BY ChangeKeepsTypes
<1>2. /\ readable' = readable /\ locked' = locked /\ removable' = removable /\ programList' = programList
      /\ pc' = pc /\ i' = i /\ dwIndex' = dwIndex /\ cbName' = cbName /\ szSubKeyName' = szSubKeyName
      /\ changes' = changes + 1
  BY DEF Change, loop
<1>5. StayedThere'
    <2>1. ASSUME NEW q \in Roots
          PROVE  stayed'[q] \subseteq ToSet(hive'[q])
        <3>1. CASE q = r
      BY <1>1, <3>1
        <3>2. CASE q # r
      BY <1>1, <3>2 DEF EnumInv, StayedThere
        <3> QED BY <3>1, <3>2
    <2> QED BY <2>1 DEF StayedThere
<1>8. ScanSound'
    <2>1. SUFFICES ASSUME Scanning
                   PROVE  readable[i] /\ (i \notin disturbed' => Scan' /\ RetriedIsLocked')
    BY <1>2 DEF ScanSound, Scanning
    <2>2. i \in Roots /\ EnumTypeOK
    BY DEF EnumInv, EnumTypeOK
    <2>5. ASSUME i \notin disturbed', r # i
          PROVE  Scan'
        <3>1. hive'[i] = hive[i] /\ Scan
      BY <1>1, <2>1, <2>2, <2>5 DEF EnumInv, ScanSound
        <3>2. \A n \in DOMAIN hive[i] : hive[i][n] \in Keys
      BY <2>2, LengthsFit
        <3>4. CASE Held
            <4>1. PICK n \in DOMAIN hive[i] : HeldAt(n)
        BY <3>1, <3>4 DEF Scan
            <4> QED
        BY <1>2, <2>2, <3>1, <3>2, <3>4, <4>1 DEF Scan, HeldAt, Held, ListedBefore, Listed,
           Listable
        <3>5. CASE ~Held
      BY <1>2, <2>2, <3>1, <3>2, <3>5 DEF Scan, Held, ListedBefore, Listed, Listable
        <3> QED BY <3>4, <3>5
    <2> QED BY <1>2, <2>1, <2>5 DEF EnumInv, ScanSound, RetriedIsLocked, Held
<1>9. broken' => Scanning' /\ i' \in disturbed'
  BY <1>2 DEF EnumInv, Scanning
<1> QED
  BY <1>1, <1>2, <1>5, <1>8, <1>9 DEF EnumInv, EnumTypeOK, RootsRead, Listed, Listable, NameHeld,
     Held

\* A new key was not there all along; those behind it are one further on.
LEMMA InstallKeeps ==
    ASSUME EnumInv, NEW r \in Roots, NEW k \in Keys, NEW n \in 1..(Len(hive[r]) + 1), Install(r, k, n)
    PROVE  EnumInv'
<1> DEFINE keys == InsertAt(hive[r], n, k)
<1>1. /\ EnumTypeOK /\ hive[r] \in Seq(Keys) /\ IsInjective(hive[r])
      /\ DOMAIN hive[r] = 1..Len(hive[r]) /\ Len(hive[r]) \in Nat
      /\ \A p \in 1..Len(hive[r]) : hive[r][p] \in Keys
  BY LengthsFit DEF EnumInv, EnumTypeOK
<1>2. /\ k \notin ToSet(hive[r]) /\ Change(r, keys) /\ stayed' = stayed /\ disturbed' = disturbed /\ broken' = broken
  BY DEF Install
<1>3. /\ keys \in Seq(Keys) /\ DOMAIN keys = 1..(Len(hive[r]) + 1) /\ IsInjective(keys)
      /\ \A p \in 1..(Len(hive[r]) + 1) :
            keys[p] = IF p < n THEN hive[r][p] ELSE IF p = n THEN k ELSE hive[r][p - 1]
    <2>1. /\ keys \in Seq(Keys) /\ Len(keys) = Len(hive[r]) + 1
          /\ \A p \in 1..(Len(hive[r]) + 1) :
                keys[p] = IF p < n THEN hive[r][p] ELSE IF p = n THEN k ELSE hive[r][p - 1]
        <3> DEFINE s == hive[r]
        <3>1. s \in Seq(Keys) /\ n \in 1..(Len(s) + 1)
      BY <1>1
        <3> HIDE DEF s
        <3>2. /\ InsertAt(s, n, k) \in Seq(Keys)
              /\ Len(InsertAt(s, n, k)) = Len(s) + 1
              /\ \A p \in 1..(Len(s) + 1) :
                    InsertAt(s, n, k)[p] = IF p < n THEN s[p] ELSE IF p = n THEN k ELSE s[p - 1]
      BY <3>1, InsertedAt
        <3> QED BY <3>2 DEF s
    <2>2. IsInjective(keys)
    BY <1>1, <1>2, StaysInjective
    <2> HIDE DEF keys
    <2> QED BY <2>1, <2>2, LenProperties
<1> HIDE DEF keys
<1>6. stayed[r] \subseteq ToSet(keys)
    <2>1. SUFFICES ASSUME NEW p \in 1..Len(hive[r])
                   PROVE  \E q \in DOMAIN keys : keys[q] = hive[r][p]
    BY <1>1 DEF ToSet, EnumInv, StayedThere
    <2>2. CASE p < n
    BY <1>1, <1>3, <2>2
    <2>3. CASE p >= n
        <3>1. p + 1 \in DOMAIN keys /\ keys[p + 1] = hive[r][p]
      BY <1>1, <1>3, <2>3
        <3> QED BY <3>1
    <2> QED BY <1>1, <2>2, <2>3
<1>7. ASSUME Scanning, r = i, i \notin disturbed
      PROVE  Scan'
    <2>1. /\ readable' = readable /\ locked' = locked /\ removable' = removable /\ programList' = programList
          /\ pc' = pc /\ i' = i /\ dwIndex' = dwIndex /\ cbName' = cbName /\ szSubKeyName' = szSubKeyName
    BY <1>2 DEF Change, loop
    <2>2. Held' <=> Held
    BY <2>1 DEF Held
    <2>3. hive'[i] = keys /\ dwIndex \in Nat
    BY <1>1, <1>2, <1>3, <1>7, ChangeKeepsTypes, LengthsFit DEF EnumTypeOK
    <2>6. ASSUME NEW m \in Int, ListedBefore(m), NEW p \in DOMAIN keys,
                 p < m \/ (n < m /\ p < m + 1)
          PROVE  p = n \/ Listed(i, keys[p])
        <3>1. CASE p < n
      BY <1>1, <1>3, <1>7, <2>6, <3>1 DEF ListedBefore
        <3>2. CASE p > n
      BY <1>1, <1>3, <1>7, <2>6, <3>2 DEF ListedBefore
        <3> QED BY <1>3, <3>1, <3>2
    <2>7. ASSUME NEW p \in DOMAIN keys, p = n \/ Listed(i, keys[p])
          PROVE  keys[p] \in stayed'[i] /\ keys[p] \in Listable(i) => programList[keys[p]] # 0
    BY <1>2, <1>3, <1>7, <2>7 DEF Listed, EnumInv, StayedThere
    <2>8. Scan
    BY <1>7 DEF EnumInv, ScanSound
    <2>9. CASE Held
        <3>1. PICK m \in DOMAIN hive[i] : HeldAt(m)
      BY <2>8, <2>9 DEF Scan
        <3>2. m \in 1..Len(hive[i]) /\ m > dwIndex /\ hive[i][m] = szSubKeyName /\ ListedBefore(m)
      BY <1>1, <1>7, <3>1 DEF HeldAt
        <3>3. CASE m < n
            <4>1. m \in DOMAIN keys /\ keys[m] = szSubKeyName
        BY <1>1, <1>3, <1>7, <3>2, <3>3
            <4> QED
        BY <2>1, <2>2, <2>3, <2>6, <2>7, <2>9, <3>2, <4>1 DEF Scan, HeldAt, ListedBefore, Listed,
           Listable
        <3>4. CASE m >= n
            <4>1. m + 1 \in DOMAIN keys /\ keys[m + 1] = szSubKeyName /\ m + 1 > dwIndex
        BY <1>1, <1>3, <1>7, <2>3, <3>2, <3>4
            <4>2. \A p \in DOMAIN keys : p < m + 1 => p = n \/ Listed(i, keys[p])
        BY <1>1, <1>3, <2>6, <3>2, <3>4
            <4> QED
        BY <2>1, <2>2, <2>3, <2>7, <2>9, <4>1, <4>2 DEF Scan, HeldAt, ListedBefore, Listed,
           Listable
        <3> QED BY <1>1, <3>2, <3>3, <3>4
    <2>10. CASE ~Held
    BY <2>1, <2>2, <2>3, <2>6, <2>7, <2>8, <2>10 DEF Scan, ListedBefore, Listed, Listable
    <2> QED BY <2>9, <2>10
<1> QED BY <1>1, <1>2, <1>3, <1>6, <1>7, ChangeKeeps DEF EnumTypeOK

LEMMA UninstallKeeps ==
    ASSUME EnumInv, NEW r \in Roots, NEW k \in Keys, Uninstall(r, k)
    PROVE  EnumInv'
<1>1. PICK n \in DOMAIN hive[r] : hive[r][n] = k /\ Change(r, RemoveAt(hive[r], n))
  BY DEF Uninstall
<1> DEFINE keys == RemoveAt(hive[r], n)
<1>2. /\ EnumTypeOK /\ hive[r] \in Seq(Keys) /\ IsInjective(hive[r])
      /\ DOMAIN hive[r] = 1..Len(hive[r]) /\ Len(hive[r]) \in Nat
  BY LengthsFit DEF EnumInv, EnumTypeOK
<1>3. /\ keys \in Seq(Keys) /\ DOMAIN keys = 1..(Len(hive[r]) - 1) /\ IsInjective(keys)
      /\ \A p \in 1..(Len(hive[r]) - 1) : keys[p] = IF p < n THEN hive[r][p] ELSE hive[r][p + 1]
  BY <1>1, <1>2, RemovedAt, StaysInjective, LenProperties
<1>4. Change(r, keys)
  BY <1>1
<1> HIDE DEF keys
<1>5. stayed \in [Roots -> SUBSET Keys] /\ disturbed \subseteq Roots /\ broken \in BOOLEAN
  BY <1>2 DEF EnumTypeOK
<1>6. /\ stayed' = [stayed EXCEPT ![r] = @ \ {k}] /\ disturbed' = disturbed \cup {r}
      /\ broken' = broken
  BY DEF Uninstall, Lose
<1>9. stayed'[r] \subseteq ToSet(keys)
    <2>1. SUFFICES ASSUME NEW p \in 1..Len(hive[r]), p # n
                   PROVE  \E q \in DOMAIN keys : keys[q] = hive[r][p]
    BY <1>1, <1>2, <1>5, <1>6 DEF ToSet, EnumInv, StayedThere
    <2>2. CASE p < n
        <3>1. p \in DOMAIN keys /\ keys[p] = hive[r][p]
      BY <1>1, <1>2, <1>3, <2>2
        <3> QED BY <3>1
    <2>3. CASE p > n
        <3>1. p - 1 \in DOMAIN keys /\ keys[p - 1] = hive[r][p]
      BY <1>1, <1>2, <1>3, <2>3
        <3> QED BY <3>1
    <2> QED BY <1>1, <1>2, <2>1, <2>2, <2>3
<1> QED BY <1>3, <1>4, <1>5, <1>6, <1>9, ChangeKeeps

LEMMA RemoveRootKeeps == EnumInv /\ RemoveRoot => EnumInv'
<1> SUFFICES ASSUME EnumInv, RemoveRoot
             PROVE  EnumInv'
  OBVIOUS
<1> DEFINE keys == << >>
<1>1. keys \in Seq(Keys) /\ IsInjective(keys) /\ ToSet(keys) = {}
  BY DEF IsInjective, ToSet
<1>2. /\ i \in Roots /\ stayed \in [Roots -> SUBSET Keys] /\ disturbed \subseteq Roots /\ Scanning
      /\ Change(i, keys) /\ broken' = TRUE
      /\ stayed' = [stayed EXCEPT ![i] = @ \ Keys] /\ disturbed' = disturbed \cup {i}
  BY DEF RemoveRoot, Lose, EnumInv, EnumTypeOK, Scanning
<1> HIDE DEF keys
<1>3. /\ stayed' \in [Roots -> SUBSET Keys] /\ stayed'[i] = {}
      /\ \A q \in Roots : stayed'[q] \subseteq stayed[q]
  BY <1>2
<1> QED BY <1>1, <1>2, <1>3, ChangeKeeps

-----------------------------------------------------------------------------
(* The theorems.                                                              *)

LEMMA EnumInvStep == EnumInv /\ [EnumNext]_enumVars => EnumInv'
<1> SUFFICES ASSUME EnumInv, [EnumNext]_enumVars
             PROVE  EnumInv'
  OBVIOUS
<1>1. CASE EnumStep
  BY <1>1, OpenRootKeeps, EnumEndsKeeps, EnumSucceedsKeeps, EnumFailsKeeps, ItemSkippedKeeps,
     ItemReadKeeps, EnumFailedKeeps DEF EnumStep
<1>5. CASE RemoveRoot
  BY <1>5, RemoveRootKeeps
<1>2. CASE \E r \in Roots, k \in Keys : Uninstall(r, k)
  BY <1>2, UninstallKeeps
<1>3. CASE \E r \in Roots, k \in Keys : \E n \in 1..(Len(hive[r]) + 1) : Install(r, k, n)
  BY <1>3, InstallKeeps
<1>4. CASE UNCHANGED enumVars
    <2>1. /\ hive' = hive /\ readable' = readable /\ locked' = locked /\ removable' = removable
          /\ changes' = changes /\ stayed' = stayed /\ disturbed' = disturbed
      /\ broken' = broken /\ programList' = programList
          /\ i' = i /\ dwIndex' = dwIndex /\ szSubKeyName' = szSubKeyName /\ cbName' = cbName
          /\ pc' = pc
    BY <1>4 DEF enumVars, registry, loop
    <2>3. ScanSound'
    BY <2>1 DEF EnumInv, ScanSound, Scanning, Scan, RetriedIsLocked, Held, HeldAt, ListedBefore,
       Listed, Listable
    <2>4. changes' = 0 => Unchanged'
    BY <2>1 DEF EnumInv, Unchanged, PassedPrograms, Passed, Scanning, Held, Listable
    <2> QED
    BY <2>1, <2>3, <2>4 DEF EnumInv, EnumTypeOK, NameHeld, Held, Scanning, StayedThere, RootsRead,
       Listed, Listable
<1> QED BY <1>1, <1>2, <1>3, <1>4, <1>5 DEF EnumNext

\* The state of ReadInstalledSoftware and of the registry has its type, whatever
\* the installers do and the calls return.
THEOREM EnumTypeCorrect == EnumSpec => []EnumTypeOK
<1>1. EnumInv => EnumTypeOK
  BY DEF EnumInv
<1> QED BY <1>1, EnumInvInit, EnumInvStep, PTL DEF EnumSpec

LEMMA InvGivesNothingMissed == EnumInv => NothingMissed
<1> SUFFICES ASSUME EnumInv, pc = "done", NEW r \in Roots \ disturbed, NEW k \in stayed[r] \cap Listable(r)
             PROVE  programList[k] # 0
  BY DEF NothingMissed
<1> QED BY DEF EnumInv, RootsRead, Listed, EnumTypeOK

LEMMA InvGivesListExact == EnumInv => ListExact
<1> SUFFICES ASSUME EnumInv, pc = "done", changes = 0, NEW k \in Keys,
                    NEW in, in = {r \in Roots : k \in ToSet(hive[r]) \cap Listable(r)}
             PROVE  programList[k] = IF in = {} THEN 0 ELSE CHOOSE r \in in : \A q \in in : q <= r
  BY DEF ListExact
<1> USE DEF Roots
<1>1. in \subseteq {1, 2} /\ \A r \in {1, 2} : r \in in <=> k \in PassedPrograms(r)
  BY DEF PassedPrograms, Passed
<1>2. programList[k] = IF k \in PassedPrograms(2) THEN 2
                       ELSE IF k \in PassedPrograms(1) THEN 1 ELSE 0
  BY DEF EnumInv, Unchanged
<1>3. CASE 2 \in in
  BY <1>1, <1>2, <1>3
<1>4. CASE 2 \notin in /\ 1 \in in
  BY <1>1, <1>2, <1>4
<1>5. CASE in = {}
  BY <1>1, <1>2, <1>5
<1> QED BY <1>1, <1>3, <1>4, <1>5

\* When ReadInstalledSoftware returns, it has listed every removable program it
\* can read that was in a root throughout, if no key was removed from that root and
\* no call failed there but for a name too long for the buffer;
\* and of a registry nobody changed it has listed these programs and no others,
\* one that both roots have with the data of the machine's.
THEOREM EnumerationIsExact == EnumSpec => []EnumerationExact
<1>1. EnumInv => EnumerationExact
  BY InvGivesNothingMissed, InvGivesListExact DEF EnumerationExact
<1> QED BY <1>1, EnumInvInit, EnumInvStep, PTL DEF EnumSpec

-----------------------------------------------------------------------------
(* The listeners and the registrations.                                       *)

ApiTypes == ApiTypeOK /\ calls \in [Listeners -> Nat]

\* Which operation the holder of s_lock executes, and with what outcome so far.
LockStages ==
    lock # Free =>
        /\ lock.task.op # "failed"
        /\ lock.pc \in {"start", "register", "undo"} => lock.task.op = "open"
        /\ lock.pc \in {"start", "register"} => lock.error = "none"
        /\ lock.pc = "undo" => lock.error = "open"
        /\ lock.pc \in {"unregister", "leave"} => lock.task.op = "close"
        /\ lock.pc = "stop" /\ lock.task.op = "open" => lock.error = "open"

\* From start() to the end of register_listener, and from the end of
\* unregister_listener on, the count is one ahead of the open listeners.
Ahead == IF lock.pc \in {"start", "register", "undo", "leave"} THEN 1 ELSE 0
Counted ==
    /\ registrations = Cardinality(opened) + Ahead
    /\ lock.pc = "start" => registrations = 1
    /\ lock.pc = "stop" => registrations = 0
    /\ registrations # 0 => serverApi # "none"

Runs == (\A h \in Handle : handles[h] = "open") /\ receiving # "none"
Served ==
    serverApi = "default" =>
        /\ opened # {} \/ lock.pc = "register" => Runs
        /\ \A l \in opened : l \in registered /\ urls[Address[l]] = l

Owned ==
    /\ \A a \in Urls : urls[a] \in opened \cup {"free", "orphan"}
    /\ serverApi = "default" /\ lock.pc # "start" /\ (registrations # 0 \/ lock.pc = "stop") =>
          \A h \in Handle : handles[h] # "closed"

\* A listener whose user waits is in one task at a time, and the task finds it
\* as the user left it.
OneTask(l) ==
    /\ \A t, u \in pending : t.of = l /\ u.of = l => t = u
    /\ lock.task.of = l => \A t \in pending : t.of # l

Expected(l) ==
    /\ \A t \in pending : t.of = l =>
          IF t.op = "close" THEN closed[l] /\ l \in opened ELSE ~closed[l] /\ l \notin opened
    /\ lock.task.of = l =>
          /\ (closed[l] <=> lock.task.op = "close")
          /\ l \in opened <=>
                \/ lock.pc = "unregister"
                \/ lock.pc = "end" /\ lock.task.op = "open" /\ lock.error = "none"
    /\ Idle(l) => (closed[l] <=> l \notin opened)

Known == astray = "no" => \A l \in Patient : OneTask(l) /\ Expected(l)

ApiInv ==
    /\ ApiTypes /\ LockStages /\ Counted /\ Served /\ Owned
    /\ Known /\ astray \notin Patient
-----------------------------------------------------------------------------
(* The lock.                                                                  *)

Stages == {"start", "register", "undo", "unregister", "leave", "stop", "end"}

LEMMA LockFields ==
    ASSUME lock \in Lock
    PROVE  /\ lock.pc \in Stages \cup {"free"} /\ lock.error \in Error /\ lock.first \in Error
           /\ lock.pc = "free" <=> lock = Free
           /\ lock.pc = "free" => lock.task = NoTask
           /\ lock.pc # "free" =>
                 /\ lock.task \in Task /\ lock.task.of \in Listeners
                 /\ lock.task.op \in {"open", "close", "failed"}
  BY DEF Lock, Free, Stages, Error, Task

LEMMA GotoFields ==
    ASSUME lock \in Lock, lock.pc # "free",
           NEW stage \in Stages, NEW error \in Error, Goto(stage, error)
    PROVE  /\ lock' \in Lock /\ lock' # Free /\ lock'.pc = stage /\ lock'.error = error
           /\ lock'.task = lock.task /\ lock'.first = lock.first
<1>1. lock \in [pc : Stages, task : Task, error : Error, first : Error]
  BY DEF Lock, Free, Stages
<1> QED BY <1>1 DEF Lock, Free, Stages, Goto

LEMMA BeginFields ==
    ASSUME NEW t \in Task, NEW stage \in Stages, lock' = [Free EXCEPT !.task = t, !.pc = stage]
    PROVE  /\ lock' \in Lock /\ lock' # Free /\ lock'.pc = stage /\ lock'.task = t
           /\ lock'.error = "none" /\ lock'.first = "none"
  BY DEF Lock, Free, Stages, Error

\* The number of the open listeners, when one opens or closes.
LEMMA OpenedCount ==
    ASSUME opened \subseteq Listeners
    PROVE  /\ Cardinality(opened) \in 0..Cardinality(Listeners)
           /\ Cardinality(Listeners) \in Nat
           /\ Cardinality(opened) = 0 <=> opened = {}
           /\ \A l \in Listeners \ opened : Cardinality(opened \cup {l}) = Cardinality(opened) + 1
           /\ \A l \in opened : Cardinality(opened \ {l}) = Cardinality(opened) - 1
<1>2. IsFiniteSet(opened) /\ Cardinality(opened) <= Cardinality(Listeners)
  BY ServerApiAssumption, FS_Subset
<1>5. ASSUME NEW l \in Listeners \ opened
      PROVE  Cardinality(opened \cup {l}) = Cardinality(opened) + 1
  BY <1>2, FS_AddElement
<1>6. ASSUME NEW l \in opened
      PROVE  Cardinality(opened \ {l}) = Cardinality(opened) - 1
  BY <1>2, FS_RemoveElement
<1> QED BY <1>2, <1>5, <1>6, ServerApiAssumption, FS_EmptySet, FS_CardinalityType

-----------------------------------------------------------------------------
(* The steps.                                                                 *)

LEMMA OpenStep ==
    ASSUME ApiInv, NEW l \in Listeners, Open(l)
    PROVE  ApiInv'
<1> DEFINE t == [op |-> "open", of |-> l, call |-> calls[l] + 1]
<1>0. /\ t \in Task /\ calls[l] + 1 \in Nat
  BY DEF ApiInv, ApiTypes, Task
<1>1. ApiTypes'
  <2>1. calls' \in [Listeners -> Nat] /\ \A k \in Listeners : calls'[k] \in 0..MaxCalls[k]
    <3>2. /\ calls \in [Listeners -> Nat] /\ MaxCalls \in [Listeners -> Nat]
          /\ \A k \in Listeners : calls[k] \in 0..MaxCalls[k]
      BY ServerApiAssumption DEF ApiInv, ApiTypes, ApiTypeOK
    <3> QED BY <3>2 DEF Open, Call, MayCall
  <2> QED BY <1>0, <2>1 DEF ApiInv, ApiTypes, ApiTypeOK, windows, Open, Call
<1>3. Counted'
  BY DEF ApiInv, windows, user, Open, Call, Counted, Ahead
<1>4. Served'
  BY DEF ApiInv, windows, user, Open, Call, Served, Runs
<1>6. Known'
  <2> SUFFICES ASSUME astray = "no", NEW m \in Patient
               PROVE  OneTask(m)' /\ Expected(m)'
    BY DEF Known, Open, Call
  <2>1. OneTask(m) /\ Expected(m) /\ m \in Listeners
    BY ServerApiAssumption DEF ApiInv, Known
  <2>2. CASE m = l
    <3>1. Idle(m)
      BY <2>2 DEF Open, MayCall
    <3> QED
      BY <1>0, <2>1, <2>2, <3>1 DEF Idle, OneTask, Expected, Open, Call, ApiInv, ApiTypes,
         ApiTypeOK, LockStages
  <2>3. CASE m # l
    BY <1>0, <2>1, <2>3 DEF Idle, OneTask, Expected, Open, Call, ApiInv, ApiTypes, ApiTypeOK
  <2> QED BY <2>2, <2>3
<1> QED BY <1>1, <1>3, <1>4, <1>6 DEF ApiInv, windows, user, Open, Call, Known, LockStages, Owned

LEMMA CloseStep ==
    ASSUME ApiInv, NEW l \in Listeners, Close(l)
    PROVE  ApiInv'
<1> DEFINE t == [op |-> "close", of |-> l, call |-> calls[l] + 1]
<1>0. /\ t \in Task /\ calls[l] + 1 \in Nat
  BY DEF ApiInv, ApiTypes, Task
<1>1. ApiTypes'
  <2>1. calls' \in [Listeners -> Nat] /\ \A k \in Listeners : calls'[k] \in 0..MaxCalls[k]
    <3>2. /\ calls \in [Listeners -> Nat] /\ MaxCalls \in [Listeners -> Nat]
          /\ \A k \in Listeners : calls[k] \in 0..MaxCalls[k]
      BY ServerApiAssumption DEF ApiInv, ApiTypes, ApiTypeOK
    <3> QED BY <3>2 DEF Close, Call, MayCall
  <2> QED BY <1>0, <2>1 DEF ApiInv, ApiTypes, ApiTypeOK, windows, Close, Call
<1>3. Counted'
  BY DEF ApiInv, windows, user, Close, Call, Counted, Ahead
<1>4. Served'
  BY DEF ApiInv, windows, user, Close, Call, Served, Runs
<1>6. Known'
  <2> SUFFICES ASSUME astray = "no", NEW m \in Patient
               PROVE  OneTask(m)' /\ Expected(m)'
    BY DEF Known, Close, Call
  <2>1. OneTask(m) /\ Expected(m) /\ m \in Listeners
    BY ServerApiAssumption DEF ApiInv, Known
  <2>2. CASE m = l
    <3>1. Idle(m)
      BY <2>2 DEF Close, MayCall
    <3> QED
      BY <1>0, <2>1, <2>2, <3>1 DEF Idle, OneTask, Expected, Close, Call, ApiInv, ApiTypes,
         ApiTypeOK, LockStages
  <2>3. CASE m # l
    BY <1>0, <2>1, <2>3 DEF Idle, OneTask, Expected, Close, Call, ApiInv, ApiTypes, ApiTypeOK
  <2> QED BY <2>2, <2>3
<1> QED BY <1>1, <1>3, <1>4, <1>6 DEF ApiInv, windows, user, Close, Call, Known, LockStages, Owned

LEMMA OpenFailedStep ==
    ASSUME ApiInv, NEW t \in pending, OpenFailed(t)
    PROVE  ApiInv'
<1>1. ApiTypes'
  BY DEF ApiInv, ApiTypes, ApiTypeOK, Task, windows, OpenFailed
<1>4. Served'
  BY DEF ApiInv, windows, user, OpenFailed, Served, Runs
<1>6. Known'
  BY ServerApiAssumption DEF Idle, OneTask, Expected, OpenFailed, ApiInv, ApiTypes, ApiTypeOK,
     Task, Known
<1> QED
  BY <1>1, <1>4, <1>6 DEF ApiInv, windows, user, OpenFailed, Known, LockStages, Owned, Counted,
     Ahead

LEMMA BeginRegisterStep ==
    ASSUME ApiInv, NEW t \in pending, BeginRegister(t)
    PROVE  ApiInv'
<1>a. t \in Task /\ t.of \in Listeners /\ t.op = "open" /\ astray = "no"
  BY DEF ApiInv, ApiTypes, ApiTypeOK, Task, BeginRegister, At
<1>b. lock = Free /\ lock.pc = "free" /\ lock.task = NoTask
  BY LockFields DEF ApiInv, ApiTypes, ApiTypeOK, BeginRegister, At
<1>c. registrations = Cardinality(opened) /\ Cardinality(opened) \in 0..Cardinality(Listeners)
      /\ (registrations = 0 <=> opened = {}) /\ Cardinality(Listeners) \in Nat
  BY <1>b, OpenedCount DEF ApiInv, ApiTypes, ApiTypeOK, Counted, Ahead
<1>d. registrations' = registrations + 1
  BY DEF BeginRegister
<1>e. /\ lock'.pc = IF registrations = 0 THEN "start" ELSE "register"
      /\ lock' \in Lock /\ lock' # Free /\ lock'.task = t /\ lock'.error = "none"
  <2> DEFINE stage == IF registrations = 0 THEN "start" ELSE "register"
  <2>0. (IF registrations' = 1 THEN "start" ELSE "register") = stage
    BY <1>c, <1>d
  <2> HIDE DEF stage
  <2> QED BY <1>a, <2>0, BeginFields DEF stage, BeginRegister, Stages
<1>1. ApiTypes'
  BY <1>a, <1>c, <1>d, <1>e DEF ApiInv, ApiTypes, ApiTypeOK, Handle, HandleState, NoHandles,
     BeginRegister, NewServer, windows
<1>2. LockStages'
  BY <1>a, <1>e DEF LockStages
<1>3. Counted'
  BY <1>b, <1>c, <1>d, <1>e DEF ApiInv, Counted, Ahead, BeginRegister, NewServer, windows
<1>5. Owned'
  BY <1>b, <1>c, <1>d, <1>e DEF ApiInv, Owned, Counted, NoHandles, BeginRegister, NewServer,
     windows
<1>6. Known'
  <2> SUFFICES ASSUME astray = "no", NEW m \in Patient
               PROVE  OneTask(m)' /\ Expected(m)'
    BY DEF Known, BeginRegister
  <2>1. OneTask(m) /\ Expected(m) /\ m \in Listeners
    BY ServerApiAssumption DEF ApiInv, Known
  <2>2. /\ pending' = pending \ {t} /\ closed' = closed /\ opened' = opened
        /\ m # "none" /\ \A u \in pending : u \in Task
    BY <2>1, ServerApiAssumption DEF ApiInv, ApiTypes, ApiTypeOK, BeginRegister
  <2>4. CASE t.of = m
    BY <1>a, <1>e, <2>1, <2>2, <2>4 DEF OneTask, Expected, Idle
  <2>5. CASE t.of # m
    BY <1>b, <1>e, <2>1, <2>2, <2>5 DEF Expected, Idle, NoTask, OneTask
  <2> QED BY <1>e, <2>1, <2>2, <2>4, <2>5 DEF OneTask
<1> QED
  BY <1>b, <1>c, <1>e, <1>1, <1>2, <1>3, <1>5, <1>6 DEF ApiInv, windows, user, BeginRegister,
     Known, Served, Runs, Counted, NewServer

LEMMA BeginUnregisterStep ==
    ASSUME ApiInv, NEW t \in pending, BeginUnregister(t)
    PROVE  ApiInv'
<1>a. t \in Task /\ t.of \in Listeners /\ t.op = "close" /\ astray = "no"
  BY DEF ApiInv, ApiTypes, ApiTypeOK, Task, BeginUnregister, At
<1>b. lock = Free /\ lock.pc = "free" /\ lock.task = NoTask
  BY LockFields DEF ApiInv, ApiTypes, ApiTypeOK, BeginUnregister, At
<1>c. /\ lock' \in Lock /\ lock' # Free /\ lock'.pc = "unregister" /\ lock'.task = t
      /\ lock'.error = "none"
  BY <1>a, BeginFields DEF BeginUnregister, Stages
<1>2. LockStages'
  BY <1>a, <1>c DEF LockStages
<1>4. Served'
  BY <1>c DEF ApiInv, Served, Runs, BeginUnregister, windows
<1>5. Owned'
  BY <1>b, <1>c DEF ApiInv, Owned, BeginUnregister, windows
<1>6. Known'
  <2> SUFFICES ASSUME astray = "no", NEW m \in Patient
               PROVE  OneTask(m)' /\ Expected(m)'
    BY DEF Known, BeginUnregister
  <2>1. OneTask(m) /\ Expected(m) /\ m \in Listeners
    BY ServerApiAssumption DEF ApiInv, Known
  <2>2. /\ pending' = pending \ {t} /\ closed' = closed /\ opened' = opened
        /\ m # "none" /\ \A u \in pending : u \in Task
    BY <2>1, ServerApiAssumption DEF ApiInv, ApiTypes, ApiTypeOK, BeginUnregister
  <2>4. CASE t.of = m
    BY <1>a, <1>c, <2>1, <2>2, <2>4 DEF OneTask, Expected, Idle
  <2>5. CASE t.of # m
    BY <1>b, <1>c, <2>1, <2>2, <2>5 DEF Expected, Idle, NoTask, OneTask
  <2> QED BY <1>c, <2>1, <2>2, <2>4, <2>5 DEF OneTask
<1> QED
  BY <1>b, <1>c, <1>2, <1>4, <1>5, <1>6 DEF ApiInv, windows, user, BeginUnregister, Known,
     ApiTypes, ApiTypeOK, Counted, Ahead

LEMMA StartStep ==
    ASSUME ApiInv, Start
    PROVE  ApiInv'
<1>a. /\ lock \in Lock /\ lock # Free /\ lock.pc = "start" /\ astray = "no"
      /\ lock.task \in Task /\ lock.task.of \in Listeners
      /\ lock.task.op \in {"open", "close", "failed"} /\ lock.error \in Error
  BY LockFields DEF ApiInv, ApiTypes, ApiTypeOK, Start, At
<1>c. registrations = 1 /\ opened = {}
  BY <1>a, OpenedCount DEF ApiInv, Counted, Ahead, ApiTypes, ApiTypeOK
<1>d. PICK failing \in Handle \cup {"none"} :
        /\ IF serverApi = "custom" THEN UNCHANGED windows
           ELSE /\ handles' = StartedHandles(failing)
                /\ receiving' = IF failing = "none" THEN "running" ELSE receiving
                /\ UNCHANGED <<registered, urls>>
        /\ IF failing = "none" THEN Goto("register", "none") ELSE Goto("undo", "open")
  BY DEF Start
<1>e. /\ lock' \in Lock /\ lock' # Free /\ lock'.task = lock.task
      /\ lock'.pc = IF failing = "none" THEN "register" ELSE "undo"
      /\ lock'.error = IF failing = "none" THEN "none" ELSE "open"
  <2>1. CASE failing = "none"
    BY <1>a, <1>d, <2>1, GotoFields DEF Stages, Error
  <2>2. CASE failing # "none"
    BY <1>a, <1>d, <2>2, GotoFields DEF Stages, Error
  <2> QED BY <2>1, <2>2
<1>h. UNCHANGED <<user, serverApi, registrations, opened, astray>>
  BY DEF Start
<1>2. LockStages'
  BY <1>a, <1>e DEF ApiInv, LockStages
<1>3. Counted'
  BY <1>a, <1>c, <1>e, <1>h DEF ApiInv, Counted, Ahead
<1>4. Served'
  BY <1>c, <1>d, <1>e, <1>h DEF ApiInv, Served, Runs, windows, StartedHandles, Handle
<1>5. Owned'
  BY <1>d, <1>e, <1>h DEF ApiInv, Owned, windows, StartedHandles, NoHandles, Handle
<1>6. Known'
  BY <1>a, <1>e, <1>h, ServerApiAssumption DEF user, OneTask, Expected, Idle, ApiInv, Known
<1> QED
  BY <1>d, <1>e, <1>h, <1>2, <1>3, <1>4, <1>5, <1>6 DEF ApiInv, ApiTypes, ApiTypeOK, HandleState,
     windows, user, StartedHandles, NoHandles, Handle

LEMMA RegisterListenerStep ==
    ASSUME ApiInv, RegisterListener
    PROVE  ApiInv'
<1> DEFINE l == lock.task.of
<1>a. /\ lock \in Lock /\ lock # Free /\ lock.pc = "register" /\ astray = "no"
      /\ lock.task \in Task /\ l \in Listeners /\ lock.task.op = "open"
  BY LockFields DEF ApiInv, ApiTypes, ApiTypeOK, LockStages, RegisterListener, At
<1>b. /\ Cardinality(opened) \in 0..Cardinality(Listeners) /\ Cardinality(Listeners) \in Nat
      /\ (l \notin opened => Cardinality(opened \cup {l}) = Cardinality(opened) + 1)
      /\ (Cardinality(opened) = 0 <=> opened = {})
  BY <1>a, OpenedCount DEF ApiInv, ApiTypes, ApiTypeOK
<1>d. /\ UNCHANGED <<user, serverApi, registrations, handles, receiving, astray>>
      /\ registered \subseteq Listeners /\ opened \subseteq Listeners
      /\ Address[l] \in Urls
  BY <1>a DEF ApiInv, ApiTypes, ApiTypeOK, RegisterListener, Urls
<1>e. (Goto("undo", "open") =>
          /\ lock' \in Lock /\ lock' # Free /\ lock'.task = lock.task
          /\ lock'.pc = "undo" /\ lock'.error = "open")
      /\ (Goto("end", "none") =>
          /\ lock' \in Lock /\ lock' # Free /\ lock'.task = lock.task
          /\ lock'.pc = "end" /\ lock'.error = "none")
  BY <1>a, GotoFields DEF Stages, Error
<1> DEFINE Fails ==
             /\ Goto("undo", "open") /\ opened' = opened /\ urls' = urls
             /\ registered' \in {registered, registered \cup {l}}
           Succeeds ==
             /\ Goto("end", "none") /\ opened' = opened \cup {l} /\ l \notin opened
             /\ IF serverApi = "default"
                THEN /\ registered' = registered \cup {l}
                     /\ urls[Address[l]] = "free" /\ urls' = [urls EXCEPT ![Address[l]] = l]
                ELSE urls' = urls /\ registered' = registered
<1>f. Fails \/ Succeeds
  <2>1. CASE serverApi = "default" /\ RegisterFails(l, Address[l])
    BY <2>1 DEF RegisterFails
  <2>2. CASE serverApi = "default" /\ RegisterSucceeds(l, Address[l])
    BY <2>2 DEF RegisterSucceeds, ApiInv, Served
  <2>3. CASE serverApi # "default"
    BY <2>3 DEF RegisterListener
  <2> QED BY <2>1, <2>2, <2>3 DEF RegisterListener
<1>1. ApiTypes'
  <2>1. CASE Fails
    BY <1>a, <1>d, <1>e, <2>1 DEF ApiInv, ApiTypes, ApiTypeOK, user
  <2>2. CASE Succeeds
    BY <1>a, <1>d, <1>e, <2>2 DEF ApiInv, ApiTypes, ApiTypeOK, user
  <2> QED BY <1>f, <2>1, <2>2
<1>2. LockStages'
  BY <1>a, <1>e, <1>f DEF LockStages
<1>3. Counted'
  <2>1. CASE Fails
    BY <1>a, <1>b, <1>d, <1>e, <2>1 DEF ApiInv, Counted, Ahead, ApiTypes, ApiTypeOK
  <2>2. CASE Succeeds
    BY <1>a, <1>b, <1>d, <1>e, <2>2 DEF ApiInv, Counted, Ahead, ApiTypes, ApiTypeOK
  <2> QED BY <1>f, <2>1, <2>2
<1>4. Served'
  <2>1. CASE Fails
    BY <1>d, <1>e, <2>1 DEF ApiInv, Served, Runs
  <2>2. CASE Succeeds
    BY <1>a, <1>d, <1>e, <2>2, ServerApiAssumption DEF ApiInv, ApiTypes, ApiTypeOK, Served, Runs,
       Urls
  <2> QED BY <1>f, <2>1, <2>2
<1>5. Owned'
  <2>1. CASE Fails
    BY <1>a, <1>d, <1>e, <2>1 DEF ApiInv, Owned
  <2>2. CASE Succeeds
    BY <1>a, <1>d, <1>e, <2>2 DEF ApiInv, ApiTypes, ApiTypeOK, Owned
  <2> QED BY <1>f, <2>1, <2>2
<1>6. Known'
  <2> SUFFICES ASSUME astray = "no", NEW m \in Patient
               PROVE  OneTask(m)' /\ Expected(m)'
    BY <1>d DEF Known
  <2>1. OneTask(m) /\ Expected(m) /\ m \in Listeners
    BY ServerApiAssumption DEF ApiInv, Known
  <2>2. CASE Fails
    BY <1>a, <1>d, <1>e, <2>1, <2>2 DEF user, OneTask, Expected, Idle
  <2>3. CASE Succeeds
    BY <1>a, <1>d, <1>e, <2>1, <2>3 DEF user, OneTask, Expected, Idle
  <2> QED BY <1>f, <2>2, <2>3
<1> QED BY <1>d, <1>1, <1>2, <1>3, <1>4, <1>5, <1>6 DEF ApiInv

LEMMA UndoStep ==
    ASSUME ApiInv, Undo
    PROVE  ApiInv'
<1>a. /\ lock \in Lock /\ lock # Free /\ lock.pc = "undo" /\ astray = "no"
      /\ lock.task \in Task /\ lock.task.of \in Listeners
      /\ lock.task.op \in {"open", "close", "failed"} /\ lock.error \in Error
  BY LockFields DEF ApiInv, ApiTypes, ApiTypeOK, Undo, At
<1>b. /\ Cardinality(opened) \in 0..Cardinality(Listeners) /\ Cardinality(Listeners) \in Nat
      /\ (Cardinality(opened) = 0 <=> opened = {})
  BY OpenedCount DEF ApiInv, ApiTypes, ApiTypeOK
<1>c. registrations = Cardinality(opened) + 1 /\ registrations' = Cardinality(opened)
  BY <1>a, <1>b DEF ApiInv, Counted, Ahead, Undo
<1>d. UNCHANGED <<user, serverApi, windows, opened, astray>>
  BY DEF Undo
<1>e. /\ lock' \in Lock /\ lock' # Free /\ lock'.task = lock.task /\ lock'.error = lock.error
      /\ lock'.pc = IF registrations' = 0 THEN "stop" ELSE "end"
  BY <1>a, GotoFields DEF Undo, Stages
<1>3. Counted'
  BY <1>b, <1>c, <1>d, <1>e DEF ApiInv, Counted, Ahead
<1>6. Known'
  BY <1>a, <1>d, <1>e, ServerApiAssumption DEF user, OneTask, Expected, Idle, ApiInv, LockStages,
     Known
<1> QED
  BY <1>a, <1>b, <1>c, <1>d, <1>e, <1>3, <1>6 DEF ApiInv, Served, Runs, windows, LockStages,
     Owned, ApiTypes, ApiTypeOK, user

LEMMA LeaveStep ==
    ASSUME ApiInv, Leave
    PROVE  ApiInv'
<1>a. /\ lock \in Lock /\ lock # Free /\ lock.pc = "leave" /\ astray = "no"
      /\ lock.task \in Task /\ lock.task.of \in Listeners
      /\ lock.task.op \in {"open", "close", "failed"} /\ lock.error \in Error
  BY LockFields DEF ApiInv, ApiTypes, ApiTypeOK, Leave, At
<1>b. /\ Cardinality(opened) \in 0..Cardinality(Listeners) /\ Cardinality(Listeners) \in Nat
      /\ (Cardinality(opened) = 0 <=> opened = {})
  BY OpenedCount DEF ApiInv, ApiTypes, ApiTypeOK
<1>c. registrations = Cardinality(opened) + 1 /\ registrations' = Cardinality(opened)
  BY <1>a, <1>b DEF ApiInv, Counted, Ahead, Leave
<1>d. UNCHANGED <<user, serverApi, windows, opened, astray>>
  BY DEF Leave
<1>e. /\ lock' \in Lock /\ lock' # Free /\ lock'.task = lock.task /\ lock'.error = lock.error
      /\ lock'.pc = IF registrations' = 0 THEN "stop" ELSE "end"
  BY <1>a, GotoFields DEF Leave, Stages
<1>3. Counted'
  BY <1>b, <1>c, <1>d, <1>e DEF ApiInv, Counted, Ahead
<1>6. Known'
  BY <1>a, <1>d, <1>e, ServerApiAssumption DEF user, OneTask, Expected, Idle, ApiInv, LockStages,
     Known
<1> QED
  BY <1>a, <1>b, <1>c, <1>d, <1>e, <1>3, <1>6 DEF ApiInv, Served, Runs, windows, LockStages,
     Owned, ApiTypes, ApiTypeOK, user

LEMMA UnregisterListenerStep ==
    ASSUME ApiInv, UnregisterListener
    PROVE  ApiInv'
<1> DEFINE l == lock.task.of
<1>a. /\ lock \in Lock /\ lock # Free /\ lock.pc = "unregister" /\ astray = "no"
      /\ lock.task \in Task /\ l \in Listeners /\ lock.task.op = "close"
  BY LockFields DEF ApiInv, ApiTypes, ApiTypeOK, LockStages, UnregisterListener, At
<1>b. /\ Cardinality(opened) \in 0..Cardinality(Listeners) /\ Cardinality(Listeners) \in Nat
      /\ (l \in opened => Cardinality(opened \ {l}) = Cardinality(opened) - 1)
  BY <1>a, OpenedCount DEF ApiInv, ApiTypes, ApiTypeOK
<1>d. UNCHANGED <<user, serverApi, registrations, handles, receiving>>
  BY DEF UnregisterListener
<1> DEFINE Astray ==
             l \notin opened /\ astray' = l /\ UNCHANGED <<lock, registered, urls, opened>>
           Closes ==
             /\ l \in opened /\ opened' = opened \ {l} /\ registered' = registered \ {l}
             /\ urls' \in [Urls -> Listeners \cup {"free", "orphan"}]
             /\ \A a \in Urls : IF urls[a] = l THEN urls'[a] \in {"free", "orphan"}
                                ELSE urls'[a] = urls[a]
             /\ lock' \in Lock /\ lock' # Free /\ lock'.pc = "leave" /\ lock'.task = lock.task
             /\ UNCHANGED astray
<1>e. Astray \/ Closes
  <2>1. CASE l \notin opened
    BY <2>1 DEF UnregisterListener
  <2>2. CASE l \in opened
    <3>1. PICK e \in {"none", "unregister"} :
            /\ lock' = [lock EXCEPT !.pc = "leave", !.error = e, !.first = e]
            /\ urls' = [a \in Urls |->
                         IF urls[a] = l THEN IF e = "none" THEN "free" ELSE "orphan"
                         ELSE urls[a]]
      BY <2>2 DEF UnregisterListener
    <3> QED
      BY <1>a, <2>2, <3>1 DEF UnregisterListener, ApiInv, ApiTypes, ApiTypeOK, Lock, Stages, Free,
         Error
  <2> QED BY <2>1, <2>2
<1>1. ApiTypes'
  <2>1. CASE Astray
    BY <1>a, <1>d, <2>1 DEF ApiInv, ApiTypes, ApiTypeOK, user
  <2>2. CASE Closes
    BY <1>a, <1>d, <2>2 DEF ApiInv, ApiTypes, ApiTypeOK, user
  <2> QED BY <1>e, <2>1, <2>2
<1>3. Counted'
  <2>1. CASE Astray
    BY <1>d, <2>1 DEF ApiInv, Counted, Ahead
  <2>2. CASE Closes
    BY <1>a, <1>b, <1>d, <2>2 DEF ApiInv, Counted, Ahead
  <2> QED BY <1>e, <2>1, <2>2
<1>4. Served'
  <2>1. CASE Astray
    BY <1>d, <2>1 DEF ApiInv, Served, Runs
  <2>2. CASE Closes
    BY <1>a, <1>d, <2>2, ServerApiAssumption DEF ApiInv, ApiTypes, ApiTypeOK, Served, Runs, Urls
  <2> QED BY <1>e, <2>1, <2>2
<1>5. Owned'
  <2>1. CASE Astray
    BY <1>a, <1>d, <2>1 DEF ApiInv, Owned
  <2>2. CASE Closes
    BY <1>a, <1>d, <2>2 DEF ApiInv, Owned
  <2> QED BY <1>e, <2>1, <2>2
<1>6. Known'
  BY <1>a, <1>d, <1>e, ServerApiAssumption DEF OneTask, Expected, Idle, user, ApiInv, Known
<1>7. astray' \notin Patient
  <2>1. CASE Astray
    BY <1>a, <2>1 DEF Expected, ApiInv, Known
  <2>2. CASE Closes
    BY <2>2 DEF ApiInv
  <2> QED BY <1>e, <2>1, <2>2
<1> QED BY <1>a, <1>e, <1>1, <1>3, <1>4, <1>5, <1>6, <1>7 DEF ApiInv, LockStages

LEMMA StopStep ==
    ASSUME ApiInv, Stop
    PROVE  ApiInv'
<1>a. /\ lock \in Lock /\ lock # Free /\ lock.pc = "stop" /\ astray = "no"
      /\ lock.task \in Task /\ lock.task.of \in Listeners
      /\ lock.task.op \in {"open", "close", "failed"} /\ lock.error \in Error
  BY LockFields DEF ApiInv, ApiTypes, ApiTypeOK, Stop, At
<1>c. registrations = 0 /\ opened = {}
  BY <1>a, OpenedCount DEF ApiInv, Counted, Ahead, ApiTypes, ApiTypeOK
<1>d. UNCHANGED <<user, serverApi, registrations, opened, astray>>
  BY DEF Stop
<1>e. /\ lock' \in Lock /\ lock' # Free /\ lock'.task = lock.task /\ lock'.pc = "end"
      /\ lock.task.op = "open" => lock'.error = "open"
  <2>5. CASE Goto("end", Merged)
    BY <1>a, <2>5, GotoFields DEF ApiInv, LockStages, Merged, Error, Stages
  <2>6. CASE Goto("end", lock.error)
    BY <1>a, <2>6, GotoFields DEF ApiInv, LockStages, Merged, Stages
  <2> QED BY <2>5, <2>6 DEF Stop
<1>1. ApiTypes'
  BY <1>d, <1>e DEF ApiInv, ApiTypes, ApiTypeOK, user, Stop, Released, windows, HandleState
<1>4. Served'
  BY <1>c, <1>d, <1>e DEF Served
<1>5. Owned'
  BY <1>c, <1>d, <1>e DEF ApiInv, Owned, Stop, Released, windows, HandleState, ApiTypes, ApiTypeOK
<1> QED
  BY <1>a, <1>d, <1>e, <1>1, <1>4, <1>5, ServerApiAssumption DEF ApiInv, Counted, Ahead,
     LockStages, user, OneTask, Expected, Idle, Known

LEMMA EndStep ==
    ASSUME ApiInv, End
    PROVE  ApiInv'
<1>a. /\ lock \in Lock /\ lock # Free /\ lock.pc = "end" /\ astray = "no"
      /\ lock.task \in Task /\ lock.task.of \in Listeners
      /\ lock.task.op \in {"open", "close", "failed"} /\ lock.error \in Error
  BY LockFields DEF ApiInv, ApiTypes, ApiTypeOK, End, At
<1>b. lock' = Free /\ lock'.pc = "free" /\ lock'.task = NoTask
  BY DEF End, Free
<1>c. UNCHANGED <<closed, calls, serverApi, registrations, windows, opened, astray>>
  BY DEF End
<1> DEFINE failed == [lock.task EXCEPT !.op = "failed"]
<1>d. failed \in Task /\ failed.op = "failed" /\ failed.of = lock.task.of
  BY <1>a DEF Task
<1>e. pending' = IF lock.task.op = "open" /\ lock.error # "none"
                 THEN pending \cup {failed} ELSE pending
  BY DEF End
<1> HIDE DEF failed
<1>1. ApiTypes'
  BY <1>b, <1>c, <1>d, <1>e DEF ApiInv, ApiTypes, ApiTypeOK, windows, Lock
<1>6. Known'
  <2> SUFFICES ASSUME astray = "no", NEW m \in Patient
               PROVE  OneTask(m)' /\ Expected(m)'
    BY <1>c DEF Known
  <2>1. OneTask(m) /\ Expected(m) /\ m \in Listeners
    BY ServerApiAssumption DEF ApiInv, Known
  <2>2. lock'.task.of # m
    BY <1>b, <2>1, ServerApiAssumption DEF NoTask
  <2>3. CASE lock.task.of = m
    <3>3. CASE lock.task.op = "open" /\ lock.error # "none"
      BY <1>a, <1>c, <1>d, <1>e, <2>1, <2>2, <2>3, <3>3 DEF Expected, Idle, OneTask
    <3>4. CASE ~(lock.task.op = "open" /\ lock.error # "none")
      BY <1>a, <1>c, <1>e, <2>1, <2>2, <2>3, <3>4 DEF Expected, Idle, ApiInv, LockStages, OneTask
    <3> QED BY <3>3, <3>4
  <2>4. CASE lock.task.of # m
    BY <1>c, <1>d, <1>e, <2>1, <2>2, <2>4 DEF OneTask, Expected, Idle
  <2> QED BY <2>3, <2>4
<1> QED
  BY <1>a, <1>b, <1>c, <1>1, <1>6 DEF ApiInv, Counted, Ahead, Served, Runs, windows, Owned,
     LockStages

LEMMA RegisterServerApiStep ==
    ASSUME ApiInv, RegisterServerApi
    PROVE  ApiInv'
<1>a. lock.pc = "free" /\ registrations = 0 /\ UNCHANGED <<user, lock, registrations, opened, astray>>
  BY DEF RegisterServerApi, At
<1>1. ApiTypes'
  BY <1>a DEF ApiInv, ApiTypes, ApiTypeOK, NoHandles, Handle, HandleState, user,
     RegisterServerApi, NewServer
<1>6. Known'
  BY <1>a DEF ApiInv, Known, OneTask, Expected, Idle, user
<1> QED
  BY <1>a, <1>1, <1>6 DEF ApiInv, LockStages, Counted, Ahead, Owned, Served, RegisterServerApi,
     NewServer

LEMMA UnregisterServerApiStep ==
    ASSUME ApiInv, UnregisterServerApi
    PROVE  ApiInv'
<1>a. lock.pc = "free" /\ registrations = 0 /\ UNCHANGED <<user, lock, registrations, opened, astray>>
  BY DEF UnregisterServerApi, At
<1>1. ApiTypes'
  BY <1>a DEF ApiInv, ApiTypes, ApiTypeOK, NoHandles, Handle, HandleState, user,
     UnregisterServerApi, NewServer
<1>6. Known'
  BY <1>a DEF ApiInv, Known, OneTask, Expected, Idle, user
<1> QED
  BY <1>a, <1>1, <1>6 DEF ApiInv, LockStages, Counted, Ahead, Owned, Served, UnregisterServerApi,
     NewServer

LEMMA ReceivingEndsStep ==
    ASSUME ApiInv, ReceivingEnds
    PROVE  ApiInv'
<1>a. /\ receiving' \in {"ended", "thrown"} /\ receiving # "none"
      /\ UNCHANGED <<user, lock, serverApi, registrations, handles, registered, urls, opened, astray>>
  BY DEF ReceivingEnds
<1>4. Served'
  BY <1>a DEF ApiInv, Served, Runs
<1>6. Known'
  BY <1>a DEF ApiInv, Known, OneTask, Expected, Idle, user
<1> QED
  BY <1>a, <1>4, <1>6 DEF ApiInv, LockStages, ApiTypes, ApiTypeOK, user, Counted, Ahead, Owned

-----------------------------------------------------------------------------
(* The theorems.                                                              *)

LEMMA ApiInitInv == ApiInit => ApiInv
<1> SUFFICES ASSUME ApiInit PROVE ApiInv
  OBVIOUS
<1>1. ApiTypes
  BY OpenedCount, ServerApiAssumption DEF ApiInit, ApiTypes, ApiTypeOK, Lock, NoHandles, Handle,
     HandleState, Urls
<1>4. Known
  BY ServerApiAssumption DEF ApiInit, Known, OneTask, Expected, Free, NoTask
<1> QED
  BY <1>1, <1>4, FS_EmptySet, ServerApiAssumption DEF ApiInv, ApiInit, LockStages, Served, Owned,
     Free, Counted, Ahead

LEMMA ApiStepInv == ApiInv /\ [ApiNext]_apiVars => ApiInv'
<1> SUFFICES ASSUME ApiInv, [ApiNext]_apiVars PROVE ApiInv'
  OBVIOUS
<1>1. CASE UNCHANGED apiVars
  BY <1>1 DEF apiVars, user, windows, ApiInv, ApiTypes, ApiTypeOK, LockStages, Counted, Ahead,
     Served, Runs, Owned, Known, OneTask, Expected, Idle
<1>2. CASE ApiNext
  BY <1>2, OpenStep, CloseStep, OpenFailedStep, BeginRegisterStep, BeginUnregisterStep, StartStep,
     RegisterListenerStep, UndoStep, UnregisterListenerStep, LeaveStep, StopStep, EndStep,
     RegisterServerApiStep, UnregisterServerApiStep, ReceivingEndsStep DEF ApiNext
<1> QED BY <1>1, <1>2

LEMMA ApiInvariant == ApiSpec => []ApiInv
  BY ApiInitInv, ApiStepInv, PTL DEF ApiSpec

LEMMA ApiInvSound == ApiInv => RegistrationsSound
<1> SUFFICES ASSUME ApiInv PROVE RegistrationsSound
  OBVIOUS
<1>2. CountExact
  BY OpenedCount DEF ApiInv, Counted, Ahead, CountExact, ApiTypes, ApiTypeOK, Free
<1>5. FlagIsTrue
  BY DEF ApiInv, Known, Expected, FlagIsTrue
<1> QED
  BY <1>2, <1>5 DEF RegistrationsSound, ApiInv, Owned, ResourcesOwned, At, Served, Runs,
     OpenIsServed

\* Every variable of the listeners keeps its type; in particular, the count of
\* registrations never exceeds the number of listeners by more than one, and
\* never becomes negative (http_server_api.cpp).
THEOREM ApiTypesCorrect == ApiSpec => []ApiTypeOK
<1>1. ApiInv => ApiTypeOK
  BY DEF ApiInv, ApiTypes
<1> QED BY <1>1, ApiInvariant, PTL

\* Whatever calls to HTTP.sys fail, and in whatever order the tasks run: the
\* count is the number of open listeners, these own their URLs on a server whose
\* handles are open, no failed open() keeps a URL, stop() closes nothing twice,
\* and a user who waits for each task never unregisters what is not registered.
THEOREM RegistrationsAreSound == ApiSpec => []RegistrationsSound
  BY ApiInvariant, ApiInvSound, PTL

-----------------------------------------------------------------------------
(* The three components side by side: one of them moves and the others stand. *)

MonitoringInv == InvInv /\ EnumInv /\ ApiInv

LEMMA OneComponentSteps == [MCNext]_allVars => [Next]_vars /\ [EnumNext]_enumVars /\ [ApiNext]_apiVars
  BY DEF MCNext, allVars

LEMMA MonitoringInvInit == MCInit => MonitoringInv
  BY InitInv, EnumInvInit, ApiInitInv DEF MCInit, MonitoringInv

LEMMA MonitoringInvStep == MonitoringInv /\ [MCNext]_allVars => MonitoringInv'
<1> SUFFICES ASSUME MonitoringInv, [MCNext]_allVars PROVE MonitoringInv'
  OBVIOUS
<1> QED BY OneComponentSteps, NextInv, EnumInvStep, ApiStepInv DEF MonitoringInv

\* Every variable of the inventory, of the enumeration and of the listeners has
\* its type, whichever of them runs: an agent stays in its script, the index of
\* the enumeration within one of the number of keys, and the count of
\* registrations within one of the number of listeners
\* (IIS_Server.cpp, regenum.cpp, http_server_api.cpp).
THEOREM MonitoringTypes == MCSpec => []MonitoringTypeOK
<1>1. MonitoringInv => MonitoringTypeOK
  BY DEF MonitoringInv, MonitoringTypeOK, InvInv, EnumInv, ApiInv, ApiTypes
<1> QED BY <1>1, MonitoringInvInit, MonitoringInvStep, PTL DEF MCSpec
=============================================================================
