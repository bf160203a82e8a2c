------------------------------ MODULE Inventory ------------------------------
(* The software inventory itself: agents post the list of the programs that   *)
(* are installed on a computer (ResourceAgentDlg.cpp, regenum.cpp), the       *)
(* server keeps the last list of each computer (IIS_Server.cpp), and the      *)
(* administrator's page shows them (installed_software_layout.html).          *)
(*                                                                            *)
(* The listener runs each request handler on a thread of its own and nothing  *)
(* in the handlers is synchronised: every POST goes through the one           *)
(* json_buffer and every handler uses the one WorkgroupMap.  Where two        *)
(* threads are inside one of them together the code's behaviour is undefined; *)
(* here it is one of: nothing happens, the old or the new text is there, or a *)
(* mixture of reports, which may parse; the parser throws, an insertion is    *)
(* lost, the server dies.                                                     *)
EXTENDS Integers, Sequences, FiniteSets

CONSTANTS
    Agents,    \* computers that run the agent
    Names,     \* names (workgroup and computer) that reports are posted under
    Script,    \* Script[a]: the names one click of agent a's button posts
    MaxPosts,  \* bound: MaxPosts[a] is the number of posts of agent a
    Gets       \* bound: requests of the page that can be outstanding

ASSUME InventoryAssumption ==
    /\ Script \in [Agents -> Seq(Names)]
    /\ MaxPosts \in [Agents -> Nat]

VARIABLES
    server,  \* up, or dead
    buffer,  \* json_buffer
    map,     \* WorkgroupMap: the report stored for each name
    post,    \* post[p]: the p-th post of an agent, and its handler at the server
    agent,   \* agent[a]: the agent's thread, and the place in its script
    get,     \* get[g]: a request of the page
    page     \* what the page shows

vars == <<server, buffer, map, post, agent, get, page>>

-----------------------------------------------------------------------------
Posts == UNION {{a} \X (1..MaxPosts[a]) : a \in Agents}

\* A report is told apart by who made it; its list is never looked into.  One
\* that is not whole is a mixture, under any name, that the handler of the post
\* "by" made of the texts that it and others had under their hands.
Report == [name : Names, by : Posts, whole : BOOLEAN]
Empty == [name |-> "none", by |-> <<>>, whole |-> TRUE]
AnyReport == Report \cup {Empty}
Torn(p) == [name : Names, by : {p}, whole : {FALSE}]

\* Variants, here and below, are plausible mistakes in the definition that
\* follows them; PROJECT.json pairs each with the property that detects it.

\* pc: where the handler of the post is; lost: the post never arrived.
\* report: what was posted.  own: what its handler has read back from
\* json_buffer, and did not store yet.  status: 200 or 500, 0 when it has not
\* replied.  raced: it is inside json_buffer or the map together with another.
\* Only for the properties: turn, its place among the posts assigned to
\* json_buffer, and alone, that no other was between its assignment and its
\* reply meanwhile.
Post == [pc : {"none", "lost", "sent", "assigning", "parsing", "insert", "inserting", "reply", "done"},
         report : AnyReport, own : AnyReport, status : {0, 200, 500},
         alone : BOOLEAN, raced : BOOLEAN, turn : Nat]

NoPost == [pc |-> "none", report |-> Empty, own |-> Empty, status |-> 0,
           alone |-> TRUE, raced |-> FALSE, turn |-> 0]

Agent == [pc : {"idle", "ready", "waiting"}, at : Nat]
Page == [listed : SUBSET Names, selected : Names \cup {"all"}, table : AnyReport,
         orderly : BOOLEAN]  \* it never asked before the last answer was there

Get == [pc : {"none", "sent", "answered"}, name : Names \cup {"all"},
        list : SUBSET Names, report : AnyReport]
NoGet(name) == [pc |-> "none", name |-> name, list |-> {}, report |-> Empty]

Active(p) == post[p].pc \in {"assigning", "parsing", "insert", "inserting", "reply"}
In(pc) == {p \in Posts : post[p].pc = pc}
Turns == Cardinality({p \in Posts : post[p].turn > 0})
Posted(a) == Cardinality({i \in 1..MaxPosts[a] : post[<<a, i>>].pc # "none"})

NewPage == [listed |-> {}, selected |-> "all", table |-> Empty, orderly |-> TRUE]

\* What may become of the server when two threads use one object.
AfterRace(race) == server' \in IF race THEN {"up", "dead"} ELSE {"up"}

Init ==
    /\ server = "up"
    /\ buffer = Empty
    /\ map = [n \in Names |-> Empty]
    /\ post = [p \in Posts |-> NoPost]
    /\ agent = [a \in Agents |-> [pc |-> "idle", at |-> 0]]
    /\ get = [g \in Gets |-> NoGet("all")]
    /\ page = NewPage

-----------------------------------------------------------------------------
(* The agent: OnBnClickedPostResource, PostInstalledSoftwareList.             *)

Click(a) ==
    /\ agent[a].pc = "idle" /\ Script[a] # <<>>
    /\ Posted(a) + Len(Script[a]) <= MaxPosts[a]
    /\ agent' = [agent EXCEPT ![a] = [pc |-> "ready", at |-> 1]]
    /\ UNCHANGED <<server, buffer, map, post, get, page>>

\* Reads the list of installed programs and posts it.
SendPost(a, arrives) ==
    LET p == <<a, Posted(a) + 1>>
    IN  /\ agent[a].pc = "ready"
        /\ arrives => server = "up"
        /\ post' = [post EXCEPT ![p].pc = IF arrives THEN "sent" ELSE "lost",
                                ![p].report = [name |-> Script[a][agent[a].at], by |-> p,
                                               whole |-> TRUE]]
        /\ agent' = [agent EXCEPT ![a].pc = "waiting"]
        /\ UNCHANGED <<server, buffer, map, get, page>>

Latest(a) == <<a, Posted(a)>>

PostAnswered_OffByOne(a) ==
    /\ agent[a].pc = "waiting" /\ post[Latest(a)].pc = "done"
    /\ agent' = [agent EXCEPT ![a] =
                    IF @.at > Len(Script[a]) THEN [pc |-> "idle", at |-> 0]
                                             ELSE [pc |-> "ready", at |-> @.at + 1]]
    /\ UNCHANGED <<server, buffer, map, post, get, page>>

\* Any response will do, its status is not looked at; then the next post.
PostAnswered(a) ==
    /\ agent[a].pc = "waiting" /\ post[Latest(a)].pc = "done"
    /\ agent' = [agent EXCEPT ![a] =
                    IF @.at = Len(Script[a]) THEN [pc |-> "idle", at |-> 0]
                                             ELSE [pc |-> "ready", at |-> @.at + 1]]
    /\ UNCHANGED <<server, buffer, map, post, get, page>>

\* No connection, or no response in time: get() throws out of the button's
\* handler, and the rest of the script is skipped.
PostThrows(a) ==
    /\ agent[a].pc = "waiting"
    /\ agent' = [agent EXCEPT ![a] = [pc |-> "idle", at |-> 0]]
    /\ UNCHANGED <<server, buffer, map, post, get, page>>

-----------------------------------------------------------------------------
(* The POST handler of the server.                                            *)

Step(p, from) == server = "up" /\ post[p].pc = from

\* extract_string().get() throws; the server answers for the handler.
ExtractFails(p) ==
    /\ Step(p, "sent")
    /\ post' = [post EXCEPT ![p].pc = "done", ![p].status = 500]
    /\ UNCHANGED <<server, buffer, map, agent, get, page>>

\* The body has arrived and is move-assigned to json_buffer, until ParseBegin:
\* others may be at it too, and either text, or a mixture, is there afterwards;
\* and others may be reading the memory that is given back.
Assign(p) ==
    LET others == {q \in Posts \ {p} : Active(q)}
        rivals == In("assigning")
        race == rivals \cup In("parsing")
    IN  /\ Step(p, "sent")
        /\ buffer' \in {post[p].report}
                          \cup (IF rivals = {} THEN {} ELSE {buffer} \cup Torn(p))
        /\ post' = [q \in Posts |->
                      IF q = p THEN [post[p] EXCEPT !.pc = "assigning", !.turn = Turns + 1,
                                                    !.alone = (others = {}),
                                                    !.raced = (rivals # {})]
                      ELSE [post[q] EXCEPT !.alone = @ /\ q \notin others,
                                           !.raced = @ \/ q \in race]]
        /\ AfterRace(race # {} \/ ~buffer.whole)
        /\ UNCHANGED <<map, agent, get, page>>

\* Add(json_buffer): the buffer is parsed, not what was extracted.
ParseBegin(p) ==
    LET race == In("assigning") # {p}
    IN  /\ Step(p, "assigning")
        /\ post' = [post EXCEPT ![p].pc = "parsing", ![p].own = buffer, ![p].raced = race]
        /\ AfterRace(race \/ ~buffer.whole)
        /\ UNCHANGED <<buffer, map, agent, get, page>>

\* The parser reads the characters where they were when it began, whatever
\* becomes of that memory while it does.
ParseEnd(p) ==
    /\ Step(p, "parsing")
    /\ \E r \in {post[p].own} \cup (IF post[p].raced THEN {buffer} \cup Torn(p) ELSE {}) :
        post' = [post EXCEPT ![p].pc = "insert", ![p].own = r, ![p].raced = FALSE]
    /\ UNCHANGED <<server, buffer, map, agent, get, page>>

\* The text changed while it was read, or was a mixture, and does not parse.
ParseThrows(p) ==
    /\ Step(p, "parsing") /\ (post[p].raced \/ ~post[p].own.whole)
    /\ post' = [post EXCEPT ![p].pc = "done", ![p].status = 500,
                            ![p].own = Empty, ![p].raced = FALSE]
    /\ UNCHANGED <<server, buffer, map, agent, get, page>>

InsertBegin(p) ==
    LET race == In("inserting") # {}
    IN  /\ Step(p, "insert")
        /\ post' = [q \in Posts |->
                      IF q = p THEN [post[p] EXCEPT !.pc = "inserting", !.raced = race]
                      ELSE [post[q] EXCEPT !.raced = @ \/ post[q].pc = "inserting"]]
        /\ AfterRace(race)
        /\ UNCHANGED <<buffer, map, agent, get, page>>

Stored_UnderOwnName(p) == [map EXCEPT ![post[p].report.name] = post[p].own]
\* Both keys come from the text that was parsed.
Stored(p) == [map EXCEPT ![post[p].own.name] = post[p].own]

AfterInsert(p) == post' = [post EXCEPT ![p].pc = "reply", ![p].own = Empty, ![p].raced = FALSE]

InsertEnd_KeepsFirst(p) ==
    /\ Step(p, "inserting")
    /\ map' = IF map[post[p].own.name] = Empty THEN Stored(p) ELSE map
    /\ AfterInsert(p)
    /\ UNCHANGED <<server, buffer, agent, get, page>>

\* An insertion that raced with another may be lost.
InsertEnd(p) ==
    /\ Step(p, "inserting")
    /\ map' \in {Stored(p)} \cup (IF post[p].raced THEN {map} ELSE {})
    /\ AfterInsert(p)
    /\ UNCHANGED <<server, buffer, agent, get, page>>

ReplyOK(p) ==
    /\ Step(p, "reply")
    /\ post' = [post EXCEPT ![p].pc = "done", ![p].status = 200]
    /\ UNCHANGED <<server, buffer, map, agent, get, page>>

PostHandler(p) ==
    \/ ExtractFails(p) \/ Assign(p) \/ ParseBegin(p) \/ ParseEnd(p) \/ ParseThrows(p)
    \/ InsertBegin(p) \/ InsertEnd(p) \/ ReplyOK(p)

-----------------------------------------------------------------------------
(* The page and the GET handler.                                              *)

Ask(g, name) ==
    /\ get[g].pc = "none"
    /\ get' = [get EXCEPT ![g] = [NoGet(name) EXCEPT !.pc = "sent"]]
    /\ UNCHANGED <<server, buffer, map, post, agent>>

Unasked == \A g \in Gets : get[g].pc = "none"

\* The page is loaded, again: whatever it had asked is forgotten, and
\* $.GetGrpList asks for the computers.
LoadPage(g) ==
    /\ page' = NewPage
    /\ get' = [h \in Gets |-> IF h = g THEN [NoGet("all") EXCEPT !.pc = "sent"] ELSE NoGet("all")]
    /\ UNCHANGED <<server, buffer, map, post, agent>>

Select_KeepsTable(g, name) ==
    /\ name \in page.listed
    /\ Ask(g, name)
    /\ page' = [page EXCEPT !.selected = name, !.orderly = @ /\ Unasked]

\* $.GetSoftwareList
Select(g, name) ==
    /\ name \in page.listed
    /\ Ask(g, name)
    /\ page' = [page EXCEPT !.selected = name, !.table = Empty,
                            !.orderly = @ /\ Unasked]

\* GetComputerList() and GetSoftwareList() walk the map as it is.
ServeGet(g) ==
    /\ server = "up" /\ get[g].pc = "sent"
    /\ get' = [get EXCEPT ![g] =
                  IF @.name = "all"
                  THEN [@ EXCEPT !.pc = "answered", !.list = {n \in Names : map[n] # Empty}]
                  ELSE [@ EXCEPT !.pc = "answered", !.report = map[get[g].name]]]
    /\ AfterRace(In("inserting") # {})
    /\ UNCHANGED <<buffer, map, post, agent, page>>

ShowAnswer(g) ==
    /\ get[g].pc = "answered"
    /\ page' = IF get[g].name = "all"
               THEN [page EXCEPT !.listed = get[g].list, !.table = Empty]
               ELSE [page EXCEPT !.table = get[g].report]
    /\ get' = [get EXCEPT ![g] = NoGet("all")]
    /\ UNCHANGED <<server, buffer, map, post, agent>>

\* The error callbacks.
GetFails(g) ==
    /\ get[g].pc # "none"
    /\ page' = IF get[g].name = "all" THEN [page EXCEPT !.listed = {}]
                                      ELSE [page EXCEPT !.table = Empty]
    /\ get' = [get EXCEPT ![g] = NoGet("all")]
    /\ UNCHANGED <<server, buffer, map, post, agent>>

-----------------------------------------------------------------------------
AgentStep(a) == (\E arrives \in BOOLEAN : SendPost(a, arrives)) \/ PostAnswered(a) \/ PostThrows(a)

Next ==
    \/ \E a \in Agents : Click(a) \/ AgentStep(a)
    \/ \E p \in Posts : PostHandler(p)
    \/ \E g \in Gets :
        \/ LoadPage(g) \/ ServeGet(g) \/ ShowAnswer(g) \/ GetFails(g)
        \/ \E n \in Names : Select(g, n)

Spec == Init /\ [][Next]_vars

-----------------------------------------------------------------------------
(* Properties.                                                                *)

TypeOK ==
    /\ server \in {"up", "dead"}
    /\ buffer \in AnyReport
    /\ map \in [Names -> AnyReport]
    /\ post \in [Posts -> Post]
    /\ agent \in [Agents -> Agent]
    /\ \A a \in Agents : agent[a].at <= Len(Script[a])
    /\ get \in [Gets -> Get]
    /\ page \in Page

Turn(report) == post[report.by].turn

\* What is stored under a name is a report of that name, and it is the one that
\* an agent posted.  The exception is a mixture of reports, which only a post
\* can have stored, or left in json_buffer, whose handler overlapped another.
StoredIsGenuine ==
    \A n \in Names :
        map[n] # Empty => /\ map[n].name = n
                          /\ Turn(map[n]) > 0
                          /\ \/ map[n] = post[map[n].by].report
                             \/ ~map[n].whole /\ ~post[map[n].by].alone

\* The report of an acknowledged post, or one assigned after it, is the one the
\* server has for its name.
Kept(p) == LET r == map[post[p].report.name] IN r # Empty /\ Turn(r) >= post[p].turn

\* A post whose handler overlaps no other is kept once it is acknowledged, and
\* no earlier report, however late its handler, replaces it.
LonePostIsKept ==
    \A p \in Posts : post[p].status = 200 /\ post[p].alone => Kept(p)

\* The server has what agents posted, and loses no post it had for itself.
ReportsSound == StoredIsGenuine /\ LonePostIsKept

\* "Post installed software list to server(agent)", IIS_Server.cpp:37: a post
\* that is answered with OK is kept.
AcknowledgedPostIsKept ==
    \A p \in Posts : post[p].status = 200 => Kept(p)

\* While the administrator waits for each answer the table shows the programs
\* of the computer that is selected, and never what was not posted before.
TableMatchesSelection ==
    page.table # Empty =>
        /\ Turn(page.table) > 0
        /\ page.orderly => page.table.name = page.selected
=============================================================================
