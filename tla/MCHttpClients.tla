---------------------------- MODULE MCHttpClients ----------------------------
(* The two clients side by side: the worlds of MCHttpClient, and small worlds  *)
(* of WinHttpClient.                                                           *)
EXTENDS MCHttpClient, WinHttpClient

VARIABLE which      \* the client that runs

allVars == <<which, vars, winVars>>

WinReply(challenge, length, encoding) ==
    [challenge |-> challenge, length |-> length, encoding |-> encoding]
Plain(length) == WinReply("none", length, "plain")
Challenge(who) == WinReply(who, 1, "plain")

\* Posts of a text, as the agent makes them.
Posting ==
    [order |-> FALSE, bodies |-> <<"sized", "none">>, start |-> 0, seekable |-> TRUE,
     buffer |-> FALSE, heads |-> {}, cancellable |-> {1}, credentials |-> FALSE,
     chunksize |-> FALSE, challenges |-> 0, replies |-> {Plain(0), Plain(1)}]
\* A server and a proxy that ask for credentials.
Authenticated ==
    [Posting EXCEPT !.order = TRUE, !.bodies = <<"sized", "chunked">>, !.credentials = TRUE,
                    !.challenges = 1,
                    !.replies = {Plain(0), Challenge("server"), Challenge("proxy")}]
\* The same with streams that cannot seek, from their beginning or later.
Buffered(start) ==
    [Authenticated EXCEPT !.bodies = <<"chunked", "sized">>, !.seekable = FALSE,
                          !.buffer = TRUE, !.start = start, !.cancellable = {}]
\* Responses of several chunks, compressed or not.
Responses(chunksize) ==
    [Posting EXCEPT !.order = TRUE, !.bodies = <<"none", "none">>, !.chunksize = chunksize,
                    !.heads = {2}, !.cancellable = {2},
                    !.replies = {Plain(n) : n \in 0..4}
                        \cup {WinReply("none", 4, e) : e \in {"packed", "unknown"}}]

MCWorlds ==
    {Posting, Authenticated, Buffered(0), Buffered(1), Responses(TRUE), Responses(FALSE)}

-----------------------------------------------------------------------------
MCInit ==
    /\ Init /\ WinInit
    /\ which \in {"asio", "WinHTTP"}
    /\ which = "asio" => world = Posting
    /\ which = "WinHTTP" => client = Together

MCNext ==
    \/ which = "asio" /\ Next /\ UNCHANGED <<which, winVars>>
    \/ which = "WinHTTP" /\ WinNext /\ UNCHANGED <<which, vars>>

\* The fairness of HttpClient; and WinHTTP and the streams complete what they began.
MCFairness ==
    /\ \A c \in Contexts :
        /\ WF_allVars(which = "asio" /\ ContextStep(c) /\ UNCHANGED <<which, winVars>>)
        /\ WF_allVars(which = "asio" /\ ctx[c].at \in Resolving /\ Complete(c)
                        /\ UNCHANGED <<which, winVars>>)
    /\ \A r \in WinRequests :
        WF_allVars(which = "WinHTTP" /\ WinStep(r) /\ UNCHANGED <<which, vars>>)
MCSpec == MCInit /\ [][MCNext]_allVars /\ MCFairness

\* Every variable has its type.
ClientsTypeOK == TypeOK /\ WinTypeOK

\* RequestsSound of HttpClient and WinRequestsSound: over either client, a request
\* is finished once, in order, with its whole body, and before its context goes,
\* with the exceptions stated there.
ExchangesSound == RequestsSound /\ WinRequestsSound

\* RequestsEnd and WinRequestsEnd: every request ends over either client, with
\* the fairness and the exceptions stated there.
ClientsEnd ==
    \A r \in Requests :
        (IF which = "asio" THEN issued >= r ELSE Issued(r))
            ~> (IF which = "asio" THEN Ended(r) ELSE Gone(r))
=============================================================================
