--------------------------- MODULE RequestService ---------------------------
(* What an HTTP listener promises about the requests it accepts, without      *)
(* callbacks, references or I/O: a request that was replied to is not let go  *)
(* before its response has been sent or the request aborted, nothing is sent  *)
(* that was not replied, and once the listener is closed its request handler  *)
(* does not run.                                                              *)
CONSTANT Requests

VARIABLES
    phase,    \* phase[q]: how far the request has come
    running,  \* the requests inside the request handler
    gate      \* whether the listener takes requests

svars == <<phase, running, gate>>

Phase == {"unseen", "open", "replied", "sent", "aborted", "released"}

Init ==
    /\ phase = [q \in Requests |-> "unseen"]
    /\ running = {}
    /\ gate = "open"

Move(q, from, to) ==
    /\ phase[q] \in from
    /\ phase' = [phase EXCEPT ![q] = to]
    /\ UNCHANGED <<running, gate>>

\* A request may be refused as it arrives: it is born replied, or aborted.
Receive(q) == \E p \in {"open", "replied", "aborted"} : Move(q, {"unseen"}, p)
Reply(q) == Move(q, {"open"}, "replied")
Send(q) == Move(q, {"replied"}, "sent")
Abort(q) == Move(q, {"open", "replied"}, "aborted")
\* An open request may be dropped when nobody will reply to it any more.
Release(q) ==
    /\ phase[q] = "open" => q \notin running
    /\ Move(q, {"open", "sent", "aborted"}, "released")

Enter(q) ==
    /\ gate = "open"
    /\ phase[q] \in {"open", "aborted"} /\ q \notin running
    /\ running' = running \cup {q}
    /\ UNCHANGED <<phase, gate>>

Leave(q) ==
    /\ q \in running
    /\ running' = running \ {q}
    /\ UNCHANGED <<phase, gate>>

Drain == gate = "open" /\ gate' = "draining" /\ UNCHANGED <<phase, running>>

Close ==
    /\ gate = "draining" /\ running = {}
    /\ gate' = "closed"
    /\ UNCHANGED <<phase, running>>

Next ==
    \/ \E q \in Requests :
        Receive(q) \/ Reply(q) \/ Send(q) \/ Abort(q) \/ Release(q) \/ Enter(q) \/ Leave(q)
    \/ Drain \/ Close

Spec == Init /\ [][Next]_svars
=============================================================================
