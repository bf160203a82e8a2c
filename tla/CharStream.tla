----------------------------- MODULE CharStream -----------------------------
(* What a stream buffer promises to the two ends of a message body, without  *)
(* blocks, locks, counters or wake-ups: the reads that complete receive the  *)
(* sent characters in order, each consuming read the ones no other read has  *)
(* consumed, and a read completes with fewer characters than it asked for    *)
(* only when the producer has flushed or has closed.                         *)
EXTENDS Integers, Sequences

CONSTANTS
    Readers,  \* the reads that can be outstanding together
    Counts    \* the counts they ask for

VARIABLES
    sent,     \* characters sent so far
    taken,    \* characters consumed so far
    flushed,  \* characters that may be delivered to a read that wants more
    open,     \* the producer has not closed the stream
    failed,   \* it has closed it with an exception
    queue,    \* the reads that wait, oldest first
    call      \* call[r]: what read r asked for, and what it got

svars == <<sent, taken, flushed, open, failed, queue, call>>

NoCall == [st |-> "none", consume |-> FALSE, count |-> 0, at |-> 0, len |-> 0]
Waiting(consume, n) ==
    [st |-> "waiting", consume |-> consume, count |-> n, at |-> 0, len |-> 0]
Answered(at, n) ==
    [st |-> "answered", consume |-> FALSE, count |-> 0, at |-> at, len |-> n]

Left == sent - taken
Ready(n) == Left >= n \/ flushed > 0 \/ ~open
Least(a, b) == IF a < b THEN a ELSE b

Init ==
    /\ sent = 0 /\ taken = 0 /\ flushed = 0
    /\ open = TRUE /\ failed = FALSE
    /\ queue = <<>>
    /\ call = [r \in Readers |-> NoCall]

Send == /\ open
        /\ sent' \in Nat /\ sent' >= sent
        /\ UNCHANGED <<taken, flushed, open, failed, queue, call>>

Flush == /\ open
         /\ flushed' = Left
         /\ UNCHANGED <<sent, taken, open, failed, queue, call>>

Close == /\ open
         /\ open' = FALSE
         /\ failed' \in BOOLEAN
         /\ UNCHANGED <<sent, taken, flushed, queue, call>>

Consume(n) ==
    /\ taken' = taken + n
    /\ flushed' = IF flushed > n THEN flushed - n ELSE 0

Deliver(r, consume, n) ==
    /\ Ready(n)
    /\ IF consume THEN Consume(Least(n, Left)) ELSE UNCHANGED <<taken, flushed>>
    /\ call' = [call EXCEPT ![r] = Answered(taken, Least(n, Left))]

\* A read is answered when it is made, if it can be; otherwise it waits.
Ask(r, consume, n) ==
    /\ call[r].st = "none"
    /\ \/ Deliver(r, consume, n) /\ UNCHANGED queue
       \/ /\ ~Ready(n)
          /\ queue' = Append(queue, r)
          /\ call' = [call EXCEPT ![r] = Waiting(consume, n)]
          /\ UNCHANGED <<taken, flushed>>
    /\ UNCHANGED <<sent, open, failed>>

\* The reads that wait are answered in the order in which they were made.
Reply ==
    /\ queue # <<>>
    /\ LET r == Head(queue) IN Deliver(r, call[r].consume, call[r].count)
    /\ queue' = Tail(queue)
    /\ UNCHANGED <<sent, open, failed>>

Finish(r) ==
    /\ call[r].st = "answered"
    /\ call' = [call EXCEPT ![r] = NoCall]
    /\ UNCHANGED <<sent, taken, flushed, open, failed, queue>>

\* A synchronous read, or the release of a block read in place.
Pull ==
    /\ \E n \in 0..Left : Consume(n)
    /\ UNCHANGED <<sent, open, failed, queue, call>>

Next ==
    \/ Send \/ Flush \/ Close \/ Reply \/ Pull
    \/ \E r \in Readers : Finish(r)
    \/ \E r \in Readers, consume \in BOOLEAN : \E n \in Counts : Ask(r, consume, n)

Spec == Init /\ [][Next]_svars
=============================================================================
