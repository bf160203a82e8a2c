----------------------- MODULE ProducerConsumerBuffer -----------------------
(* The in-memory stream of the SDK: basic_producer_consumer_buffer            *)
(* (producerconsumerstream.h) together with the half of its behaviour it      *)
(* inherits from streambuf_state_manager (astreambuf.h).  Every message body  *)
(* the server and the client exchange passes through one of these.            *)
(*                                                                            *)
(* One producer thread writes, flushes and closes; a consumer issues reads,   *)
(* one at a time or (when ~serial) several overlapping ones; the continuation *)
(* of a read runs on a scheduler thread of its own.  m_lock is held by the    *)
(* producer while writer.pc = "fulfil"; every other critical section of the   *)
(* code is one step here.  The stream flags are read and written outside the  *)
(* lock, as in the code.                                                      *)
(*                                                                            *)
(* Characters are the positions 0, 1, 2, ... of the stream: a block is the    *)
(* record of the positions [rd, wr) it still holds and of the position lim at *)
(* which its storage ends (m_read, m_pos and m_size shifted by the position   *)
(* of its first character).                                                   *)
EXTENDS Integers, Sequences

CONSTANTS
    Readers,     \* read calls that can be outstanding together
    AllocSize,   \* m_alloc_size, the default size of a block
    MaxCount,    \* bound: largest count passed to one call
    MaxWritten,  \* bound: characters written over the stream's life
    MaxBlocks,   \* bound: blocks in the queue when alloc() is called
    AsyncReads,  \* asynchronous read operations the consumer uses
    SyncReads    \* synchronous ones

ASSUME BufferAssumption ==
    /\ AllocSize \in Nat
    /\ MaxCount \in Nat \ {0}
    /\ MaxWritten \in Nat
    /\ MaxBlocks \in Nat
    /\ AsyncReads \subseteq {"take", "peek", "next"}
    /\ SyncReads \subseteq {"take", "peek", "copy"}

VARIABLES
    canRead,       \* m_stream_can_read
    canWrite,      \* m_stream_can_write
    eof,           \* m_stream_read_eof
    exc,           \* m_currentException is set
    blocks,        \* m_blocks
    total,         \* m_total
    totalRead,     \* m_total_read
    totalWritten,  \* m_total_written
    synced,        \* m_synced
    requests,      \* m_requests: the parked readers, oldest first
    allocBlock,    \* m_alloced and m_allocBlock: size of the allocated block
    writer,        \* the producer's program point
    op,            \* op[r]: the state of the read call r
    held,          \* size of the block the consumer has acquired, -1: none
    serial         \* the consumer awaits each read before it issues the next

flags == <<canRead, canWrite, eof, exc>>
data == <<blocks, total, totalRead, totalWritten, synced>>
vars == <<flags, data, requests, allocBlock, writer, op, held, serial>>

-----------------------------------------------------------------------------
Block == [rd : Nat, wr : Nat, lim : Nat]

\* kind: take (getn, bumpc, sbumpc), peek (getc, sgetc), next (nextc), copy
\* (scopy).  st: idle, parked (in m_requests), done (answered with the len
\* characters from position at, its continuation still to run), tested (the
\* continuation has stored the eof flag), checked (a synchronous read past its
\* unlocked tests), ended and returning (the same, unlocked again, about to
\* store that it has, and that it has not, seen the end).
Op == [st : {"idle", "parked", "done", "tested", "checked", "ended", "returning"},
       kind : {"none", "take", "peek", "next", "copy"},
       count : Nat, at : Nat, len : Nat]

Writer == [pc : {"idle", "put", "fulfil", "after", "flag", "closing", "closed"},
           n : Nat,
           next : {"idle", "after", "closed"}]

Call(st, kind, n) == [st |-> st, kind |-> kind, count |-> n, at |-> 0, len |-> 0]
Idle == Call("idle", "none", 0)

WriterAt(pc, n, next) == [pc |-> pc, n |-> n, next |-> next]

Unlocked == writer.pc # "fulfil"

Smaller(a, b) == IF a < b THEN a ELSE b
Larger(a, b) == IF a < b THEN b ELSE a

Front == blocks[1]
Back == blocks[Len(blocks)]

\* Variants, here and below, are plausible mistakes in the definition that
\* follows them; PROJECT.json pairs each with the property that detects it.
CanSatisfy_AnyData(count) == synced > 0 \/ total > 0 \/ ~canWrite

CanSatisfy(count) == synced > 0 \/ total >= count \/ ~canWrite

\* What the loop of read() over the blocks copies.
Readable == IF blocks = <<>> THEN 0 ELSE Back.wr - Front.rd
ReadLen_Unclamped(count) == count
ReadLen(count) == Smaller(count, Readable)

Advances(kind) == kind \in {"take", "next"}

FirstKept_KeepsExhausted(k, target) ==
    /\ \A i \in 1..(k - 1) : blocks[i].wr < target
    /\ k <= Len(blocks) => blocks[k].wr >= target
\* Block k is the first with anything left to read beyond position target;
\* the blocks before it are released.
FirstKept(k, target) ==
    /\ \A i \in 1..(k - 1) : blocks[i].wr <= target
    /\ k <= Len(blocks) => blocks[k].wr > target

\* The queue from block k on, with the read head at position target.
BlocksFrom(k, target) ==
    [i \in 1..(Len(blocks) + 1 - k) |->
        IF i = 1 THEN [rd |-> target, wr |-> blocks[k].wr, lim |-> blocks[k].lim]
                 ELSE blocks[i + k - 1]]

UpdateReadHead_KeepsSynced(count) ==
    /\ total' = total - count
    /\ totalRead' = totalRead + count
    /\ \E k \in 1..(Len(blocks) + 1) :
        /\ FirstKept(k, totalRead + count)
        /\ blocks' = BlocksFrom(k, totalRead + count)
    /\ UNCHANGED <<synced, totalWritten>>

UpdateReadHead(count) ==
    /\ total' = total - count
    /\ totalRead' = totalRead + count
    /\ synced' = IF synced > count THEN synced - count ELSE 0
    /\ \E k \in 1..(Len(blocks) + 1) :
        /\ FirstKept(k, totalRead + count)
        /\ blocks' = BlocksFrom(k, totalRead + count)
    /\ UNCHANGED totalWritten

\* Runs the read of request o under the lock.  nextc reads one
\* character and then peeks at another without asking whether there is one.
ReadStep(o) ==
    IF Advances(o.kind) THEN UpdateReadHead(ReadLen(o.count)) ELSE UNCHANGED data

Answer(o) ==
    LET skip == IF o.kind = "next" THEN ReadLen(1) ELSE 0
    IN  [st |-> "done", kind |-> "none", count |-> 0,
         at |-> totalRead + skip, len |-> Smaller(o.count, Readable - skip)]

-----------------------------------------------------------------------------
Init ==
    /\ canRead = TRUE /\ canWrite = TRUE /\ eof = FALSE /\ exc = FALSE
    /\ blocks = <<>>
    /\ total = 0 /\ totalRead = 0 /\ totalWritten = 0 /\ synced = 0
    /\ requests = <<>>
    /\ allocBlock = 0
    /\ writer = WriterAt("idle", 0, "idle")
    /\ op = [r \in Readers |-> Idle]
    /\ held = -1
    /\ serial \in BOOLEAN

-----------------------------------------------------------------------------
(* The producer.  A write, a flush or a close after the close changes no      *)
(* state, so every action asks for canWrite; commit() does not test it, but   *)
(* its callers commit before they close.                                      *)

\* putc, putn: the tests made before the lock is taken.  When nobody can read
\* the characters are dropped and the call still reports them as written.
PutBegin(n) ==
    /\ writer.pc = "idle" /\ canWrite
    /\ totalWritten + n <= MaxWritten
    /\ writer' = IF canRead THEN WriterAt("put", n, "idle")
                            ELSE WriterAt("after", 0, "idle")
    /\ UNCHANGED <<flags, data, requests, allocBlock, op, held, serial>>

UpdateWriteHead(n) ==
    /\ total' = total + n
    /\ totalWritten' = totalWritten + n
    /\ UNCHANGED <<totalRead, synced>>

\* write(): the characters go to the last block, or to a new one.
PutLocked ==
    LET n == writer.n
    IN  /\ writer.pc = "put"
        /\ blocks' = IF blocks = <<>> \/ Back.lim - Back.wr < n
                     THEN Append(blocks, [rd |-> totalWritten,
                                          wr |-> totalWritten + n,
                                          lim |-> totalWritten + Larger(AllocSize, n)])
                     ELSE [blocks EXCEPT ![Len(blocks)].wr = @ + n]
        /\ UpdateWriteHead(n)
        /\ writer' = WriterAt("fulfil", 0, "after")
        /\ UNCHANGED <<flags, requests, allocBlock, op, held, serial>>

\* One iteration of fulfill_outstanding().
Fulfil ==
    /\ writer.pc = "fulfil"
    /\ requests # <<>>
    /\ LET r == Head(requests)
       IN  /\ CanSatisfy(op[r].count)
           /\ ReadStep(op[r])
           /\ op' = [op EXCEPT ![r] = Answer(@)]
    /\ requests' = Tail(requests)
    /\ UNCHANGED <<flags, allocBlock, writer, held, serial>>

\* The loop ends and the lock is released.
FulfilEnd ==
    /\ writer.pc = "fulfil"
    /\ requests # <<>> => ~CanSatisfy(op[Head(requests)].count)
    /\ writer' = WriterAt(writer.next, 0, "idle")
    /\ UNCHANGED <<flags, data, requests, allocBlock, op, held, serial>>

\* The inline continuation of putc, putn and sync: no end of file for a write.
PutEnd ==
    /\ writer.pc = "after"
    /\ eof' = FALSE
    /\ writer' = WriterAt("idle", 0, "idle")
    /\ UNCHANGED <<canRead, canWrite, exc, data, requests, allocBlock, op, held, serial>>

Alloc(n) ==
    /\ writer.pc = "idle" /\ canWrite
    /\ allocBlock = 0
    /\ totalWritten + n <= MaxWritten /\ Len(blocks) < MaxBlocks
    /\ allocBlock' = n
    /\ UNCHANGED <<flags, data, requests, writer, op, held, serial>>

Commit_AtFront(n) ==
    /\ writer.pc = "idle" /\ canWrite
    /\ allocBlock # 0 /\ n <= allocBlock
    /\ totalWritten + n <= MaxWritten
    /\ blocks' = <<[rd |-> totalWritten,
                    wr |-> totalWritten + n,
                    lim |-> totalWritten + allocBlock]>> \o blocks
    /\ UpdateWriteHead(n)
    /\ allocBlock' = 0
    /\ writer' = WriterAt("fulfil", 0, "idle")
    /\ UNCHANGED <<flags, requests, op, held, serial>>

\* Any part of the block may be committed, none of it included.
Commit(n) ==
    /\ writer.pc = "idle" /\ canWrite
    /\ allocBlock # 0 /\ n <= allocBlock
    /\ totalWritten + n <= MaxWritten
    /\ blocks' = Append(blocks, [rd |-> totalWritten,
                                 wr |-> totalWritten + n,
                                 lim |-> totalWritten + allocBlock])
    /\ UpdateWriteHead(n)
    /\ allocBlock' = 0
    /\ writer' = WriterAt("fulfil", 0, "idle")
    /\ UNCHANGED <<flags, requests, op, held, serial>>

Sync ==
    /\ writer.pc = "idle" /\ canWrite
    /\ synced' = total
    /\ writer' = WriterAt("fulfil", 0, "after")
    /\ UNCHANGED <<flags, blocks, total, totalRead, totalWritten, requests,
                   allocBlock, op, held, serial>>

\* close(out) and close(out, eptr): the exception is stored first, ...
CloseBegin(withException) ==
    /\ writer.pc = "idle" /\ canWrite
    /\ exc' = (exc \/ withException)
    /\ writer' = WriterAt("flag", 0, "idle")
    /\ UNCHANGED <<canRead, canWrite, eof, data, requests, allocBlock, op, held, serial>>

\* ... the flag is cleared before the lock is taken, ...
CloseFlag ==
    /\ writer.pc = "flag"
    /\ canWrite' = FALSE
    /\ writer' = WriterAt("closing", 0, "idle")
    /\ UNCHANGED <<canRead, eof, exc, data, requests, allocBlock, op, held, serial>>

CloseLocked_NoFlush ==
    /\ writer.pc = "closing"
    /\ writer' = WriterAt("closed", 0, "idle")
    /\ UNCHANGED <<flags, data, requests, allocBlock, op, held, serial>>

\* ... and the parked requests are flushed under it.
CloseLocked ==
    /\ writer.pc = "closing"
    /\ writer' = WriterAt("fulfil", 0, "closed")
    /\ UNCHANGED <<flags, data, requests, allocBlock, op, held, serial>>

Producer ==
    \/ \E n \in 1..MaxCount : PutBegin(n) \/ Alloc(n)
    \/ \E n \in 0..MaxCount : Commit(n)
    \/ \E e \in BOOLEAN : CloseBegin(e)
    \/ PutLocked \/ Fulfil \/ FulfilEnd \/ PutEnd \/ Sync \/ CloseFlag \/ CloseLocked

-----------------------------------------------------------------------------
(* The consumer.  A read after close(in), and a synchronous one after a close *)
(* with an exception, changes no state.                                       *)

MayStart(r) ==
    /\ op[r].st = "idle"
    /\ held = -1
    /\ serial => \A q \in Readers : op[q].st = "idle"

\* enqueue_request(): answered at once, even ahead of requests that are
\* parked, or parked.
StartAsync(r, kind, n) ==
    LET o == Call("parked", kind, n)
    IN  /\ MayStart(r) /\ canRead /\ Unlocked
        /\ IF CanSatisfy(n)
           THEN /\ ReadStep(o)
                /\ op' = [op EXCEPT ![r] = Answer(o)]
                /\ UNCHANGED requests
           ELSE /\ op' = [op EXCEPT ![r] = o]
                /\ requests' = Append(requests, r)
                /\ UNCHANGED data
        /\ UNCHANGED <<flags, allocBlock, writer, held, serial>>

\* The continuation stores the flag all reads share ...
SetEof(r) ==
    /\ op[r].st = "done"
    /\ eof' = (op[r].len = 0)
    /\ op' = [op EXCEPT ![r].st = "tested"]
    /\ UNCHANGED <<canRead, canWrite, exc, data, requests, allocBlock, writer, held, serial>>

Outcome_AnyException(r) ==
    IF exc THEN "error" ELSE IF op[r].len = 0 THEN "eof" ELSE "data"

\* ... and then tests that flag, not its own result.
Outcome(r) ==
    IF eof /\ exc THEN "error" ELSE IF op[r].len = 0 THEN "eof" ELSE "data"

\* The task of the read completes with Outcome(r).
CheckEof(r) ==
    /\ op[r].st = "tested"
    /\ op' = [op EXCEPT ![r] = Idle]
    /\ UNCHANGED <<flags, data, requests, allocBlock, writer, held, serial>>

\* sbumpc, sgetc, scopy: the exception and the flag are tested unlocked.
SyncCheck(r, kind, n) ==
    /\ MayStart(r) /\ canRead /\ ~exc
    /\ op' = [op EXCEPT ![r] = Call("checked", kind, n)]
    /\ UNCHANGED <<flags, data, requests, allocBlock, writer, held, serial>>

SyncRead(r) ==
    LET o == op[r]
    IN  /\ o.st = "checked" /\ Unlocked
        /\ IF CanSatisfy(o.count) THEN ReadStep(o) ELSE UNCHANGED data
        /\ op' = [op EXCEPT ![r] =
                    IF o.kind = "copy" THEN Idle
                    ELSE IF CanSatisfy(o.count) /\ ReadLen(o.count) = 0
                    THEN Call("ended", "none", 0)
                    ELSE Call("returning", "none", 0)]
        /\ UNCHANGED <<flags, requests, allocBlock, writer, held, serial>>

\* check_sync_read_eof()
SyncReturn(r) ==
    /\ op[r].st \in {"ended", "returning"}
    /\ eof' = (op[r].st = "ended")
    /\ op' = [op EXCEPT ![r] = Idle]
    /\ UNCHANGED <<canRead, canWrite, exc, data, requests, allocBlock, writer, held, serial>>

\* acquire() hands out the front block in place; the consumer issues no other
\* read until it has released it.
Acquire ==
    /\ canRead /\ Unlocked
    /\ held = -1 /\ \A r \in Readers : op[r].st = "idle"
    /\ blocks # <<>>
    /\ held' = Front.wr - Front.rd
    /\ UNCHANGED <<flags, data, requests, allocBlock, writer, op, serial>>

Release(n) ==
    /\ held # -1 /\ n <= held /\ Unlocked
    /\ UpdateReadHead(n)
    /\ held' = -1
    /\ UNCHANGED <<flags, requests, allocBlock, writer, op, serial>>

\* close(in)
CloseRead ==
    /\ canRead /\ held = -1
    /\ canRead' = FALSE
    /\ UNCHANGED <<canWrite, eof, exc, data, requests, allocBlock, writer, op, held, serial>>

Sizes(kind) ==
    CASE kind = "take" -> 1..MaxCount
      [] kind = "copy" -> 1..MaxCount
      [] OTHER -> {1}

Continuation(r) == SetEof(r) \/ CheckEof(r) \/ SyncRead(r) \/ SyncReturn(r)

Consumer ==
    \/ \E r \in Readers :
        \/ \E kind \in AsyncReads : \E n \in Sizes(kind) : StartAsync(r, kind, n)
        \/ \E kind \in SyncReads : \E n \in Sizes(kind) : SyncCheck(r, kind, n)
        \/ Continuation(r)
    \/ Acquire \/ CloseRead
    \/ \E n \in 0..MaxCount : Release(n)

Next == Producer \/ Consumer

\* A call that has begun goes on to its end: the producer's thread keeps
\* running and the scheduler runs every continuation.
WriterStep == PutLocked \/ Fulfil \/ FulfilEnd \/ PutEnd \/ CloseFlag \/ CloseLocked

Fairness ==
    /\ WF_vars(WriterStep)
    /\ \A r \in Readers : WF_vars(Continuation(r))

Spec == Init /\ [][Next]_vars
FairSpec == Spec /\ Fairness

-----------------------------------------------------------------------------
(* Properties.                                                                *)

TypeOK ==
    /\ canRead \in BOOLEAN /\ canWrite \in BOOLEAN
    /\ eof \in BOOLEAN /\ exc \in BOOLEAN
    /\ blocks \in Seq(Block)
    /\ total \in Nat /\ totalRead \in Nat /\ totalWritten \in Nat /\ synced \in Nat
    /\ requests \in Seq(Readers)
    /\ allocBlock \in Nat
    /\ writer \in Writer
    /\ op \in [Readers -> Op]
    /\ held \in Nat \cup {-1}
    /\ serial \in BOOLEAN

\* The queue of blocks is one run of consecutive positions, from the read head
\* to the write head.
BlocksContiguous ==
    /\ \A i \in 1..Len(blocks) : /\ blocks[i].rd <= blocks[i].wr
                                 /\ blocks[i].wr <= blocks[i].lim
    /\ \A i \in 1..(Len(blocks) - 1) : blocks[i + 1].rd = blocks[i].wr
    /\ blocks # <<>> => Front.rd = totalRead /\ Back.wr = totalWritten
    /\ blocks = <<>> => totalRead = totalWritten

\* The counters the reads are admitted by (in_avail() is m_total) agree with
\* what the blocks hold, although each call updates them piecemeal, and no
\* more is marked as flushed than is there.
CountersAgree ==
    /\ BlocksContiguous
    /\ total = totalWritten - totalRead
    /\ synced <= total

\* When nobody holds the lock the oldest parked read really has to wait: no
\* wake-up is lost, whichever of write, commit, flush and close raced with the
\* read that parked.  The one exception is a producer between clearing the
\* flag and taking the lock, which is on its way to flush the queue.
NoLostWakeup ==
    writer.pc \notin {"fulfil", "closing"} /\ requests # <<>> =>
        ~CanSatisfy(op[Head(requests)].count)

\* is_eof() is true only when the producer has closed and everything it wrote
\* has been consumed, although continuations store it without the lock.
EofFlagSound == eof => ~canWrite /\ total = 0

\* A consumer that has acquired a block still finds it, untouched, at the head
\* of the queue, whatever the producer has done since.
AcquiredStable == held # -1 => blocks # <<>> /\ held <= Front.wr - Front.rd

\* A consumer that awaits each read gets from the continuation's test of the
\* shared flag what its own read returned: the data, the end of the stream, or
\* the exception the producer closed with, never a clean end in its place.
OutcomeSound ==
    \A r \in Readers :
        op[r].st = "tested" /\ serial =>
            Outcome(r) = IF op[r].len > 0 THEN "data" ELSE IF exc THEN "error" ELSE "eof"

\* The end of the stream is neither seen too early nor taken for another.
EndIsSound == EofFlagSound /\ OutcomeSound

\* What the buffer shows of a read to the one who made it.
CallOf(o) ==
    [st |-> CASE o.st = "parked" -> "waiting"
              [] o.st \in {"done", "tested"} -> "answered"
              [] OTHER -> "none",
     consume |-> o.st = "parked" /\ Advances(o.kind),
     count |-> IF o.st = "parked" THEN o.count ELSE 0,
     at |-> o.at,
     len |-> o.len]

\* The buffer is a character stream: it delivers every character once and in
\* order, answers parked reads oldest first, and returns short only after a
\* flush or a close.
Abstract == INSTANCE CharStream WITH
    Counts <- 1..MaxCount,
    sent <- totalWritten, taken <- totalRead, flushed <- synced,
    open <- canWrite, failed <- exc /\ ~canWrite,
    queue <- requests, call <- [r \in Readers |-> CallOf(op[r])]

ImplementsCharStream == Abstract!Spec

\* A read still parked when the producer closes does return.
ClosedReadsReturn ==
    \A r \in Readers : op[r].st = "parked" /\ ~canWrite ~> op[r].st = "idle"
=============================================================================
