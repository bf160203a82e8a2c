----------------------------- MODULE FileBuffer -----------------------------
(* basic_file_buffer (filestream.h) over the files of Windows                 *)
(* (fileio_win32.cpp) and of POSIX (fileio_posix.cpp): a file that is read    *)
(* through a buffer, or one that is written.                                  *)
(*                                                                            *)
(* Asynchronous reads go through async_operation_queue, one after another;    *)
(* seeks and the synchronous reads wait for it, size() and writes do not.     *)
(* The character at position p of the file is p: what is read says where it   *)
(* came from.                                                                 *)
EXTENDS Integers, Sequences, FiniteSets

CONSTANTS
    PageSize,        \* the buffer's size, 512 in the code
    Writes,      \* the calls of putn()
    MaxOps,      \* bound: the calls of a reader
    MaxQueued,   \* bound: those that are queued at a time
    FileWorlds   \* bound: what there is to do with a file

\* platform: "win32" or "posix".  use: "read", "write" or "ate", which writes at
\* the end.  size: of the file.  calls: those a reader makes, counts: how many
\* characters it asks for.  fails: reads and writes may fail.
Kinds_Char == {"bumpc", "getc", "nextc", "ungetc"}
Kinds_Sync == {"sbumpc", "sgetc", "sgetn"}
FileWorld(w) ==
    /\ w.platform \in {"win32", "posix"} /\ w.use \in {"read", "write", "ate"}
    /\ w.size \in Nat /\ w.counts \subseteq Nat \ {0} /\ w.fails \in BOOLEAN
    /\ w.calls \subseteq Kinds_Char \cup Kinds_Sync \cup {"getn", "seek", "size"}

ASSUME FileBufferAssumption ==
    /\ PageSize \in Nat \ {0} /\ MaxOps \in Nat /\ MaxQueued \in Nat
    /\ \A w \in FileWorlds : FileWorld(w)

VARIABLES
    file,      \* one of FileWorlds
    rdpos, atend,
    cache,    \* m_buffer and its m_bufsize, m_bufoff and m_buffill
    queue,     \* m_readOps, the running operation first
    io,        \* the read from the file that is under way
    last,      \* the last call of the reader that ended
    opCount,   \* how many calls there were
    readOpen,  \* the stream was not closed by an exception
    faults,    \* what went wrong before, see FaultKinds
    writes,    \* writes[w]: its stage, and its position
    wrpos, content, outstandingWrites,
    flush      \* a call of sync(), and the writes before it

reading == <<rdpos, atend, cache, queue, io, last, opCount, readOpen, faults>>
writing == <<writes, wrpos, content, outstandingWrites, flush>>
fileVars == <<file, reading, writing>>

-----------------------------------------------------------------------------
EndOfFile == -1
Garbage == -1
Least(a, b) == IF a < b THEN a ELSE b
Greatest(a, b) == IF a < b THEN b ELSE a

NoBuffer == [mem |-> <<>>, off |-> 0, fill |-> 0]
NoIO == [into |-> 0, from |-> 0, most |-> 0, unread |-> 0, is |-> "none"]
Nothing == [kind |-> "none", at |-> 0, asked |-> 0, got |-> <<>>, is |-> "data"]

FileInit ==
    /\ file \in FileWorlds
    /\ rdpos = 0 /\ atend = FALSE /\ cache = NoBuffer
    /\ queue = <<>> /\ io = NoIO /\ last = Nothing /\ opCount = 0
    /\ readOpen = TRUE /\ faults = {}
    /\ writes = [w \in Writes |-> [at |-> "new", pos |-> 0]]
    /\ wrpos = (IF file.use = "ate" THEN EndOfFile ELSE 0) /\ content = <<>>
    /\ outstandingWrites = 0 /\ flush = [is |-> "none", before |-> {}]

-----------------------------------------------------------------------------
(* The buffer.                                                                *)

\* in_avail()
InAvail ==
    IF cache.fill = 0 \/ cache.off > rdpos \/ cache.off + cache.fill < rdpos
    THEN 0
    ELSE cache.off + cache.fill - rdpos

\* What n characters from index i of memory are: beyond it, garbage.
Cells(mem, i, n) == [j \in 1..n |-> IF i + j \in DOMAIN mem THEN mem[i + j] ELSE Garbage]
Taken(b, n) == Cells(b.mem, rdpos - b.off, n)

\* Variants, here and below, are plausible mistakes in the definition that
\* follows; PROJECT.json pairs each with the property that detects it.

\* _seekrdpos_fsb
\* (A mutant: the buffer is kept when the position is past its end.)
Sought_PastEnd(pos) == IF pos < cache.off THEN NoBuffer ELSE cache
Sought(pos) ==
    IF pos < cache.off \/ pos > cache.off + cache.fill THEN NoBuffer ELSE cache

\* The unread characters, as the code counts them: below zero after a refill
\* that left some out of m_buffill.
Unread(b, at) == b.fill - (at - b.off)

\* What _fill_buffer_fsb does for n characters from at: start to read into a
\* buffer, or nothing if there are enough, for an unsigned number.
Fresh(n, at) ==
    LET length == Greatest(n, PageSize) IN
    [cache |-> [mem |-> [i \in 1..length |-> Garbage], off |-> at, fill |-> cache.fill],
     io |-> [into |-> 0, from |-> at, most |-> length, unread |-> 0, is |-> "reading"]]
Reused(at) ==
    [cache |-> [cache EXCEPT !.off = at],
     io |-> [into |-> 0, from |-> at, most |-> Len(cache.mem),
             unread |-> Unread(cache, at), is |-> "reading"]]
Extended(n, at) ==
    LET length == Greatest(n, PageSize)
        rem == Unread(cache, at)
        kept == Cells(cache.mem, at - cache.off, rem)
    IN  [cache |-> [mem |-> [i \in 1..length |-> IF i <= rem THEN kept[i] ELSE Garbage],
                     off |-> at, fill |-> cache.fill],
         io |-> [into |-> rem, from |-> at + rem, most |-> length - rem,
                 unread |-> rem, is |-> "reading"]]
Enough == [cache |-> cache, io |-> NoIO]

FillWin32(n, at) ==
    IF cache.mem = <<>> \/ n > Len(cache.mem) THEN Fresh(n, at)
    ELSE IF at < cache.off \/ at >= cache.off + cache.fill THEN Reused(at)
    ELSE IF Unread(cache, at) < n THEN Extended(n, at)
    ELSE Enough
FillPosix(n, at) ==
    IF cache.mem = <<>> THEN Fresh(n, at)
    ELSE IF Unread(cache, at) \in 0..(n - 1) THEN Extended(n, at)
    ELSE Enough
Fill(n, at) == IF file.platform = "win32" THEN FillWin32(n, at) ELSE FillPosix(n, at)

-----------------------------------------------------------------------------
(* Asynchronous reads.                                                        *)

Advances(kind) == kind \in {"bumpc", "getn"}

\* The call at the head of the queue ends.
Returns(op, at, got, is) ==
    /\ queue' = Tail(queue)
    /\ last' = [kind |-> op.kind, at |-> at, asked |-> op.n, got |-> got, is |-> is]

\* The callback of _getn_fsb and the one below it: n characters were asked for,
\* and count are said to be in b, as an unsigned number.
Delivers(op, b, count) ==
    LET copy == IF count < 0 THEN op.n ELSE Least(count, op.n) IN
    /\ atend' = (copy < op.n)
    /\ rdpos' = IF Advances(op.kind) THEN rdpos + copy ELSE rdpos
    /\ Returns(op, rdpos, Taken(b, copy), "data")

\* The caller enqueues an operation.
Enqueue(op) ==
    /\ file.use = "read" /\ op.kind \in file.calls \cap (Kinds_Char \cup {"getn"})
    /\ op.n \in (IF op.kind = "getn" THEN file.counts ELSE {1})
    /\ readOpen /\ opCount < MaxOps /\ Len(queue) < MaxQueued
    /\ queue' = Append(queue, op) /\ opCount' = opCount + 1
    /\ UNCHANGED <<file, rdpos, atend, cache, io, last, readOpen, faults, writing>>

Running == queue # <<>> /\ io.is = "none"

\* It ends at once: getn() and nextc() because of m_atend, ungetc() at the start.
EndsAtOnce ==
    /\ Running
    /\ LET op == Head(queue) IN
        \/ op.kind = "getn" /\ atend /\ UNCHANGED <<rdpos, cache>> /\ Returns(op, rdpos, <<>>, "end")
        \/ /\ op.kind = "nextc" /\ atend
           /\ rdpos' = rdpos + 1 /\ cache' = Sought(rdpos + 1)
           /\ Returns(op, rdpos', <<>>, "end")
        \/ op.kind = "ungetc" /\ rdpos = 0 /\ UNCHANGED <<rdpos, cache>> /\ Returns(op, 0, <<>>, "start")
    /\ UNCHANGED <<file, atend, io, opCount, readOpen, faults, writing>>

\* nextc() and ungetc() seek, and go on as a getc().
Seeks ==
    /\ Running
    /\ LET op == Head(queue)
           to == IF op.kind = "nextc" THEN rdpos + 1 ELSE rdpos - 1
       IN  /\ (op.kind = "nextc" /\ ~atend) \/ (op.kind = "ungetc" /\ rdpos > 0)
           /\ rdpos' = to /\ cache' = Sought(to)
           /\ queue' = <<[op EXCEPT !.kind = "getc"]>> \o Tail(queue)
    /\ faults' = IF atend THEN faults \cup {"rewound"} ELSE faults
    /\ UNCHANGED <<file, atend, io, last, opCount, readOpen, writing>>

Reads(op) == op.kind \in {"bumpc", "getc"} \/ (op.kind = "getn" /\ ~atend)

\* There are enough characters in the buffer.
FromBuffer ==
    /\ Running
    /\ LET op == Head(queue) IN
        /\ Reads(op) /\ InAvail >= op.n
        /\ rdpos' = IF Advances(op.kind) THEN rdpos + op.n ELSE rdpos
        /\ Returns(op, rdpos, Taken(cache, op.n), "data")
    /\ UNCHANGED <<file, atend, cache, io, opCount, readOpen, faults, writing>>

\* _getn_fsb, which may find that no read is needed.
StartFill ==
    /\ Running
    /\ LET op == Head(queue)
           f == Fill(op.n, rdpos)
       IN  /\ Reads(op) /\ InAvail < op.n
           /\ cache' = f.cache /\ io' = f.io
           /\ IF f.io = NoIO THEN Delivers(op, cache, op.n)
              ELSE UNCHANGED <<rdpos, atend, queue, last>>
           /\ faults' = IF f.io.unread > 0 THEN faults \cup {"uneven"} ELSE faults
    /\ UNCHANGED <<file, opCount, readOpen, writing>>

\* The callback of the read: m_buffill does not count the unread characters.
Filled(result) ==
    [cache EXCEPT !.fill = result,
                   !.mem = [i \in DOMAIN @ |->
                       IF i - io.into \in 1..result THEN io.from + i - io.into - 1 ELSE @[i]]]
FillDone ==
    /\ io.is = "reading"
    /\ LET result == Least(io.most, Greatest(0, file.size - io.from)) IN
        /\ cache' = Filled(result)
        /\ Delivers(Head(queue), cache', io.unread + result)
    /\ io' = NoIO
    /\ UNCHANGED <<file, opCount, readOpen, faults, writing>>

\* A read that fails: of POSIX, the caller is told, and the stream is closed; of
\* Windows, -1 is taken for a number of characters if it fails at once, and
\* nobody is told if it fails later.
FillFails ==
    /\ file.fails /\ io.is = "reading"
    /\ faults' = faults \cup {"failed"}
    /\ \/ /\ file.platform = "posix"
          /\ Returns(Head(queue), rdpos, <<>>, "error")
          /\ io' = NoIO /\ readOpen' = FALSE /\ UNCHANGED <<rdpos, atend>>
       \/ /\ file.platform = "win32"
          /\ \/ Delivers(Head(queue), cache, Head(queue).n) /\ io' = NoIO
             \/ io' = [io EXCEPT !.is = "lost"] /\ UNCHANGED <<rdpos, atend, queue, last>>
          /\ UNCHANGED readOpen
    /\ UNCHANGED <<file, cache, opCount, writing>>

-----------------------------------------------------------------------------
(* Calls that wait for the queue, and size().                                 *)

CallOf(kind) ==
    /\ file.use = "read" /\ kind \in file.calls /\ readOpen /\ opCount < MaxOps
    /\ opCount' = opCount + 1

\* sbumpc(), sgetc() and sgetn(): they take what there is, and sgetn() takes too
\* little for the end of the file.
SyncRead(kind, n) ==
    /\ CallOf(kind) /\ queue = <<>> /\ n \in (IF kind = "sgetn" THEN file.counts ELSE {1})
    /\ LET copy == IF atend THEN 0 ELSE Least(n, InAvail)
           is == IF atend THEN "end" ELSE IF copy = 0 THEN "wait" ELSE "data"
       IN  /\ last' = [kind |-> kind, at |-> rdpos, asked |-> n,
                       got |-> Taken(cache, copy), is |-> is]
           /\ rdpos' = IF kind = "sgetc" THEN rdpos ELSE rdpos + copy
           /\ IF kind = "sgetn" /\ is = "data"
              THEN /\ atend' = (copy < n)
                   /\ faults' = IF copy < n THEN faults \cup {"short"} ELSE faults
              ELSE UNCHANGED <<atend, faults>>
    /\ UNCHANGED <<file, cache, queue, io, readOpen, writing>>

\* seekpos() and seekoff(), for reading; m_atend stays what it is.
Seek(pos) ==
    /\ CallOf("seek") /\ queue = <<>>
    /\ pos \in 0..file.size /\ pos # rdpos
    /\ cache' = Sought(pos) /\ rdpos' = pos
    /\ faults' = IF atend THEN faults \cup {"rewound"} ELSE faults
    /\ UNCHANGED <<file, atend, queue, io, last, readOpen, writing>>

\* size(): of POSIX, it deletes the buffer, into which the file may be read.
Size ==
    /\ CallOf("size") /\ file.platform = "posix"
    /\ cache' = NoBuffer
    /\ faults' = IF io = NoIO THEN faults ELSE faults \cup {"sized"}
    /\ UNCHANGED <<file, rdpos, atend, queue, io, last, readOpen, writing>>

-----------------------------------------------------------------------------
(* Writes.                                                                    *)

\* putn(): the position is taken at once, and the write runs on its own.
Put(w) ==
    /\ file.use # "read" /\ writes[w].at = "new"
    /\ outstandingWrites' = outstandingWrites + 1
    /\ writes' = [writes EXCEPT ![w] = [at |-> "running", pos |-> wrpos]]
    /\ wrpos' = IF wrpos = EndOfFile THEN EndOfFile ELSE wrpos + 1
    /\ UNCHANGED <<file, reading, content, flush>>

\* Of POSIX, a write at the end looks first where the end is.
FindEnd(w) ==
    /\ file.platform = "posix" /\ writes[w] = [at |-> "running", pos |-> EndOfFile]
    /\ writes' = [writes EXCEPT ![w].pos = Len(content)]
    /\ UNCHANGED <<file, reading, wrpos, content, outstandingWrites, flush>>

\* The character of w comes to position p.
Placed(w, p) ==
    [i \in 1..Greatest(Len(content), p + 1) |->
        IF i = p + 1 THEN w ELSE IF i \in DOMAIN content THEN content[i] ELSE Garbage]
WriteDone(w) ==
    /\ writes[w].at = "running" /\ (file.platform = "posix" => writes[w].pos # EndOfFile)
    /\ content' = Placed(w, IF writes[w].pos = EndOfFile THEN Len(content) ELSE writes[w].pos)
    /\ writes' = [writes EXCEPT ![w].at = "told"]
    /\ UNCHANGED <<file, reading, wrpos, outstandingWrites, flush>>
\* Of POSIX, the callback of a write that fails is called again after it has
\* deleted itself.
WriteFails(w) ==
    /\ file.fails /\ writes[w].at = "running"
    /\ writes' = [writes EXCEPT ![w].at = IF file.platform = "posix" THEN "deleted" ELSE "told"]
    /\ UNCHANGED <<file, reading, wrpos, content, outstandingWrites, flush>>

\* The last of those that run tells a call of sync().
\* (A mutant: it does so when one still runs.)
Uncount_OffByOne(w) ==
    /\ writes[w].at = "told"
    /\ writes' = [writes EXCEPT ![w].at = "done"]
    /\ outstandingWrites' = outstandingWrites - 1
    /\ flush' = IF outstandingWrites = 2 /\ flush.is = "waiting" THEN [flush EXCEPT !.is = "done"] ELSE flush
    /\ UNCHANGED <<file, reading, wrpos, content>>
Uncount(w) ==
    /\ writes[w].at = "told"
    /\ writes' = [writes EXCEPT ![w].at = "done"]
    /\ outstandingWrites' = outstandingWrites - 1
    /\ flush' = IF outstandingWrites = 1 /\ flush.is = "waiting" THEN [flush EXCEPT !.is = "done"] ELSE flush
    /\ UNCHANGED <<file, reading, wrpos, content>>

\* sync(), and the flush of close(): of Windows, they wait for nothing.
Sync ==
    /\ file.use # "read" /\ flush.is = "none"
    /\ flush' = [is |-> IF file.platform = "posix" /\ outstandingWrites > 0 THEN "waiting" ELSE "done",
                 before |-> {w \in Writes : writes[w].at # "new"}]
    /\ UNCHANGED <<file, reading, writes, wrpos, content, outstandingWrites>>

-----------------------------------------------------------------------------
\* The program goes on with what was deleted.
FileCrashed == "sized" \in faults \/ \E w \in Writes : writes[w].at = "deleted"

ReaderStep == EndsAtOnce \/ Seeks \/ FromBuffer \/ StartFill \/ FillDone
WriterStep(w) == FindEnd(w) \/ WriteDone(w) \/ Uncount(w)

FileNext ==
    /\ ~FileCrashed
    /\ \/ \E kind \in Kinds_Char \cup {"getn"}, n \in file.counts \cup {1} :
            Enqueue([kind |-> kind, n |-> n])
       \/ \E kind \in Kinds_Sync, n \in file.counts \cup {1} : SyncRead(kind, n)
       \/ \E pos \in 0..file.size : Seek(pos)
       \/ Size \/ Sync
       \/ EndsAtOnce \/ Seeks \/ FromBuffer \/ StartFill \/ FillDone \/ FillFails
       \/ \E w \in Writes : Put(w) \/ FindEnd(w) \/ WriteDone(w) \/ WriteFails(w) \/ Uncount(w)

\* The pool runs, and the system ends every read and every write.
FileSpec ==
    /\ FileInit /\ [][FileNext]_fileVars
    /\ WF_fileVars(~FileCrashed /\ ReaderStep)
    /\ \A w \in Writes : WF_fileVars(~FileCrashed /\ WriterStep(w))

-----------------------------------------------------------------------------
(* Properties.                                                                *)

FaultKinds == {"rewound", "short", "uneven", "failed", "sized"}
Characters == Nat \cup {Garbage}

FileTypeOK ==
    /\ file \in FileWorlds /\ rdpos \in Nat /\ atend \in BOOLEAN
    /\ cache \in [mem : Seq(Characters), off : Nat, fill : Nat]
    /\ queue \in Seq([kind : Kinds_Char \cup {"getn"}, n : Nat \ {0}])
    /\ io \in [into : Nat, from : Nat, most : Nat, unread : Int, is : {"none", "reading", "lost"}]
    /\ last \in [kind : Kinds_Char \cup Kinds_Sync \cup {"none", "getn"}, at : Nat, asked : Nat,
                 got : Seq(Characters), is : {"data", "end", "start", "wait", "error"}]
    /\ opCount \in 0..MaxOps /\ readOpen \in BOOLEAN /\ faults \subseteq FaultKinds
    /\ writes \in [Writes -> [at : {"new", "running", "told", "done", "deleted"}, pos : Nat \cup {EndOfFile}]]
    /\ wrpos \in Nat \cup {EndOfFile} /\ content \in Seq(Writes \cup {Garbage}) /\ outstandingWrites \in Nat
    /\ flush \in [is : {"none", "waiting", "done"}, before : SUBSET Writes]

Remaining(at) == Greatest(0, file.size - at)

\* Every read gets the characters of the file from where it began, as many as it
\* asked for and there are, and is told of the end only there.  It gets others
\* only after a read failed or the buffer was filled up while there were unread
\* characters in it; and is told too soon of the end only after one of these, or
\* a seek from the end, or an sgetn() that took what the buffer had.
ReadsSound ==
    /\ (\E i \in DOMAIN last.got : last.got[i] # last.at + i - 1) => faults \cap {"uneven", "failed"} # {}
    /\ last.is = "data" /\ last.kind \notin Kinds_Sync /\ Len(last.got) # Least(last.asked, Remaining(last.at))
        => faults \cap {"uneven", "failed"} # {}
    /\ last.is = "end" /\ last.at < file.size => faults \cap {"uneven", "failed", "rewound", "short"} # {}
    /\ rdpos > cache.off + cache.fill /\ cache # NoBuffer => faults \cap {"uneven", "failed"} # {}

\* What is written stays in the file, in the order of the calls, unless two of
\* POSIX look for the end at once; and a sync() that ends has seen every
\* write before it end, of POSIX.
Ended(w) == writes[w].at \in {"told", "done"}
Apart(v, w) == writes[v].pos # writes[w].pos \/ EndOfFile \in {writes[v].pos, writes[w].pos}
Begun == {w \in Writes : writes[w].at # "new"}
WritesSound ==
    /\ outstandingWrites = Cardinality({w \in Writes : writes[w].at \notin {"new", "done"}})
    /\ ~file.fails =>
        /\ file.use = "write" => \A w \in Writes : Ended(w) => content[writes[w].pos + 1] = w
        /\ file.use = "ate" /\ (\A v, w \in Begun : v # w => Apart(v, w))
            => \A w \in Writes : Ended(w) => \E i \in DOMAIN content : content[i] = w
    /\ flush.is = "done" /\ file.platform = "posix" => \A w \in flush.before : Ended(w)

FileBufferSound == ReadsSound /\ WritesSound

\* Again and again no read runs, unless one failed of Windows after it had begun,
\* and no call of sync() waits: each ends.
FileOpsEnd ==
    []<>(FileCrashed \/ ((queue = <<>> \/ io.is = "lost") /\ flush.is # "waiting"))
=============================================================================
