---------------------------- MODULE MemoryBuffers -----------------------------
(* The stream buffers over memory: container_buffer (containerstream.h), which *)
(* grows as it is written, and rawptr_buffer (rawptrstream.h), over a block of *)
(* fixed size, each open for reading or for writing, behind the rules of       *)
(* streambuf_state_manager (astreambuf.h).  Their tasks are complete at once,  *)
(* so an operation is one step.  Positions count from 0, as in the code; the   *)
(* character at position p is data[p + 1].                                     *)
EXTENDS Integers, Sequences, FiniteSetsExt

CONSTANTS
    Chars,    \* characters that are written
    Contents, \* what a reader is given, and the blocks for writers
    Counts,   \* of characters asked for
    MaxSize,  \* bound: the characters of a container
    MaxOps    \* bound: operations

VARIABLES
    buffer, \* the object
    block,  \* the count that alloc() or acquire() has handed out, and not taken back
    wrote,  \* the characters that were written, by position: 0 where none was
    extent, \* the end of what was written
    head,   \* where a reader should be, as the comments of astreambuf.h have it
    odd,    \* what the history has had, of the cases that the properties except
    last,   \* the operation, what it returned, and the buffer before it
    ops

memVars == <<buffer, block, wrote, extent, head, odd, last, ops>>

-----------------------------------------------------------------------------
Kinds == {"container", "rawptr"}
Eof == -1
Threw == -3      \* or a task with an exception
None == -4       \* no block

Ways == {"beg", "cur", "end"}
Oddities == {"sought", "stayed", "padded"}

\* m_data, m_current_position, m_stream_can_read, m_stream_can_write,
\* m_currentException, m_stream_read_eof and m_alloced
NewBuffer(kind, reads, data) ==
    [kind |-> kind, data |-> data,
     at |-> IF kind = "container" /\ ~reads THEN Len(data) ELSE 0,
     reads |-> reads, writes |-> ~reads, error |-> FALSE, eof |-> FALSE, alloced |-> FALSE]

MemInit ==
    /\ \E kind \in Kinds, reads \in BOOLEAN, data \in Contents : buffer = NewBuffer(kind, reads, data)
    /\ block = None
    /\ wrote = [p \in 1..MaxSize |-> IF p \in DOMAIN buffer.data THEN buffer.data[p] ELSE 0]
    /\ extent = Len(buffer.data) /\ head = 0 /\ odd = {} /\ ops = 0
    /\ last = [op |-> "none", n |-> 0, r |-> 0, text |-> <<>>, was |-> buffer]

-----------------------------------------------------------------------------
(* Reading. *)

\* in_avail, of which SafeInt throws when a writer has sought past the end.
InAvail(b) == Len(b.data) - b.at

\* read(): a copy of up to n characters
Copy(b, n) == SubSeq(b.data, b.at + 1, b.at + IF InAvail(b) < n THEN InAvail(b) ELSE n)
CharOf(text) == IF text = <<>> THEN Eof ELSE text[1]
Advance(b, n) == [b EXCEPT !.at = @ + n]

\* create_exception_checked_task of an operation that did not fail, and
\* check_sync_read_eof
WithEof(b, eof) == [b EXCEPT !.eof = eof]

\* close() of either buffer, and m_data when nothing is open
CloseFor(b, reads, writes) ==
    LET open == [b EXCEPT !.reads = @ /\ ~reads, !.writes = @ /\ ~writes] IN
    IF b.kind = "rawptr" /\ ~open.reads /\ ~open.writes THEN [open EXCEPT !.data = <<>>] ELSE open

\* An operation that failed closes the buffer with its exception.
Failed(b) == [CloseFor(b, TRUE, TRUE) EXCEPT !.error = TRUE]

Done(op, n, b, r, text) ==
    /\ ops < MaxOps /\ ops' = ops + 1
    /\ buffer' = b
    /\ last' = [op |-> op, n |-> n, r |-> r, text |-> text, was |-> buffer]

\* A reading operation is refused when the buffer is closed.
Refused(op, n, eof) ==
    /\ ~buffer.reads
    /\ Done(op, n, buffer, IF buffer.error THEN Threw ELSE eof, <<>>)
    /\ UNCHANGED <<block, wrote, extent, head, odd>>

\* Where a reader should be after n characters more.
HeadAfter(n) == head' = Min({head + n, Len(buffer.data)})

\* getn, bumpc and getc: what was read, whether the position moves, and what is
\* returned.
AsyncRead(op, n, text, advances, r) ==
    /\ buffer.reads /\ block = None
    /\ LET b == WithEof(Advance(buffer, IF advances THEN Len(text) ELSE 0), text = <<>>) IN
       IF b.eof /\ buffer.error THEN Done(op, n, b, Threw, <<>>) ELSE Done(op, n, b, r, text)
    /\ HeadAfter(IF advances THEN n ELSE 0)
    /\ odd' = odd \ {"sought"}
    /\ UNCHANGED <<block, wrote, extent>>

Getn(n) ==
    \/ Refused("getn", n, 0)
    \/ n > 0 /\ AsyncRead("getn", n, Copy(buffer, n), TRUE, Len(Copy(buffer, n)))
Bumpc == Refused("bumpc", 1, Eof) \/ AsyncRead("bumpc", 1, Copy(buffer, 1), TRUE, CharOf(Copy(buffer, 1)))
Getc == Refused("getc", 1, Eof) \/ AsyncRead("getc", 1, Copy(buffer, 1), FALSE, CharOf(Copy(buffer, 1)))

\* The raw pointer's nextc stays where it is at the last character.  (m_size - 1
\* of an empty block is a large number, and there is nothing to read then.)
NextcAdvances(b) == b.kind = "container" \/ b.at # Len(b.data) - 1

Nextc ==
    \/ Refused("nextc", 1, Eof)
    \/ /\ buffer.reads /\ block = None
       /\ LET moved == Advance(buffer, Len(Copy(buffer, 1)))
              b == IF NextcAdvances(buffer) THEN moved ELSE buffer
              text == IF NextcAdvances(buffer) THEN Copy(moved, 1) ELSE <<>>
          IN  Done("nextc", 1, WithEof(b, text = <<>>),
                   IF text = <<>> /\ buffer.error THEN Threw ELSE CharOf(text), text)
       /\ HeadAfter(1)
       /\ odd' = (odd \ {"sought"}) \cup (IF NextcAdvances(buffer) THEN {} ELSE {"stayed"})
       /\ UNCHANGED <<block, wrote, extent>>

\* sbumpc, sgetc: an exception is thrown before anything else is looked at.
SyncRead(op, advances) ==
    /\ block = None
    /\ LET text == Copy(buffer, 1) IN
       IF buffer.error \/ ~buffer.reads
       THEN /\ Done(op, 1, buffer, IF buffer.error THEN Threw ELSE Eof, <<>>)
            /\ UNCHANGED <<head, odd>>
       ELSE /\ Done(op, 1, WithEof(Advance(buffer, IF advances THEN Len(text) ELSE 0), text = <<>>),
                    CharOf(text), text)
            /\ HeadAfter(IF advances THEN 1 ELSE 0)
            /\ odd' = odd \ {"sought"}
    /\ UNCHANGED <<block, wrote, extent>>

Scopy(n) ==
    /\ block = None
    /\ IF buffer.error \/ ~buffer.reads
       THEN Done("scopy", n, buffer, IF buffer.error THEN Threw ELSE 0, <<>>)
       ELSE Done("scopy", n, buffer, Len(Copy(buffer, n)), Copy(buffer, n))
    /\ UNCHANGED <<block, wrote, extent, head, odd>>

\* acquire() and, later, release() of what has been read of the block.
Acquire ==
    /\ block = None /\ buffer.reads
    /\ block' = InAvail(buffer)
    /\ Done("acquire", 0, buffer, InAvail(buffer), Copy(buffer, InAvail(buffer)))
    /\ UNCHANGED <<wrote, extent, head, odd>>

Release ==
    /\ block # None /\ ~buffer.alloced
    /\ \E n \in 0..block :
        /\ Done("release", n, Advance(buffer, IF block > 0 THEN n ELSE 0), n, <<>>)
        /\ HeadAfter(n)
    /\ block' = None
    /\ UNCHANGED <<wrote, extent, odd>>

-----------------------------------------------------------------------------
(* Seeking. *)

From(way) == CASE way = "beg" -> 0 [] way = "cur" -> buffer.at [] way = "end" -> Len(buffer.data)

\* resize_for_write: new characters are zeros.
Resized(b, n) == [b EXCEPT !.data = @ \o [i \in 1..(n - Len(b.data)) |-> 0]]

\* Variants, here and below, are plausible mistakes in the definition that
\* follows; PROJECT.json pairs each with the property that detects it.

\* seekpos: a reader goes no further than the end; a writer of a container takes
\* the end with it, and one of a block goes anywhere.
Sought_ByWriters(b, p, for) == IF p < 0 \/ p > Len(b.data) THEN b ELSE [b EXCEPT !.at = p]
Sought(b, p, for) ==
    CASE p >= 0 /\ for = "in" /\ b.reads /\ p <= Len(b.data) -> [b EXCEPT !.at = p]
      [] p >= 0 /\ for = "out" /\ b.writes -> [(IF b.kind = "container" THEN Resized(b, p) ELSE b) EXCEPT !.at = p]
      [] OTHER -> b
CanSeek(b, p, for) ==
    p >= 0 /\ ((for = "in" /\ b.reads /\ p <= Len(b.data)) \/ (for = "out" /\ b.writes))

\* seekpos and seekoff; what lies between the end and the position was not written.
Seek(way, n, for) ==
    LET p == From(way) + n IN
    /\ block = None /\ p <= MaxSize
    /\ Done("seek", p, Sought(buffer, p, for), IF CanSeek(buffer, p, for) THEN p ELSE Eof, <<>>)
    /\ IF CanSeek(buffer, p, for)
       THEN /\ head' = p
            /\ odd' = (odd \ {"stayed"}) \cup {"sought"} \cup (IF for = "out" /\ p > extent THEN {"padded"} ELSE {})
       ELSE UNCHANGED <<head, odd>>
    /\ UNCHANGED <<block, wrote, extent>>

\* ungetc: a seek and a getc
Ungetc ==
    \/ Refused("ungetc", 1, Eof)
    \/ /\ buffer.reads /\ block = None
       /\ LET b == Sought(buffer, buffer.at - 1, "in") IN
          IF CanSeek(buffer, buffer.at - 1, "in")
          THEN /\ Done("ungetc", 1, WithEof(b, FALSE), CharOf(Copy(b, 1)), Copy(b, 1))
               /\ head' = head - 1 /\ odd' = odd \ {"sought"}
          ELSE /\ Done("ungetc", 1, WithEof(buffer, FALSE), Eof, <<>>)
               /\ UNCHANGED <<head, odd>>
       /\ UNCHANGED <<block, wrote, extent>>

-----------------------------------------------------------------------------
(* Writing. *)

\* The characters of text from position p on.
Overwritten(s, p, text) ==
    [i \in DOMAIN s |-> IF i - p \in DOMAIN text THEN text[i - p] ELSE s[i]]

Records(text) ==
    /\ wrote' = Overwritten(wrote, buffer.at, text)
    /\ extent' = Max({extent, buffer.at + Len(text)})

\* write() of either buffer, of what fits
Written(b, text) ==
    LET room == IF b.kind = "container" THEN Resized(b, b.at + Len(text)) ELSE b IN
    [room EXCEPT !.data = Overwritten(@, b.at, text), !.at = @ + Len(text)]

Fits_OffByOne(b, n) == b.kind = "container" \/ b.at + n <= Len(b.data) + 1
Fits(b, n) == b.kind = "container" \/ b.at + n <= Len(b.data)

WriteRefused(op, n, eof) ==
    /\ ~buffer.writes
    /\ Done(op, n, buffer, IF buffer.error THEN Threw ELSE eof, <<>>)
    /\ UNCHANGED <<block, wrote, extent, head, odd>>

\* putn past the end of a block fails, and so closes the buffer; putc returns
\* end-of-file.
Putn(text) ==
    \/ WriteRefused("putn", Len(text), 0)
    \/ /\ buffer.writes /\ block = None /\ Len(text) > 0 /\ buffer.at + Len(text) <= MaxSize
       /\ IF Fits(buffer, Len(text))
          THEN /\ Done("putn", Len(text), WithEof(Written(buffer, text), FALSE), Len(text), text)
               /\ Records(text)
          ELSE Done("putn", Len(text), Failed(buffer), Threw, text) /\ UNCHANGED <<wrote, extent>>
       /\ UNCHANGED <<block, head, odd>>

Putc(c) ==
    \/ WriteRefused("putc", 1, Eof)
    \/ /\ buffer.writes /\ block = None /\ buffer.at < MaxSize
       /\ IF Fits(buffer, 1)
          THEN Done("putc", 1, WithEof(Written(buffer, <<c>>), FALSE), c, <<c>>) /\ Records(<<c>>)
          ELSE Done("putc", 1, WithEof(buffer, FALSE), Eof, <<c>>) /\ UNCHANGED <<wrote, extent>>
       /\ UNCHANGED <<block, head, odd>>

\* alloc() of the manager and _alloc() of either buffer
Alloc(n) ==
    /\ block = None \/ buffer.alloced
    /\ buffer.at + n <= MaxSize
    /\ CASE buffer.alloced \/ (buffer.kind = "rawptr" /\ buffer.writes /\ InAvail(buffer) < 0) ->
                Done("alloc", n, buffer, Threw, <<>>) /\ UNCHANGED <<block, odd>>
         [] ~buffer.alloced /\ (~buffer.writes \/ (buffer.kind = "rawptr" /\ InAvail(buffer) \in 0..(n - 1))) ->
                Done("alloc", n, buffer, None, <<>>) /\ UNCHANGED <<block, odd>>
         [] OTHER ->
                /\ Done("alloc", n,
                        [(IF buffer.kind = "container" THEN Resized(buffer, buffer.at + n) ELSE buffer)
                            EXCEPT !.alloced = TRUE], n, <<>>)
                /\ block' = n
                /\ odd' = odd \cup (IF buffer.at + n > extent THEN {"padded"} ELSE {})
    /\ UNCHANGED <<wrote, extent, head>>

\* The block is written from its beginning, and commit() told how far.
Commit ==
    IF ~buffer.alloced
    THEN Done("commit", 0, buffer, Threw, <<>>) /\ UNCHANGED <<block, wrote, extent, head, odd>>
    ELSE /\ \E n \in 0..block : \E text \in [1..n -> Chars] :
                LET filled == IF buffer.data = <<>> THEN <<>> ELSE Overwritten(buffer.data, buffer.at, text) IN
                /\ Done("commit", n, [Advance(buffer, n) EXCEPT !.data = filled, !.alloced = FALSE], n, text)
                /\ Records(text)
         /\ block' = None
         /\ UNCHANGED <<head, odd>>

Close(reads, writes, error) ==
    /\ Done("close", 0, [CloseFor(buffer, reads, writes) EXCEPT !.error = @ \/ error], 0, <<>>)
    /\ UNCHANGED <<block, wrote, extent, head, odd>>

-----------------------------------------------------------------------------
MemNext ==
    \/ \E n \in Counts : Getn(n) \/ Scopy(n) \/ Alloc(n)
    \/ Bumpc \/ Getc \/ Nextc \/ Ungetc
    \/ SyncRead("sbumpc", TRUE) \/ SyncRead("sgetc", FALSE)
    \/ Acquire \/ Release \/ Commit
    \/ \E way \in Ways, n \in -1..1, for \in {"in", "out"} : Seek(way, n, for)
    \/ \E n \in Counts : \E text \in [1..n -> Chars] : Putn(text)
    \/ \E c \in Chars : Putc(c)
    \/ \E reads, writes, error \in BOOLEAN : (reads \/ writes) /\ Close(reads, writes, error)

MemSpec == MemInit /\ [][MemNext]_memVars

-----------------------------------------------------------------------------
(* Properties. *)

MemTypeOK ==
    /\ buffer.kind \in Kinds /\ Len(buffer.data) <= MaxSize /\ buffer.at \in 0..MaxSize
    /\ \A f \in {"reads", "writes", "error", "eof", "alloced"} : buffer[f] \in BOOLEAN
    /\ block \in {None} \cup 0..MaxSize /\ odd \subseteq Oddities /\ ops \in 0..MaxOps

Lost(b) == b.kind = "rawptr" /\ ~b.reads /\ ~b.writes   \* m_data is null

\* A reader gets the characters in their order, from where it is; one that reads
\* by any mixture of operations is where astreambuf.h says, but for nextc() at the
\* last character of a block, which does not move.
ReadersSound ==
    last.was.reads =>
        /\ "stayed" \in odd \/ Lost(buffer) \/ buffer.at = head
        /\ buffer.at <= Len(last.was.data)
        /\ last.text # <<>> /\ last.op \notin {"nextc", "ungetc"} =>
              last.text = SubSeq(last.was.data, last.was.at + 1, last.was.at + Len(last.text))
        /\ last.op \in {"nextc", "ungetc"} /\ last.text # <<>> =>
              last.text[1] = last.was.data[buffer.at + 1]
        /\ last.op \in {"getn", "bumpc", "sbumpc"} /\ last.r \in {0, Eof} /\ last.n > 0 =>
              last.was.at = Len(last.was.data)

\* is_eof() is only said at the end, unless the reader has sought elsewhere since,
\* or stands before the last character of a block.
AtEnd == buffer.reads /\ buffer.eof => InAvail(buffer) = 0 \/ odd # {}

\* What was written is there, in its place, and nothing else: but a container is
\* longer than that when a block that was allocated has not been filled to its
\* end, or when its writer has sought past the end.
WritersSound ==
    ~Lost(buffer) /\ ~buffer.alloced =>
        /\ \A i \in DOMAIN buffer.data : buffer.data[i] = wrote[i]
        /\ extent <= Len(buffer.data)
        /\ buffer.kind = "container" => extent = Len(buffer.data) \/ "padded" \in odd

\* A buffer that is closed changes no more, and a reader changes no data.
ClosedIsFinal ==
    /\ ~last.was.reads /\ ~last.was.writes /\ last.op # "close" /\ last.op # "commit" /\ last.op # "release" =>
          buffer.data = last.was.data /\ buffer.at = last.was.at
    /\ last.was.reads /\ ~Lost(buffer) => buffer.data = last.was.data

MemorySound == ReadersSound /\ AtEnd /\ WritersSound /\ ClosedIsFinal
=============================================================================
