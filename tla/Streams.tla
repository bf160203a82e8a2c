-------------------------------- MODULE Streams --------------------------------
(* The readers of basic_istream (streams.h), read_to_delim, read_line,          *)
(* read_to_end and read(), and write() of basic_ostream, which is read() with   *)
(* the roles changed: they copy the characters of a source, which arrive when   *)
(* they will, through a buffer of their own or a block of either side, into a   *)
(* target.  Characters that are there are read without tasks; for the others a  *)
(* task waits.  A program calls one reader after the other.                     *)
EXTENDS Integers, Sequences, FiniteSetsExt

CONSTANTS
    SourceTexts, \* what the source will have been given in the end
    Delim,       \* the delimiter
    ReadCounts,  \* of characters that read() is asked for
    BufSize,     \* buf_size, which is 16 * 1024
    Room,        \* the size of a block that is a target
    MaxCalls     \* bound: calls

VARIABLES
    source,  \* the text of the source, and how much has arrived and been taken
    target,
    reader,  \* the call that goes on
    results  \* of the calls that have ended

streamVars == <<source, target, reader, results>>

-----------------------------------------------------------------------------
CR == 13
LF == 10
Fails == -3

\* A target that has no blocks to lend, a container, which lends what it grows by,
\* and a block, which lends what it has.  at is its position, alloced says that a
\* block has been lent, open that no write has failed.
TargetKinds == {"plain", "container", "block"}
NewTarget(kind) ==
    [kind |-> kind, data |-> <<>>, at |-> 0, alloced |-> FALSE, open |-> TRUE]

\* The locals of a call: outbuf, total, saw_CR, and what a task waits for; where in
\* the source and the target it began.
Idle == [op |-> "none", n |-> 0, does |-> "nothing", outbuf |-> <<>>, total |-> 0,
         sawCR |-> FALSE, from |-> 0, onto |-> 0]

StreamInit ==
    /\ \E text \in SourceTexts : source = [text |-> text, arrived |-> 0, taken |-> 0, ended |-> "no"]
    /\ \E kind \in TargetKinds : target = NewTarget(kind)
    /\ reader = Idle /\ results = <<>>

-----------------------------------------------------------------------------
(* The source. *)

InAvail == source.arrived - source.taken
Ended == source.ended # "no"
CharAt(i) == source.text[i]
NextChar == CharAt(source.taken + 1)
Ahead(k) == SubSeq(source.text, source.taken + 1, source.taken + k)

Arrive ==
    /\ ~Ended
    /\ source.arrived < Len(source.text)
    /\ \E k \in 1..(Len(source.text) - source.arrived) : source' = [source EXCEPT !.arrived = @ + k]
    /\ UNCHANGED <<target, reader, results>>

\* close(), after the whole text, or with an exception, at any time
End ==
    /\ ~Ended
    /\ \E how \in {"closed", "failed"} :
        /\ how = "closed" => source.arrived = Len(source.text)
        /\ source' = [source EXCEPT !.ended = how]
    /\ UNCHANGED <<target, reader, results>>

Take(k) == source' = [source EXCEPT !.taken = @ + k]

-----------------------------------------------------------------------------
(* The target. *)

HasRoom(t, n) == t.kind # "block" \/ t.at + n <= Room

\* The target with text written at its position, over what is there.
Put(t, text) ==
    LET size == Max({Len(t.data), t.at + Len(text)}) IN
    [t EXCEPT !.data = [i \in 1..size |-> IF i - t.at \in DOMAIN text THEN text[i - t.at] ELSE t.data[i]],
              !.at = @ + Len(text)]

\* A block that is full refuses, and is closed by it.
CanPut(text) == target.open /\ HasRoom(target, Len(text))
PutFails(t) == [t EXCEPT !.open = FALSE]

-----------------------------------------------------------------------------
(* Calls. *)

\* What a call came to: the part of the source that it took, and of the target
\* that it wrote.
Return(r, call, took, t) ==
    /\ reader' = Idle
    /\ results' = Append(results, [op |-> call.op, n |-> call.n, r |-> r,
                                   from |-> call.from, to |-> took,
                                   onto |-> call.onto, upto |-> t.at,
                                   failed |-> source.ended = "failed", lent |-> t.alloced])

\* _verify_and_return_task: a source that has failed is not read, whatever it has.
Begin(op, n) ==
    /\ reader = Idle /\ Len(results) < MaxCalls
    /\ LET call == [Idle EXCEPT !.op = op, !.n = n, !.from = source.taken, !.onto = target.at] IN
       IF source.ended = "failed" \/ ~target.open
       THEN Return(Fails, call, source.taken, target)
       ELSE /\ reader' = [call EXCEPT !.does = IF op = "count" THEN "alloc" ELSE "loop"]
            /\ UNCHANGED results
    /\ UNCHANGED <<source, target>>

\* flush: what outbuf has goes to the target.
Flush(then) ==
    IF CanPut(reader.outbuf)
    THEN /\ target' = Put(target, reader.outbuf)
         /\ LET call == [reader EXCEPT !.outbuf = <<>>, !.total = @ + Len(reader.outbuf), !.does = then] IN
            IF then = "return" THEN Return(call.total, call, source.taken, target')
            ELSE reader' = call /\ UNCHANGED results
    ELSE target' = PutFails(target) /\ Return(Fails, reader, source.taken, target)

\* Of the character c a reader of lines or to a delimiter makes its end, nothing,
\* or one more in its buffer, which it empties when it is full.
Ends(c) == c = (IF reader.op = "line" THEN LF ELSE Delim)
Update(c) ==
    reader' = IF Ends(c) THEN [reader EXCEPT !.does = "finish"]
              ELSE IF reader.op = "line" /\ c = CR THEN [reader EXCEPT !.sawCR = TRUE, !.does = "loop"]
              ELSE [reader EXCEPT !.outbuf = Append(@, c),
                                  !.does = IF Len(reader.outbuf) + 1 = BufSize THEN "flush" ELSE "loop"]

\* Variants, here and below, are plausible mistakes in the definition that
\* follows; PROJECT.json pairs each with the property that detects it.

\* After a carriage return the next character is looked at, and taken if it is a
\* newline.
AfterCR_TakesAny(c) == Take(1)
AfterCR(c) == IF c = LF THEN Take(1) ELSE UNCHANGED source

Scans == reader.op \in {"line", "delim"}

\* The loop, and the continuation of its bumpc() or getc().  sbumpc() and sgetc()
\* throw when the source has failed, whatever it has.
ReadChar ==
    /\ Scans /\ reader.does = "loop" /\ InAvail > 0 /\ source.ended # "failed"
    /\ IF reader.sawCR
       THEN AfterCR(NextChar) /\ reader' = [reader EXCEPT !.does = "finish"]
       ELSE Take(1) /\ Update(NextChar)
    /\ UNCHANGED <<target, results>>

ReadEnd ==
    /\ Scans /\ reader.does = "loop"
    /\ source.ended = "failed" \/ (source.ended = "closed" /\ InAvail = 0)
    /\ IF source.ended = "closed" THEN reader' = [reader EXCEPT !.does = "finish"] /\ UNCHANGED results
       ELSE Return(Fails, reader, source.taken, target)
    /\ UNCHANGED <<source, target>>

FlushFull == Scans /\ reader.does = "flush" /\ Flush("loop") /\ UNCHANGED source
Finish == Scans /\ reader.does = "finish" /\ Flush("return") /\ UNCHANGED source

\* read_to_end: getn() and putn() until getn() returns nothing.
CopyToTarget ==
    /\ reader.op = "end" /\ reader.does = "loop"
    /\ \/ \E k \in 1..Min({InAvail, BufSize}) :
            /\ Take(k)
            /\ IF CanPut(Ahead(k))
               THEN /\ target' = Put(target, Ahead(k))
                    /\ reader' = [reader EXCEPT !.total = @ + k]
                    /\ UNCHANGED results
               ELSE target' = PutFails(target) /\ Return(Fails, reader, source.taken + k, target)
       \/ /\ InAvail = 0 /\ Ended
          /\ Return(IF source.ended = "closed" THEN reader.total ELSE Fails, reader, source.taken, target)
          /\ UNCHANGED <<source, target>>

-----------------------------------------------------------------------------
(* read() of a count. *)

\* alloc(): without a block, the source is asked for one of its own.
AllocBlock ==
    /\ reader.op = "count" /\ reader.does = "alloc"
    /\ LET n == reader.n
           grown == [target EXCEPT !.data = @ \o [i \in 1..(target.at + n - Len(@)) |-> 0]]
       IN CASE target.alloced ->
                    Return(Fails, reader, source.taken, target) /\ UNCHANGED target
            [] ~target.alloced /\ target.kind # "plain" /\ HasRoom(target, n) ->
                    /\ target' = [(IF target.kind = "container" THEN grown ELSE target) EXCEPT !.alloced = TRUE]
                    /\ reader' = [reader EXCEPT !.does = "read into block"]
                    /\ UNCHANGED results
            [] OTHER ->
                    /\ \E available \in 0..InAvail :
                        reader' = [reader EXCEPT !.does = IF available >= n THEN "write block" ELSE "read"]
                    /\ UNCHANGED <<target, results>>
    /\ UNCHANGED source

\* getn(): up to n characters, or none at the end.
Getn(k) ==
    /\ k \in (IF reader.n = 0 THEN {0} ELSE 1..Min({reader.n, InAvail}) \cup (IF InAvail = 0 /\ Ended THEN {0} ELSE {}))
    /\ Take(k)
GetnFails(k) == k = 0 /\ reader.n > 0 /\ source.ended = "failed"

\* commit() of what was read, which an exception passes by.
ReadIntoBlock ==
    /\ reader.op = "count" /\ reader.does = "read into block"
    /\ \E k \in 0..reader.n :
        /\ Getn(k)
        /\ IF GetnFails(k) THEN UNCHANGED target /\ Return(Fails, reader, source.taken, target)
           ELSE /\ target' = [Put(target, Ahead(k)) EXCEPT !.alloced = FALSE]
                /\ Return(k, reader, source.taken + k, target')

\* putn() of the source's block, and release()
WriteBlock ==
    /\ reader.op = "count" /\ reader.does = "write block"
    /\ IF CanPut(Ahead(reader.n))
       THEN /\ target' = Put(target, Ahead(reader.n)) /\ Take(reader.n)
            /\ Return(reader.n, reader, source.taken + reader.n, target')
       ELSE target' = PutFails(target) /\ Return(Fails, reader, source.taken, target) /\ UNCHANGED source

\* getn() into a buffer, and putn()
ReadAndWrite ==
    /\ reader.op = "count" /\ reader.does = "read"
    /\ \E k \in 0..reader.n :
        /\ Getn(k)
        /\ IF GetnFails(k) THEN UNCHANGED target /\ Return(Fails, reader, source.taken, target)
           ELSE IF CanPut(Ahead(k))
           THEN target' = Put(target, Ahead(k)) /\ Return(k, reader, source.taken + k, target')
           ELSE target' = PutFails(target) /\ Return(Fails, reader, source.taken + k, target)

-----------------------------------------------------------------------------
StreamNext ==
    \/ Arrive \/ End
    \/ \E op \in {"line", "delim", "end"} : Begin(op, 0)
    \/ \E n \in ReadCounts : Begin("count", n)
    \/ ReadChar \/ ReadEnd \/ FlushFull \/ Finish \/ CopyToTarget
    \/ AllocBlock \/ ReadIntoBlock \/ WriteBlock \/ ReadAndWrite

StreamSpec == StreamInit /\ [][StreamNext]_streamVars

-----------------------------------------------------------------------------
(* Properties. *)

StreamTypeOK ==
    /\ source.taken <= source.arrived /\ source.arrived <= Len(source.text)
    /\ target.kind \in TargetKinds /\ target.at <= Len(target.data)
    /\ target.kind = "block" => target.at <= Room
    /\ Len(reader.outbuf) <= BufSize /\ Len(results) <= MaxCalls

\* The first position after from with one of the characters, or one past the end.
First(from, chars) ==
    Min({Len(source.text) + 1} \cup {i \in (from + 1)..Len(source.text) : CharAt(i) \in chars})
NewLine(i) == i + (IF i < Len(source.text) /\ CharAt(i) = CR /\ CharAt(i + 1) = LF THEN 1 ELSE 0)

\* What a call should write, and how far it should read.
Meant(call) ==
    LET i == First(call.from, IF call.op = "line" THEN {CR, LF} ELSE {Delim})
        end == IF call.op = "end" THEN Len(source.text)
               ELSE IF call.op = "count" THEN call.to
               ELSE i - 1
        to == IF call.op \in {"line", "delim"} THEN Min({Len(source.text), NewLine(i)}) ELSE end
    IN  [text |-> SubSeq(source.text, call.from + 1, end), to |-> to]

\* A call writes the line, the part or the rest that was asked for, and has read
\* it with its delimiter, however the characters arrived and whatever buffers they
\* went through; and it says how many it wrote.
CallsSound ==
    \A c \in {results[i] : i \in DOMAIN results} : c.r # Fails =>
        /\ c.to = Meant(c).to
        /\ SubSeq(target.data, c.onto + 1, c.upto) = Meant(c).text
        /\ c.r = c.upto - c.onto /\ c.r = Len(Meant(c).text)
        /\ c.op = "count" /\ c.r < c.n => c.r > 0 \/ c.to = Len(source.text)

\* Each call begins where the one before it has read to, and only one that fails
\* keeps a block that was lent, after which no other is lent.
LossesTold ==
    \A i \in DOMAIN results :
        /\ i > 1 => results[i].from = results[i - 1].to
        /\ results[i].lent => results[i].r = Fails

\* The target ends where the last call has written: but for a container of which a
\* call lent more than it could read, and which keeps the rest as zeros.
TargetSound ==
    Len(target.data) > target.at =>
        /\ target.kind = "container" /\ (reader.op = "count" \/ results # <<>>)
        /\ \A i \in (target.at + 1)..Len(target.data) : target.data[i] = 0 \/ \E j \in DOMAIN results : results[j].op = "count"

StreamsSound == CallsSound /\ LossesTold /\ TargetSound
=============================================================================
