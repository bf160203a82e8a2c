------------------------------ MODULE HttpMessages ------------------------------
(* The bodies of HTTP messages (http_msg.cpp, http_msg.h, http_headers.h): how  *)
(* a body is set and its length announced, how one is received, and how it is   *)
(* extracted as text in the charset that Content-Type names; beside it, the     *)
(* headers as one text and the framing of chunks (http_helpers.cpp).  A body is *)
(* of bytes; a header is of words and punctuation, a word being one member of   *)
(* it however it is capitalized.  An optional part is {} or {p}.                *)
EXTENDS Integers, Sequences, SequencesExt, FiniteSetsExt, Functions

CONSTANTS
    ContentTypes,   \* values of Content-Type
    BodyTexts,      \* bodies extracted with each,
    MoreTypes,      \* and other values of it, tried with
    MoreBodies,     \* these bodies
    SetBodies,      \* bodies set or received, one operation after another
    MaxUses,        \* bound on those operations
    HeaderMaps,     \* headers written and read
    HeaderTexts,    \* headers read
    ChunkSizes      \* sizes of chunks

HttpMessagesAssumption == MaxUses \in Nat /\ ChunkSizes \subseteq Nat

VARIABLES
    doing,      \* "extract", "receive", "build", "flatten", "parse" or "chunk"
    wide,       \* string_t is of UTF-16, as on Windows
    message,    \* the message,
    results,    \* what was extracted from it,
    asked,      \* the set of the length that was last asked for,
    uses,       \* how often the user did something to it,
    own,        \* who may have set headers of lengths himself, or
    stale,      \* may have left those of an earlier body;
    frame       \* and headers or a chunk, with the set of what they become

messageVars == <<doing, wide, message, results, asked, uses, own, stale, frame>>
userVars == <<asked, uses, own, stale>>

Unicode == INSTANCE Conversions WITH
    IntEnd <- 1, ByteTexts <- {}, UnitTexts <- {}, DateTexts <- {}, Base64Texts <- {}, Blobs <- {},
    Ticks <- {}, Seconds <- {}, Fields <- {}, input <- {}, output <- {}

-----------------------------------------------------------------------------
(* Content-Type.                                                              *)

\* The words of a header: types, textual or of JSON, and charsets.
StartsWithText == {"text/plain", "text/json"}
JsonTypes == {"application/json", "text/json", "application/x-json"}
Charsets == {"us-ascii", "utf-8", "iso-8859-1", "utf-16", "utf-16le", "utf-16be"}

TrimWhitespace(s) ==
    LET inner == {i \in DOMAIN s : s[i] # " "} IN IF inner = {} THEN <<>> ELSE SubSeq(s, Min(inner), Max(inner))

\* The index of the first c, or 0.
Find(s, c) == Min({i \in DOMAIN s : s[i] = c} \cup IF c \in Range(s) THEN {} ELSE {0})
From(s, i) == SubSeq(s, i, Len(s))
\* What is between the separators.
SplitAt(s, separators) ==
    FoldLeft(LAMBDA pieces, c : IF c \in separators THEN Append(pieces, <<>>)
                                ELSE [pieces EXCEPT ![Len(pieces)] = Append(@, c)], <<<<>>>>, s)

IsContentTypeTextual(content) ==
    \/ content # <<>> /\ content[1] \in StartsWithText
    \/ content = <<"application/json">>
IsContentTypeJson(content) == \E t \in JsonTypes : content = <<t>>
GetDefaultCharset(content) == IF IsContentTypeJson(content) THEN <<"utf-8">> ELSE <<"iso-8859-1">>

\* The ';' at the end go, and the quotation marks around; substr() of a lone mark
\* gives nothing.
WithoutSemicolons(s) == SubSeq(s, 1, Max({0} \cup {i \in DOMAIN s : s[i] # ";"}))
Unquoted(s) ==
    IF s # <<>> /\ s[1] = "\"" /\ Last(s) = "\"" THEN TrimWhitespace(SubSeq(s, 2, Len(s) - 1)) ELSE s

\* back() of an empty string reads what is before it in memory.  If that is a ';',
\* pop_back() leaves a string that nothing can read.
NeedsBack(s) == WithoutSemicolons(s) = <<>>

\* parse_content_type_and_charset: what may come of it, "lost" for the string
\* that pop_back() leaves.
ParseContentTypeAndCharset(contentType) ==
    LET semicolon == Find(contentType, ";")
        content == TrimWhitespace(IF semicolon = 0 THEN contentType ELSE SubSeq(contentType, 1, semicolon - 1))
        possible == TrimWhitespace(From(contentType, semicolon + 1))
        equals == Find(possible, "=")
        key == TrimWhitespace(SubSeq(possible, 1, equals - 1))
        isCharset == semicolon # 0 /\ equals # 0 /\ key = <<"charset">>
        value == From(possible, equals + 1)
        charset == Unquoted(TrimWhitespace(WithoutSemicolons(value)))
        charsets == IF ~isCharset THEN {GetDefaultCharset(content)}
                    ELSE IF NeedsBack(value) THEN {charset, <<"lost">>}
                    ELSE {charset}
    IN  {[content |-> content, charset |-> c] : c \in charsets}

-----------------------------------------------------------------------------
(* Charsets: a body becomes units of UTF-16, on a machine that stores the low *)
(* byte of a unit first, or UTF-8.                                            *)

\* resize(in_avail() / 2) and getn(): an odd last byte is left.
ReadUnits(body) == [i \in 1..(Len(body) \div 2) |-> body[2 * i - 1] + 256 * body[2 * i]]
Swapped(w) == [i \in DOMAIN w |-> (w[i] % 256) * 256 + w[i] \div 256]

CheckByteOrderMark(w) ==
    CASE w # <<>> /\ w[1] = 255 + 256 * 254 -> "little_endian"
      [] w # <<>> /\ w[1] = 254 + 256 * 255 -> "big_endian"
      [] OTHER -> "unknown"

\* Variants are plausible mistakes in the definition that follows them;
\* PROJECT.json pairs each with the property that detects it.
ConvertUtf16_LittleByDefault(w) ==
    CASE CheckByteOrderMark(w) = "little_endian" -> Tail(w)
      [] CheckByteOrderMark(w) = "big_endian" -> Swapped(Tail(w))
      [] CheckByteOrderMark(w) = "unknown" -> w

\* convert_utf16_to_utf16: unknown defaults to big endian.
ConvertUtf16(w) ==
    CASE CheckByteOrderMark(w) = "little_endian" -> Tail(w)
      [] CheckByteOrderMark(w) = "big_endian" -> Swapped(Tail(w))
      [] CheckByteOrderMark(w) = "unknown" -> Swapped(w)

\* extract_utf16string and extract_utf8string, once the charset is known: {} for
\* an exception.  The converters of utf-16le and utf-16be keep a byte order mark.
UnitsOf(charset, body) ==
    CASE charset \in {"us-ascii", "utf-8"} -> Unicode!Utf8ToUtf16(body)
      [] charset = "iso-8859-1" -> {body}
      [] charset = "utf-16" -> {ConvertUtf16(ReadUnits(body))}
      [] charset = "utf-16le" -> {ReadUnits(body)}
      [] charset = "utf-16be" -> {Swapped(ReadUnits(body))}
      [] charset \notin Charsets -> {}

BytesOf(charset, body) ==
    IF charset \in {"us-ascii", "utf-8"} THEN {body}
    ELSE UNION {Unicode!Utf16ToUtf8(w) : w \in UnitsOf(charset, body)}

\* What each function extracts: string_t is of bytes or of units.
InUnits(kind) == kind = "utf16string" \/ (wide /\ kind \in {"string", "json", "to_string"})
TextOf(kind, charset, body) == IF InUnits(kind) THEN UnitsOf(charset, body) ELSE BytesOf(charset, body)

\* What of the body is left.
LeftOf(charset, body) ==
    IF charset \in {"utf-16", "utf-16le", "utf-16be"} /\ Len(body) % 2 = 1 THEN <<Last(body)>> ELSE <<>>

-----------------------------------------------------------------------------
(* Extraction.                                                                *)

Kinds == {"utf8string", "utf16string", "string", "json"}
Accepts(kind, content) == IF kind = "json" THEN IsContentTypeJson(content) ELSE IsContentTypeTextual(content)
Word(charset) == IF Len(charset) = 1 THEN charset[1] ELSE "unknown"

\* A body that nobody read yet, as set or received.
Fresh == [type |-> {}, length |-> "none", number |-> 0, chunked |-> FALSE, body |-> {},
          event |-> "unset", told |-> 0, out |-> "none", coming |-> <<>>]
ContentType(m) == IF m.type = {} THEN <<>> ELSE CHOOSE t \in m.type : TRUE
Body(m) == CHOOSE b \in m.body : TRUE

\* What an extraction gives, and what it leaves of the body.
Gives(kind, outcome, text, left) == [kind |-> kind, outcome |-> outcome, text |-> text, left |-> left]
GivesText(kind, charset, body) ==
    LET texts == TextOf(kind, charset, body) IN
    IF texts = {} THEN Gives(kind, "threw", <<>>, LeftOf(charset, body))
    ELSE Gives(kind, "text", CHOOSE t \in texts : TRUE, LeftOf(charset, body))

\* parse_and_check_content_type and what follows it.  A charset that is empty says
\* that there is nothing to extract.
Checked(kind, parsed, body) ==
    CASE parsed.charset = <<"lost">> -> Gives(kind, "lost", <<>>, body)
      [] parsed.charset # <<"lost">> ->
            IF parsed.content = <<>> \/ body = <<>> THEN Gives(kind, "nothing", <<>>, body)
            ELSE IF ~Accepts(kind, parsed.content) THEN Gives(kind, "threw", <<>>, body)
            ELSE IF parsed.charset = <<>> THEN Gives(kind, "nothing", <<>>, body)
            ELSE IF Word(parsed.charset) \notin Charsets THEN Gives(kind, "threw", <<>>, body)
            ELSE GivesText(kind, Word(parsed.charset), body)

ExtractedFrom(m, kind, ignore) ==
    IF m.body = {} THEN {Gives(kind, "threw", <<>>, <<>>)}
    ELSE IF ignore THEN {GivesText(kind, "utf-8", Body(m))}
    ELSE {Checked(kind, parsed, Body(m)) : parsed \in ParseContentTypeAndCharset(ContentType(m))}

\* _extract_vector takes the bytes as they are.
VectorFrom(m) ==
    IF m.body = {} THEN {Gives("vector", "threw", <<>>, <<>>)} ELSE {Gives("vector", "text", Body(m), <<>>)}

\* to_string() copies the body of a textual message, and knows no us-ascii.
ToStringOf(m) ==
    LET Shown(parsed) ==
            CASE parsed.charset = <<"lost">> -> Gives("to_string", "lost", <<>>, Body(m))
              [] parsed.charset # <<"lost">> ->
                    IF IsContentTypeTextual(parsed.content) /\ Body(m) # <<>>
                            /\ Word(parsed.charset) \in Charsets \ {"us-ascii"}
                    THEN [GivesText("to_string", Word(parsed.charset), Body(m)) EXCEPT !.left = Body(m)]
                    ELSE Gives("to_string", "nothing", <<>>, Body(m))
    IN  IF m.type = {} \/ m.body = {} THEN {}
        ELSE {Shown(parsed) : parsed \in ParseContentTypeAndCharset(ContentType(m))}

Read(r, ignoring) ==
    /\ results' = Append(results, r @@ [ignoring |-> ignoring])
    /\ message' = IF message.body = {} THEN message ELSE [message EXCEPT !.body = {r.left}]
    /\ UNCHANGED <<doing, wide, userVars, frame>>

MayExtract ==
    \/ doing = "extract" /\ results = <<>>
    \/ doing = "receive" /\ Len(results) < 2

\* Each is a continuation of the event: it runs when the body is there.
Extract ==
    /\ MayExtract /\ message.event = "set"
    /\ \E kind \in Kinds, ignore \in BOOLEAN : \E r \in ExtractedFrom(message, kind, ignore) : Read(r, ignore)
ExtractVector ==
    /\ MayExtract /\ message.event = "set"
    /\ \E r \in VectorFrom(message) : Read(r, TRUE)
ExtractFails ==
    /\ MayExtract /\ message.event = "failed"
    /\ \E kind \in Kinds \cup {"vector"} :
        results' = Append(results, Gives(kind, "failed", <<>>, <<>>) @@ [ignoring |-> FALSE])
    /\ UNCHANGED <<doing, wide, message, userVars, frame>>
CopyToString ==
    /\ doing = "extract" /\ results = <<>>
    /\ \E r \in ToStringOf(message) : Read(r, FALSE)

-----------------------------------------------------------------------------
(* Receiving a body (_prepare_to_receive_data, _complete).                    *)

\* Without a stream of the user, one buffer is both streams.
PrepareToReceiveData ==
    /\ doing = "receive" /\ message.event = "unset" /\ message.body = {} /\ message.out # "ready"
    /\ message' = IF message.out = "none" THEN [message EXCEPT !.out = "ready", !.body = {<<>>}]
                  ELSE [message EXCEPT !.out = "ready"]
    /\ UNCHANGED <<doing, wide, results, userVars, frame>>

\* The client or server that receives writes to the stream, and says how much.
Arrives ==
    /\ doing = "receive" /\ message.event = "unset" /\ message.out = "ready" /\ message.coming # <<>>
    /\ message' = [message EXCEPT !.coming = Tail(@), !.told = @ + 1,
                                  !.body = {Append(b, Head(message.coming)) : b \in @}]
    /\ UNCHANGED <<doing, wide, results, userVars, frame>>
Complete ==
    /\ doing = "receive" /\ message.event = "unset" /\ message.out = "ready" /\ message.coming = <<>>
    /\ message' = [message EXCEPT !.event = "set"]
    /\ UNCHANGED <<doing, wide, results, userVars, frame>>
CompleteWithException ==
    /\ doing = "receive" /\ message.event = "unset" /\ message.out = "ready"
    /\ message' = [message EXCEPT !.event = "failed"]
    /\ UNCHANGED <<doing, wide, results, userVars, frame>>

-----------------------------------------------------------------------------
(* Setting a body and announcing its length.  The header of the length is     *)
(* "none", "empty", "number" with its number, or "joined", which is no number. *)

\* set_content_type_if_not_present
Typed(m, t) == IF m.type = {} THEN [m EXCEPT !.type = {t}] ELSE m
\* task_completion_event::set, of which only the first counts
Told(m, n) == IF m.event = "unset" THEN [m EXCEPT !.event = "set", !.told = n] ELSE m
WithBody(m, b) == [Typed(m, <<"text/plain">>) EXCEPT !.body = {b}]

\* Every set_body but that of a stream alone gives a length.
SetBodyOfLength_Adds(m, b) ==
    LET set == Told(WithBody(m, b), Len(b)) IN
    IF m.length = "none" THEN [set EXCEPT !.length = "number", !.number = Len(b)]
    ELSE [set EXCEPT !.length = "joined"]

SetBodyOfLength(m, b) == [Told(WithBody(m, b), Len(b)) EXCEPT !.length = "number", !.number = Len(b)]

Use ==
    /\ doing = "build" /\ uses < MaxUses /\ uses' = uses + 1
    /\ UNCHANGED <<doing, wide, results, frame>>

SetBody ==
    /\ Use /\ \E b \in SetBodies : message' = WithBody(message, b)
    /\ stale' = (message.length # "none") /\ asked' = {} /\ UNCHANGED own
SetBodyWithLength ==
    /\ Use /\ \E b \in SetBodies : message' = SetBodyOfLength(message, b)
    /\ stale' = message.chunked /\ asked' = {} /\ UNCHANGED own

\* headers().add() keeps what is there, and adds a comma and the value.
AddLength ==
    /\ Use
    /\ \E value \in {"number", "empty"} :
        message' = IF message.length = "none" THEN [message EXCEPT !.length = value, !.number = 1]
                   ELSE [message EXCEPT !.length = "joined"]
    /\ own' = TRUE /\ asked' = {} /\ UNCHANGED stale
RemoveHeader ==
    /\ Use
    /\ message' \in {[message EXCEPT !.length = "none"], [message EXCEPT !.chunked = FALSE]}
    /\ own' = TRUE /\ asked' = {} /\ UNCHANGED stale
AddTransferEncoding ==
    /\ Use /\ message' = [message EXCEPT !.chunked = TRUE]
    /\ own' = TRUE /\ asked' = {} /\ UNCHANGED stale

\* match(): an empty header matches and leaves the 0 that was there.
HasLength(m) == m.length \in {"number", "empty"}
Length(m) == IF m.length = "number" THEN m.number ELSE 0

\* _get_content_length: {} stands for size_t's maximum, a length that is unknown.
GetContentLength(m) ==
    CASE m.body = {} -> [message |-> m, length |-> {0}]
      [] m.body # {} /\ m.chunked -> [message |-> m, length |-> {}]
      [] m.body # {} /\ ~m.chunked /\ HasLength(m) -> [message |-> m, length |-> {Length(m)}]
      [] m.body # {} /\ ~m.chunked /\ ~HasLength(m) -> [message |-> [m EXCEPT !.chunked = TRUE], length |-> {}]

AskLength ==
    /\ Use
    /\ message' = GetContentLength(message).message
    /\ asked' = {GetContentLength(message).length} /\ UNCHANGED <<own, stale>>

-----------------------------------------------------------------------------
(* Headers as one text, and chunks.                                           *)

CRLF == <<"CR", "LF">>

\* http_headers::add
Add(headers, name, value) ==
    IF name \in DOMAIN headers THEN [headers EXCEPT ![name] = @ \o <<",", " ">> \o value]
    ELSE headers @@ (name :> value)

FlattenHttpHeaders(headers) ==
    FoldLeft(LAMBDA text, name : text \o name \o <<":">> \o headers[name] \o CRLF,
             <<>>, SetToSeq(DOMAIN headers))

\* wcstok_s() gives what is between the characters of CRLF, in any order and number.
Lines(text) == SplitAt(text, {"CR", "LF"})

ParseHeadersString(text) ==
    FoldLeft(LAMBDA headers, line :
                IF Find(line, ":") = 0 THEN headers
                ELSE Add(headers, TrimWhitespace(SubSeq(line, 1, Find(line, ":") - 1)),
                                  TrimWhitespace(From(line, Find(line, ":") + 1))),
             <<>>, Lines(text))

\* add_chunked_delimiters: the size is written into eight places before the chunk.
AdditionalEncodingSpace == 12
HexDigit(d) == IF d < 10 THEN 48 + d ELSE 55 + d
EightHexDigits(n) ==
    [i \in 1..8 |-> IF i < 8 /\ n < 16^(8 - i) THEN 32 ELSE HexDigit((n \div 16^(8 - i)) % 16)]
Return == 13
Newline == 10

AddChunkedDelimiters(size, chunk, bufferSize) ==
    LET data == EightHexDigits(size) \o <<Return, Newline>> \o chunk \o <<Return, Newline>>
        offset == Cardinality({i \in 1..8 : data[i] = 32})
    IN  IF bufferSize < size + AdditionalEncodingSpace THEN {}
        ELSE IF size = 0 THEN {<<48, Return, Newline, Return, Newline>>}
        ELSE {From(data, offset + 1)}

Chunk(size) == [i \in 1..size |-> 88]

Becomes(what, Made(_)) ==
    /\ doing = what /\ frame.made = {} /\ frame' = [frame EXCEPT !.made = {Made(frame.given)}]
    /\ UNCHANGED <<doing, wide, message, results, userVars>>

-----------------------------------------------------------------------------
Given(x) == frame = [given |-> x, made |-> {}]
Unused == results = <<>> /\ asked = {} /\ uses = 0 /\ own = FALSE /\ stale = FALSE
Idle == Unused /\ doing = "build" /\ wide = FALSE /\ message = Fresh /\ Given(<<>>)

\* A message whose body is there, one that is received, and one that is built; the
\* frame of the first two remembers the body.
MessageInit ==
    /\ Unused
    /\ \/ /\ doing = "extract" /\ wide \in BOOLEAN
          /\ \E <<type, b>> \in (ContentTypes \X BodyTexts) \cup (MoreTypes \X MoreBodies) :
                /\ message = [Fresh EXCEPT !.type = {type}, !.body = {b}, !.event = "set", !.told = Len(b)]
                /\ Given(b)
       \/ /\ doing = "receive" /\ wide = FALSE
          /\ \E b \in SetBodies, out \in {"none", "users"} :
                message = [Fresh EXCEPT !.type = {<<"text/plain">>}, !.coming = b, !.out = out] /\ Given(b)
       \/ Idle
       \/ /\ wide = FALSE /\ message = Fresh
          /\ \/ doing = "flatten" /\ \E headers \in HeaderMaps : Given(headers)
             \/ doing = "parse" /\ \E text \in HeaderTexts : Given(text)
             \/ doing = "chunk" /\ \E n \in ChunkSizes, room \in {0, 11, 12, 13} : Given(<<n, n + room>>)

MessageNext ==
    \/ Extract
    \/ ExtractVector
    \/ ExtractFails
    \/ CopyToString
    \/ PrepareToReceiveData
    \/ Arrives
    \/ Complete
    \/ CompleteWithException
    \/ SetBody
    \/ SetBodyWithLength
    \/ AddLength
    \/ RemoveHeader
    \/ AddTransferEncoding
    \/ AskLength
    \/ Becomes("flatten", FlattenHttpHeaders)
    \/ Becomes("parse", ParseHeadersString)
    \/ Becomes("chunk", LAMBDA g : AddChunkedDelimiters(g[1], Chunk(g[1]), g[2]))

MessageSpec == MessageInit /\ [][MessageNext]_messageVars

-----------------------------------------------------------------------------
\* Every variable has its type.
MessageTypeOK ==
    /\ doing \in {"extract", "receive", "build", "flatten", "parse", "chunk"}
    /\ wide \in BOOLEAN /\ own \in BOOLEAN /\ stale \in BOOLEAN
    /\ message.length \in {"none", "empty", "number", "joined"} /\ message.number \in Nat
    /\ message.event \in {"unset", "set", "failed"} /\ message.told \in Nat
    /\ Cardinality(message.body) <= 1 /\ Cardinality(message.type) <= 1
    /\ asked \subseteq SUBSET Nat /\ uses \in 0..MaxUses
    /\ \A i \in DOMAIN results :
        results[i].outcome = "text" => \A j \in DOMAIN results[i].text : results[i].text[j] \in 0..65535

\* The parameters of a Content-Type, as the ';' part it but for those at its end;
\* the charset among them: its value without the marks around it.
PiecesOf(t) ==
    LET pieces == SplitAt(WithoutSemicolons(TrimWhitespace(t)), {";"}) IN
    [i \in DOMAIN pieces |-> TrimWhitespace(pieces[i])]
TypeOf(t) == Head(PiecesOf(t))
Parameters(t) == Tail(PiecesOf(t))

IsCharset(p) == Find(p, "=") # 0 /\ TrimWhitespace(SubSeq(p, 1, Find(p, "=") - 1)) = <<"charset">>
ValueOf(p) == LET v == TrimWhitespace(From(p, Find(p, "=") + 1)) IN IF Len(v) > 1 THEN Unquoted(v) ELSE v
CharsetMeant(t) ==
    LET charsets == SelectSeq(Parameters(t), IsCharset) IN
    IF charsets = <<>> THEN GetDefaultCharset(TypeOf(t)) ELSE ValueOf(Head(charsets))

\* The text that bytes mean, as units: which byte of a unit is high, and whether a
\* mark says so and goes.
Unit(high, low) == 256 * high + low
Meant(charset, b) ==
    LET marked == charset = "utf-16" /\ Len(b) > 1 /\ {b[1], b[2]} = {254, 255}
        littleEndian == charset = "utf-16le" \/ (marked /\ b[1] = 255)
        first == IF marked THEN 1 ELSE 0
    IN  CASE charset = "iso-8859-1" -> {b}
          [] charset \in {"us-ascii", "utf-8"} -> Unicode!Utf8ToUtf16(b)
          [] OTHER -> {[i \in 1..(Len(b) \div 2 - first) |->
                LET k == 2 * (i + first) IN
                IF littleEndian THEN Unit(b[k], b[k - 1]) ELSE Unit(b[k - 1], b[k])]}

\* What a kind of string must say of those units; UTF-8 is taken as it is when bytes
\* are asked for.
TextMeant(kind, charset, b) ==
    CASE kind = "vector" -> {b}
      [] kind # "vector" /\ InUnits(kind) -> Meant(charset, b)
      [] kind # "vector" /\ ~InUnits(kind) ->
            IF charset \in {"us-ascii", "utf-8"} THEN {b}
            ELSE UNION {Unicode!Utf16ToUtf8(w) : w \in Meant(charset, b)}

\* An extraction gives the whole body in the charset that Content-Type means,
\* whatever the type of string, and leaves nothing, but an odd last byte of
\* UTF-16; it refuses no body but one of another type, of an unknown charset or
\* that is not well formed.  Exceptions: a parameter beside the charset makes it
\* ignored or unknown; without a value the charset gives no text, or a string that
\* nothing can read; to_string() refuses by showing nothing, and shows no us-ascii.
ExtractionSound ==
    doing = "extract" => \A i \in DOMAIN results :
        LET r == results[i]
            t == ContentType(message)
            b == frame.given
            value == IF r.ignoring THEN <<"utf-8">> ELSE CharsetMeant(t)
            charset == Word(value)
            unsaid == ~r.ignoring /\ (Len(Parameters(t)) > 1 \/ value \in {<<>>, <<"\"">>})
            refused == ~r.ignoring /\ (~Accepts(r.kind, TypeOf(t)) \/ charset \notin Charsets)
            odd == charset \in {"utf-16", "utf-16le", "utf-16be"} /\ Len(b) % 2 = 1
        IN  \/ unsaid
            \/ r.outcome = "text" /\ ~refused /\ TextMeant(r.kind, charset, b) = {r.text}
                /\ r.left = CASE r.kind = "to_string" -> b
                              [] r.kind # "to_string" /\ odd -> <<Last(b)>>
                              [] r.kind # "to_string" /\ ~odd -> <<>>
            \/ r.outcome = "threw" /\ (refused \/ TextMeant(r.kind, charset, b) = {})
            \/ r.outcome = "nothing" /\ (b = <<>> \/ TypeOf(t) = <<>>)
            \/ r.outcome = "nothing" /\ r.kind = "to_string" /\ (refused \/ charset = "us-ascii")

\* A body that is received is extracted when all of it is there, whole and once, by
\* whoever comes first; after a failure nothing is extracted; and a body that goes
\* into the user's stream is not extracted at all.
ReceivedSound ==
    doing = "receive" => \A i \in DOMAIN results :
        LET r == results[i]
            taken == \E j \in 1..(i - 1) : results[j].outcome = "text"
        IN  /\ (r.outcome = "failed") = (message.event = "failed")
            /\ message.body = {} => r.outcome \in {"failed", "threw"}
            /\ r.outcome = "text" => r.text = IF taken THEN <<>> ELSE frame.given
            /\ r.outcome = "nothing" => taken \/ frame.given = <<>>

\* Of a message whose headers of lengths the user left alone, the length asked for
\* is that of its body, or unknown; and exactly one of two headers says so.
\* Exception: a body set without a length after one with a length, or with a
\* length after one without whose length was asked for, has the headers of both.
LengthsSound ==
    doing = "build" /\ ~own /\ ~stale => \A length \in asked :
        /\ message.body = {} => length = {0}
        /\ message.body # {} =>
            /\ length = {} => message.chunked /\ message.length = "none"
            /\ length # {} => ~message.chunked /\ length = {Len(Body(message))}

\* Headers that are written are read as they were, without the white space around
\* them, which joining empty values leaves too; of any text, the headers read are
\* those of its lines that have a name before a colon.
ReadAgain(headers) ==
    ParseHeadersString(FlattenHttpHeaders(headers)) =
        [name \in DOMAIN headers |-> TrimWhitespace(headers[name])]
HeadersSound ==
    /\ doing = "flatten" => ReadAgain(frame.given)
    /\ doing = "parse" => \A headers \in frame.made :
        /\ ReadAgain(headers)
        /\ \A name \in DOMAIN headers : ":" \notin Range(name)
        /\ \A i \in DOMAIN frame.given : frame.given[i] = ":" =>
            LET start == Max({0} \cup {j \in 1..(i - 1) : frame.given[j] \in {"CR", "LF"}})
                name == SubSeq(frame.given, start + 1, i - 1)
            IN  ":" \in Range(name) \/ TrimWhitespace(name) \in DOMAIN headers

\* A chunk is its size in hexadecimal digits, the first of which is not 0 unless
\* it is the last chunk, then a line's end, the characters, and a line's end.
IsHexDigit(c) == c \in 48..57 \cup 65..70
Unhex(s) == FoldLeft(LAMBDA n, c : 16 * n + (IF c < 58 THEN c - 48 ELSE c - 55), 0, s)
ChunksSound ==
    doing = "chunk" => \A made \in frame.made :
        LET n == frame.given[1] IN
        /\ (made = {}) = (frame.given[2] < n + 12)
        /\ \A s \in made :
            LET digits == Len(s) - n - 4 IN
            /\ digits > 0 /\ \A i \in 1..digits : IsHexDigit(s[i])
            /\ Unhex(SubSeq(s, 1, digits)) = n /\ (n = 0 \/ s[1] # 48)
            /\ From(s, digits + 1) = <<Return, Newline>> \o Chunk(n) \o <<Return, Newline>>

MessagesSound == ExtractionSound /\ ReceivedSound /\ LengthsSound /\ HeadersSound /\ ChunksSound
=============================================================================
