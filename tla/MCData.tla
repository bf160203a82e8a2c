------------------------------- MODULE MCData --------------------------------
(* Small instances of the components that compute: checked integers; the      *)
(* parser, the lexer and the values of JSON; URIs, conversions of texts and    *)
(* the bodies of messages; streams over memory and what is read of them.  Each *)
(* runs on its own.                                                           *)
EXTENDS SafeInt, Sequences, FiniteSets

CONSTANTS
    Names, MaxTokens, MaxDepth, MaxSwitches,                 \* JsonParser
    Top, NumberTexts, StringTexts, CommentTexts,  \* JsonLexer
    Keys, Values, MaxFields, MaxSteps, Half, Integrals,      \* JsonValue
    Chars, Contents, Counts, MaxSize, MaxOps,                \* MemoryBuffers
    SourceTexts, Delim, ReadCounts, BufSize, Room, MaxCalls, \* Streams
    NarrowTop, IntHalf, IntegerTexts, DoubleTexts, WordTexts, \* Extraction
    PortTop, Garbage, UriTexts, Readings, RawTexts, QueryTexts, PathTexts, MorePaths, Pairs, \* Uris
    IntEnd, ByteTexts, UnitTexts, DateTexts, Base64Texts, Blobs, Ticks, Seconds, Fields, \* Conversions
    ContentTypes, BodyTexts, MoreTypes, MoreBodies, SetBodies, MaxUses,  \* HttpMessages
    HeaderMaps, HeaderTexts, ChunkSizes

VARIABLES
    which,      \* the component that runs
    entry, text, frames, expects, value, depth, keepOrder, switches, strayed, outcome,
    lexed, literal, parser, token,
    object, keeps, fields, number, made, steps,
    buffer, block, wrote, extent, head, odd, last, ops,
    source, target, reader, results,
    given, asked, extracted,
    task, answer,
    input, output,
    doing, wide, message, extracts, lengths, uses, own, stale, frame

Parser == INSTANCE JsonParser
Lexer == INSTANCE JsonLexer
Object == INSTANCE JsonValue
Memory == INSTANCE MemoryBuffers
Reader == INSTANCE Streams
Extractor == INSTANCE Extraction
Address == INSTANCE Uris
Converter == INSTANCE Conversions
Messages == INSTANCE HttpMessages WITH results <- extracts, asked <- lengths

ASSUME TextAssumption ==
    /\ Parser!JsonParserAssumption /\ Lexer!JsonLexerAssumption /\ Object!JsonValueAssumption
    /\ Address!UriAssumption /\ Converter!ConversionAssumption /\ Messages!HttpMessagesAssumption

parserVars ==
    <<entry, text, frames, expects, value, depth, keepOrder, switches, strayed, outcome>>
lexerVars == <<lexed, literal, parser, token>>
objectVars == <<object, keeps, fields, number, made, steps>>
memoryVars == <<buffer, block, wrote, extent, head, odd, last, ops>>
readerVars == <<source, target, reader, results>>
extractVars == <<given, asked, extracted>>
uriVars == <<task, answer>>
conversionVars == <<input, output>>
messageVars == <<doing, wide, message, extracts, lengths, uses, own, stale, frame>>
textVars == <<parserVars, lexerVars, objectVars, uriVars, conversionVars, messageVars>>
streamVars == <<memoryVars, readerVars, extractVars>>
dataVars == <<which, intVars, textVars, streamVars>>

\* Numbers at the ends of every type, and around its middle.
MCBits == [n \in Sizes |-> CASE n = 1 -> 2 [] n = 2 -> 3 [] n = 4 -> 6 [] n = 8 -> 12]
MCNumbers ==
    {-2048, -2047, -33, -32} \cup (-4)..3
        \cup {7, 31, 32, 45, 63, 64, 91, 2047, 2048, 4095}

\* Two members take nine tokens; the functions with an error code differ from the
\* others only in what they do at the end, and are given shorter texts.
ShortText == 6

MCIntegrals == {-33, -32, -31, -5, -4, -1, 0, 1, 3, 4, 7, 8, 16, 31, 32, 63}

\* Every text of some characters: - + . 0 1 6 e in numbers; " \ u n a 0 and a
\* control character in strings, and more with escaped units of one byte, two and
\* three, surrogates and pairs of them; * / newline and a in comments.
Texts(alphabet, n) == UNION {[1..k -> alphabet] : k \in 0..n}
MCNumberTexts == {<<c>> \o t : c \in {45, 48, 49, 54}, t \in Texts({43, 45, 46, 48, 49, 54, 101}, 4)}
MCStringTexts == Texts({34, 92, 117, 110, 97, 48, 1}, 5)
    \cup {<<92, 117>> \o h \o t : h \in [1..4 -> {48, 56, 68, 99}], t \in Texts({34, 92, 97}, 2)}
    \cup {<<92, 117>> \o g \o <<92, 117>> \o h \o <<34>> : g, h \in
            {<<100, 56, 51, 68>>, <<68, 66, 102, 70>>, <<100, 99, 48, 48>>, <<68, 102, 70, 102>>,
             <<100, 55, 102, 102>>, <<101, 48, 48, 48>>, <<48, 48, 52, 49>>}}
MCCommentTexts == Texts({42, 47, 10, 97}, 5)

\* Streams: delimiter 7, carriage return, newline; numbers: white space + - 0 1 6 a
\* and + - . 0 9 e; words: the beginnings of true, false, 1 and 0, with one
\* character more.
MCContents == {<<>>, <<1>>, <<1, 2>>}
MCSourceTexts == Texts({7, 10, 13}, 3)
MCIntegerTexts == Texts({32, 43, 45, 48, 49, 54, 97}, 4)
MCDoubleTexts == Texts({43, 45, 46, 48, 57, 101}, 5)
MCWordTexts ==
    UNION {{space \o SubSeq(w, 1, k) \o more : space \in Texts({32}, 1), k \in 0..Len(w),
                more \in Texts({32, 97, 101}, 1)}
           : w \in {<<116, 114, 117, 101>>, <<102, 97, 108, 115, 101>>, <<49>>, <<48>>}}

\* URIs: every short text of a 1 : / ? # @ % and space, and more with an authority;
\* readings with every part or none; raw texts of characters that each part treats
\* in its own way.
Maybe(S) == {{}} \cup {{x} : x \in S}
MCUriTexts == Texts({97, 49, 58, 47, 63, 35, 64, 37, 32}, 4)
    \cup {s \o <<47, 47>> \o a \o p : s \in {<<>>, <<65, 58>>}, a \in Texts({65, 49, 58, 64, 91}, 4),
            p \in {<<>>, <<47>>, <<47, 47>>, <<47, 97, 63, 97, 35>>, <<63, 97>>}}
MCReadings ==
    {r \in [scheme : Maybe({<<97, 43>>}), slashes : BOOLEAN,
            authority : [user : Maybe({<<>>, <<97, 58>>}), host : {{}, {<<>>}, {<<65, 49>>}, {<<91, 58, 93>>}},
                         port : Maybe({<<>>, <<49, 49, 49>>})],
            path : Maybe({<<47>>, <<47, 97, 58>>, <<97>>}), query : Maybe({<<>>, <<63, 58>>}),
            fragment : Maybe({<<>>, <<47>>}), unread : {<<>>}] :
        LET a == r.authority IN
        /\ a.host = {} => a.user = {} /\ a.port = {}
        /\ a.host # {} => r.slashes
        /\ a.host = {<<>>} => a.user # {} \/ a.port # {}
        /\ r.slashes => r.path # {<<97>>}}
MCRawTexts == Texts({97, 32, 37, 43, 47, 38, 58, 63, 200}, 3)
MCQueryTexts == Texts({97, 98, 38, 59, 61}, 5)
MCPathTexts == Texts({97, 47, 63, 37, 58}, 3)
MCMorePaths == Texts({97, 47}, 2)
MCPairs == {<<<<98>>, <<>>>>, <<<<>>, <<61>>>>, <<<<38, 43>>, <<59, 37, 97>>>>, <<<<97>>, <<98>>>>}
MCGarbage == {-1, 0, 7}

\* Texts of the bytes and units where their kinds begin and end; dates of . 0 5 : Z;
\* base64 of A B Q / = and *.
MCByteTexts == Texts({0, 127, 128, 143, 144, 159, 160, 191, 192, 194, 224, 237, 239, 240, 244, 247, 248}, 3)
    \cup {<<a, b, c, d>> : a \in {194, 240, 241, 244, 247}, b \in {65, 128, 143, 144, 191},
                           c \in {128, 191, 200}, d \in {63, 128, 191}}
MCUnitTexts == Texts({0, 127, 128, 2047, 2048, 55295, 55296, 56319, 56320, 57343, 57344, 65535}, 3)
MCDateTexts == Texts({46, 48, 53, 58, 90}, 5)
    \cup {<<48, 46>> \o [i \in 1..n |-> 48 + i] \o <<90>> : n \in 6..8}
MCBase64Texts == Texts({65, 66, 81, 47, 61, 42}, 4)
    \cup {<<65, 66, 47, 43>> \o s : s \in Texts({65, 81, 61}, 4)}
    \cup {s \o <<65, 66, 47, 43>> : s \in Texts({65, 61}, 4)}
MCBlobs == Texts({0, 1, 15, 16, 63, 64, 192, 255}, 3)
    \cup {<<0, 85, 170, a, b>> : a, b \in {0, 3, 240, 255}}
MCTicks == {0, 1, 9, 10, 12345, 500000, 1000000, 1200000, 9999999, 9999990}
MCSeconds == -61..-59 \cup -1..125
    \cup {3599, 3600, 3660, 3661, 86399, 86400, 86401, 90061, 172799, 1048575, 1048576, 1123200}
MCFields ==
    [days : {{}, {0}, {1}, {12}, {13}}, hours : {{}, {25}}, minutes : {{}, {1}},
     seconds : {{}, {0}, {61}}, fraction : BOOLEAN, last : BOOLEAN]

\* Messages: every charset with bodies of A, FE and FF, of a surrogate pair and of
\* two bytes of UTF-8; Content-Types with a charset written in every way, or none.
Words == {"us-ascii", "utf-8", "iso-8859-1", "utf-16", "utf-16le", "utf-16be", "koi8-r"}
MCContentTypes == {<<t, ";", "charset", "=", w>> : t \in {"text/plain", "application/json"}, w \in Words}
MCBodyTexts == Texts({65, 254, 255}, 3)
    \cup {mark \o w : mark \in {<<255, 254>>, <<254, 255>>}, w \in Texts({65, 254}, 2)}
    \cup {<<195, 169>>, <<0, 216, 0, 220>>, <<216, 0, 220, 0>>, <<255, 254, 0, 216, 0, 220>>}
MCMoreTypes == {<<"text/plain", ";">> \o t : t \in Texts({";", "=", "\"", " ", "charset"}, 3)}
    \cup {<<"text/plain", ";">> \o s \o <<"charset">> \o t \o <<"=">> \o u \o v :
            s, t \in Texts({";", " "}, 1), u \in Texts({"\"", " ", "utf-8"}, 2),
            v \in Texts({";", " "}, 1)
                \cup {<<"\"">>, <<"\"", ";">>, <<";", " ">>, <<" ", ";">>, <<"koi8-r">>, <<";", "koi8-r">>}}
    \cup {<<s>> \o t :
            s \in {"text/plain", "text/json", "application/json", "application/x-json", "image/png", " "},
            t \in {<<>>, <<" ">>, <<";">>, <<";", "charset", "=", "utf-8">>, <<"=">>,
                   <<";", "koi8-r", ";", "charset", "=", "utf-8">>}}
    \cup {<<>>}
MCMoreBodies == {<<>>, <<200>>}
MCSetBodies == {<<>>, <<65>>, <<65, 66>>}
MCHeaderMaps == UNION {[names -> Texts({"x", ":", " ", ","}, 2)] : names \in SUBSET {<<"a">>, <<"b">>, <<>>}}
MCHeaderTexts == Texts({"a", "b", ":", " ", "CR", "LF"}, 5)
MCChunkSizes == 0..40 \cup {255, 256, 300}

-----------------------------------------------------------------------------
\* Those that do not run keep one state.
MCInit ==
    /\ which \in {"integers", "parser", "lexer", "object", "memory", "streams", "extraction",
                 "uris", "conversions", "messages"}
    /\ IntInit /\ (which # "integers" => m_int = Literal(0))
    /\ Parser!JsonInit
    /\ IF which = "parser" THEN entry # "throwing" \/ ~keepOrder ELSE entry = "throwing" /\ ~keepOrder
    /\ Object!ValueInit /\ (which # "object" => ~keeps)
    /\ Memory!MemInit /\ (which # "memory" => buffer = Memory!NewBuffer("container", TRUE, <<>>))
    /\ Reader!StreamInit /\ (which # "streams" => source.text = <<>> /\ target.kind = "plain")
    /\ IF which = "extraction" THEN Extractor!ExtractInit
       ELSE given = <<>> /\ asked = "char" /\ extracted = [values |-> {}, at |-> 0]
    /\ IF which = "lexer" THEN Lexer!LexInit
       ELSE lexed = <<>> /\ literal = "string" /\ parser = 0 /\ token = 0
    /\ IF which = "uris" THEN Address!UriInit ELSE task = [kind |-> "split", text |-> <<>>] /\ answer = {}
    /\ IF which = "conversions" THEN Converter!ConversionInit
       ELSE input = [kind |-> "ticks", ticks |-> 0] /\ output = {}
    /\ IF which = "messages" THEN Messages!MessageInit ELSE Messages!Idle

MCNext ==
    \/ which = "integers" /\ IntNext /\ UNCHANGED <<which, textVars, streamVars>>
    \/ /\ which = "parser" /\ (entry # "throwing" => Len(text) < ShortText)
       /\ Parser!JsonNext
       /\ UNCHANGED <<which, intVars, lexerVars, objectVars, uriVars, conversionVars, messageVars, streamVars>>
    \/ /\ which = "lexer" /\ Lexer!LexNext
       /\ UNCHANGED <<which, intVars, parserVars, objectVars, uriVars, conversionVars, messageVars, streamVars>>
    \/ /\ which = "object" /\ Object!ValueNext
       /\ UNCHANGED <<which, intVars, parserVars, lexerVars, uriVars, conversionVars, messageVars, streamVars>>
    \/ which = "memory" /\ Memory!MemNext /\ UNCHANGED <<which, intVars, textVars, readerVars, extractVars>>
    \/ which = "streams" /\ Reader!StreamNext /\ UNCHANGED <<which, intVars, textVars, memoryVars, extractVars>>
    \/ which = "extraction" /\ Extractor!ExtractNext /\ UNCHANGED <<which, intVars, textVars, memoryVars, readerVars>>
    \/ /\ which = "uris" /\ Address!UriNext
       /\ UNCHANGED <<which, intVars, parserVars, lexerVars, objectVars, conversionVars, messageVars, streamVars>>
    \/ /\ which = "messages" /\ Messages!MessageNext
       /\ UNCHANGED <<which, intVars, parserVars, lexerVars, objectVars, uriVars, conversionVars, streamVars>>
    \/ /\ which = "conversions" /\ Converter!ConversionNext
       /\ UNCHANGED <<which, intVars, parserVars, lexerVars, objectVars, uriVars, messageVars, streamVars>>

MCSpec == MCInit /\ [][MCNext]_dataVars

\* Every variable has its type.
DataTypeOK ==
    CASE which = "integers" -> SafeIntTypeOK
      [] which = "parser" -> Parser!JsonTypeOK
      [] which = "lexer" -> Lexer!LexTypeOK
      [] which = "object" -> Object!ValueTypeOK
      [] which = "memory" -> Memory!MemTypeOK
      [] which = "streams" -> Reader!StreamTypeOK
      [] which = "extraction" -> Extractor!ExtractTypeOK
      [] which = "uris" -> Address!UriTypeOK
      [] which = "conversions" -> Converter!ConversionTypeOK
      [] which = "messages" -> Messages!MessageTypeOK

\* What is accepted is JSON and what is JSON is accepted, with the value that it
\* denotes, written so that it is read again; members are found by their names,
\* and numbers say truly what they are.  A URI's text and parts agree, and what
\* was encoded into one is found in it again.  What one conversion of a text makes,
\* the other takes back.  A message's body is set, announced, received and extracted
\* as what it is.  The exceptions are those of ParserSound, LexerSound, ValueSound,
\* UriSound, ConversionsSound and MessagesSound.
TextsSound ==
    /\ which = "parser" => Parser!ParserSound
    /\ which = "lexer" => Lexer!LexerSound
    /\ which = "object" => Object!ValueSound
    /\ which = "uris" => Address!UriSound
    /\ which = "conversions" => Converter!ConversionsSound
    /\ which = "messages" => Messages!MessagesSound

\* Buffers over memory give and keep what was written, in its place; the readers
\* of a stream copy what was asked for, and have read no more than that, however
\* the characters arrive; and what is extracted is what the text denotes: the
\* exceptions are those of MemorySound, Streams' StreamsSound and ExtractSound.
StreamsSound ==
    /\ which = "memory" => Memory!MemorySound
    /\ which = "streams" => Reader!StreamsSound
    /\ which = "extraction" => Extractor!ExtractSound
=============================================================================
