--------------------------------- MODULE Uris ----------------------------------
(* URIs: how uri_parser.cpp takes one apart, how uri.cpp writes, encodes,       *)
(* decodes and compares one, and how uri_builder.cpp puts one together.  A      *)
(* character is its code.  inner_parse() gives pointers into the text: a part   *)
(* is {} if there is none and {p} if it is p.  With UTF-16 strings encode() and *)
(* decode() also convert (Conversions); here a character is one of UTF-8.       *)
EXTENDS Integers, Sequences, SequencesExt, FiniteSetsExt

CONSTANTS
    PortTop,        \* INT_MAX
    Garbage,        \* what an int that was not initialized may hold
    UriTexts,       \* parsed,
    Readings,       \* written and parsed,
    RawTexts,       \* encoded,
    QueryTexts,     \* split,
    PathTexts,      \* appended to a path, the second ones being MorePaths,
    MorePaths,
    Pairs           \* and appended to a query

UriAssumption == PortTop \in Nat /\ Garbage \subseteq Int

VARIABLES
    task,   \* what is asked for,
    answer  \* and the set of what may come of it

uriVars == <<task, answer>>

-----------------------------------------------------------------------------
(* Characters (uri_parser.h).                                                 *)
Colon == 58
Slash == 47
Question == 63
Hash == 35
At == 64
Percent == 37
Plus == 43
Ampersand == 38
Semicolon == 59
Equals == 61

IsDigit(c) == c \in 48..57
IsAlpha(c) == c \in 65..90 \/ c \in 97..122
IsHex(c) == IsDigit(c) \/ c \in 65..70 \/ c \in 97..102

IsUnreserved(c) == IsAlpha(c) \/ IsDigit(c) \/ c \in {45, 46, 95, 126}
IsGenDelim(c) == c \in {Colon, Slash, Question, Hash, 91, 93, At}
IsSubDelim(c) == c \in {33, 36, Ampersand, 39, 40, 41, 42, Plus, 44, Semicolon, Equals}
IsReserved(c) == IsGenDelim(c) \/ IsSubDelim(c)
IsSchemeCharacter(c) == IsAlpha(c) \/ IsDigit(c) \/ c \in {Plus, 45, 46}
IsUserInfoCharacter(c) == IsUnreserved(c) \/ IsSubDelim(c) \/ c \in {Percent, Colon}
IsAuthorityCharacter(c) == IsUserInfoCharacter(c) \/ c \in {At, 91, 93}
IsPathCharacter(c) == IsUserInfoCharacter(c) \/ c \in {Slash, At}
IsQueryCharacter(c) == IsPathCharacter(c) \/ c = Question

Lower(s) == [i \in DOMAIN s |-> IF s[i] \in 65..90 THEN s[i] + 32 ELSE s[i]]

-----------------------------------------------------------------------------
(* inner_parse and parse.                                                     *)

\* The first place, from i on, of a character of stops, or the one after the end.
Find(s, i, stops) == Min({j \in i..Len(s) : s[j] \in stops} \cup {Len(s) + 1})
Between(s, i, j) == SubSeq(s, i, j - 1)
CharAt(s, i) == IF i \in DOMAIN s THEN s[i] ELSE 0
AllIn(s, Legal(_)) == \A i \in DOMAIN s : Legal(s[i])

\* The port is what follows the last colon if that is all digits.
PortColon(s, begin, end) ==
    LET first == Max({begin} \cup {i \in begin..(end - 1) : ~IsDigit(s[i])}) IN
    IF CharAt(s, first) = Colon THEN first ELSE end

\* The user's name and password end at an @ that follows only their characters.
UserEnd(s, begin, end) == Min({i \in begin..(end - 1) : ~IsUserInfoCharacter(s[i])} \cup {end})

NoAuthority == [user |-> {}, host |-> {}, port |-> {}]
AuthorityOf(s, begin, end) ==
    LET colon == PortColon(s, begin, end)
        user == UserEnd(s, begin, colon)
        named == CharAt(s, user) = At
    IN  IF begin = end THEN NoAuthority
        ELSE [user |-> IF named THEN {Between(s, begin, user)} ELSE {},
              host |-> {Between(s, IF named THEN user + 1 ELSE begin, colon)},
              port |-> IF colon = end THEN {} ELSE {Between(s, colon + 1, end)}]

\* The pointers, and where reading ended; {} if the text is refused.
InnerParse(s) ==
    LET colon == Find(s, 1, {Colon})
        isRelative == colon >= Find(s, 1, {Slash})
        afterScheme == IF isRelative THEN 1 ELSE colon + 1
        slashes == CharAt(s, afterScheme) = Slash /\ CharAt(s, afterScheme + 1) = Slash
        begin == IF slashes THEN afterScheme + 2 ELSE afterScheme
        end == IF slashes THEN Find(s, begin, {Slash, Question, Hash}) ELSE begin
        hasPath == IsPathCharacter(CharAt(s, end))
        pathEnd == IF hasPath THEN Find(s, end, {Question, Hash}) ELSE end
        hasQuery == CharAt(s, pathEnd) = Question
        queryEnd == IF hasQuery THEN Find(s, pathEnd, {Hash}) ELSE pathEnd
        hasFragment == CharAt(s, queryEnd) = Hash
        last == IF hasFragment THEN Len(s) + 1 ELSE queryEnd
        scheme == Between(s, 1, colon)
        query == Between(s, pathEnd + 1, queryEnd)
        fragment == Between(s, queryEnd + 1, last)
    IN  IF /\ ~isRelative => scheme # <<>> /\ IsAlpha(scheme[1]) /\ AllIn(scheme, IsSchemeCharacter)
           /\ AllIn(Between(s, begin, end), IsAuthorityCharacter)
           /\ AllIn(Between(s, end, pathEnd), IsPathCharacter)
           /\ AllIn(query, IsQueryCharacter) /\ AllIn(fragment, IsQueryCharacter)
        THEN {[scheme |-> IF isRelative THEN {} ELSE {scheme}, slashes |-> slashes,
               authority |-> IF slashes THEN AuthorityOf(s, begin, end) ELSE NoAuthority,
               path |-> IF hasPath THEN {Between(s, end, pathEnd)} ELSE {},
               query |-> IF hasQuery THEN {query} ELSE {},
               fragment |-> IF hasFragment THEN {fragment} ELSE {},
               unread |-> Between(s, last, Len(s) + 1)]}
        ELSE {}

\* scan_string<int>: nothing is stored if there is no digit, and only bad() tested.
ScanInt(digits) ==
    IF digits = <<>> THEN Garbage
    ELSE {Min({FoldLeft(LAMBDA n, c : n * 10 + c - 48, 0, digits), PortTop})}

Text(part) == IF part = {} THEN <<>> ELSE CHOOSE p \in part : TRUE

\* Parse gives the set of the components there may be: {} if the text is refused.
Components(r) ==
    {[scheme |-> Lower(Text(r.scheme)), user |-> Text(r.authority.user), host |-> Lower(Text(r.authority.host)),
      port |-> port, path |-> IF r.path = {} THEN <<Slash>> ELSE Text(r.path),
      query |-> Text(r.query), fragment |-> Text(r.fragment)]
     : port \in IF r.authority.port = {} THEN {0} ELSE ScanInt(Text(r.authority.port))}
Parse(s) == UNION {Components(r) : r \in InnerParse(s)}

-----------------------------------------------------------------------------
(* uri_components::join, and the constructors of uri.                         *)

Decimal[n \in Nat] == IF n < 10 THEN <<48 + n>> ELSE Append(Decimal[n \div 10], 48 + (n % 10))

After(delimiter, s) == IF s = <<>> THEN <<>> ELSE delimiter \o s
Before(s, delimiter) == IF s = <<>> THEN <<>> ELSE s \o delimiter

\* join() first changes the components themselves.
Canonical(c) ==
    [c EXCEPT !.scheme = Lower(@), !.host = Lower(@),
              !.path = IF c.host # <<>> /\ CharAt(@, 1) # Slash THEN <<Slash>> \o @ ELSE @]

Join(c) ==
    LET host == Before(c.user, <<At>>) \o c.host \o (IF c.port > 0 THEN <<Colon>> \o Decimal[c.port] ELSE <<>>)
    IN  Before(c.scheme, <<Colon>>)
        \o (IF c.host = <<>> THEN <<>> ELSE <<Slash, Slash>> \o host)
        \o c.path \o After(<<Question>>, c.query) \o After(<<Hash>>, c.fragment)

Uri(c) == [parts |-> Canonical(c), text |-> Join(Canonical(c))]

\* The uris there may be of a text, and the one of a builder: {} is uri_exception.
FromText(s) == {Uri(c) : c \in Parse(s)}
FromComponents(c) == IF InnerParse(Uri(c).text) = {} THEN {} ELSE {Uri(c)}

-----------------------------------------------------------------------------
(* encode_impl, encode_uri, decode and operator==.                            *)

Parts == {"user_info", "host", "path", "query", "fragment", "full_uri", "data"}

\* Variants are plausible mistakes in the definition that follows them;
\* PROJECT.json pairs each with the property that detects it.
MustEncode_KeepsPercent(c, part) ==
    CASE part = "user_info" -> ~IsUserInfoCharacter(c) \/ c = Plus
      [] part = "host" -> c > 127
      [] part = "path" -> ~IsPathCharacter(c) \/ c = Plus
      [] part \in {"query", "fragment"} -> ~IsQueryCharacter(c) \/ c = Plus
      [] part = "full_uri" -> ~IsUnreserved(c) /\ ~IsReserved(c)
      [] part = "data" -> ~IsUnreserved(c)
      [] part = "pair" -> c \in {Ampersand, Semicolon, Equals, Plus} \/ ~IsQueryCharacter(c)

\* "pair" is the name or the value of append_query().
MustEncode(c, part) ==
    CASE part = "user_info" -> ~IsUserInfoCharacter(c) \/ c \in {Percent, Plus}
      [] part = "host" -> c > 127
      [] part = "path" -> ~IsPathCharacter(c) \/ c \in {Percent, Plus}
      [] part \in {"query", "fragment"} -> ~IsQueryCharacter(c) \/ c \in {Percent, Plus}
      [] part = "full_uri" -> ~IsUnreserved(c) /\ ~IsReserved(c)
      [] part = "data" -> ~IsUnreserved(c)
      [] part = "pair" -> c \in {Ampersand, Semicolon, Equals, Percent, Plus} \/ ~IsQueryCharacter(c)

Hex(n) == IF n < 10 THEN 48 + n ELSE 55 + n
HexVal(c) == IF IsDigit(c) THEN c - 48 ELSE IF c < 97 THEN c - 55 ELSE c - 87

Encode(s, part) ==
    FlattenSeq([i \in DOMAIN s |-> IF MustEncode(s[i], part) THEN <<Percent, Hex(s[i] \div 16), Hex((s[i]) % 16)>>
                                   ELSE <<s[i]>>])

RECURSIVE Decode(_)

\* {} if it throws
Decode(s) ==
    IF s = <<>> THEN {<<>>}
    ELSE IF s[1] # Percent THEN {<<s[1]>> \o rest : rest \in Decode(Tail(s))}
    ELSE IF IsHex(CharAt(s, 2)) /\ IsHex(CharAt(s, 3))
    THEN {<<HexVal(s[2]) * 16 + HexVal(s[3])>> \o rest : rest \in Decode(SubSeq(s, 4, Len(s)))}
    ELSE {}

IsEmpty(u) == u.text \in {<<>>, <<Slash>>}

\* The parts are compared in this order, and a decode() that throws ends it.
Equal(u, v) ==
    LET decoded == <<"user", "host", "path", "query", "fragment">>
        Differ(part) == Decode(u.parts[part]) # Decode(v.parts[part])
        Throws(part) == {} \in {Decode(u.parts[part]), Decode(v.parts[part])}
        Decides(part) == Differ(part) \/ Throws(part)
        first == Min({i \in DOMAIN decoded : Decides(decoded[i])} \cup {6})
    IN  CASE IsEmpty(u) \/ IsEmpty(v) -> IF IsEmpty(u) /\ IsEmpty(v) THEN "yes" ELSE "no"
          [] ~IsEmpty(u) /\ ~IsEmpty(v) ->
                IF u.parts.scheme # v.parts.scheme \/ (first > 2 /\ u.parts.port # v.parts.port) THEN "no"
                ELSE IF first = 6 THEN "yes"
                ELSE IF Throws(decoded[first]) THEN "throws" ELSE "no"

-----------------------------------------------------------------------------
(* split_path, split_query and the builder.                                   *)

RECURSIVE Pieces(_, _), SplitQuery(_)

Pieces(s, separators) ==
    LET i == Find(s, 1, separators) IN
    IF i > Len(s) THEN <<s>> ELSE <<Between(s, 1, i)>> \o Pieces(SubSeq(s, i + 1, Len(s)), separators)

SplitPath(s) == SelectSeq(Pieces(s, {Slash}), LAMBDA p : p # <<>>)

PairOf(s) ==
    LET i == Find(s, 1, {Equals}) IN
    IF i > Len(s) THEN <<>> ELSE Between(s, 1, i) :> SubSeq(s, i + 1, Len(s))

\* A semicolon separates only where no ampersand follows; a later pair replaces.
SplitQuery(s) ==
    LET ampersand == Find(s, 1, {Ampersand})
        i == IF ampersand > Len(s) THEN Find(s, 1, {Semicolon}) ELSE ampersand
    IN  IF i > Len(s) THEN PairOf(s)
        ELSE SplitQuery(SubSeq(s, i + 1, Len(s))) @@ PairOf(Between(s, 1, i))

NewBuilder ==
    [scheme |-> <<>>, user |-> <<>>, host |-> <<>>, port |-> -1, path |-> <<Slash>>,
     query |-> <<>>, fragment |-> <<>>]

\* One delimiter between the two.
Delimited(s, delimiter, more) ==
    LET ends == Last(s) = delimiter
        begins == Head(more) = delimiter
    IN  IF ends /\ begins THEN Front(s) \o more
        ELSE IF ~ends /\ ~begins THEN s \o <<delimiter>> \o more
        ELSE s \o more

AppendPath_Plain(b, path) ==
    LET encoded == Encode(path, "path") IN
    IF path \in {<<>>, <<Slash>>} THEN b
    ELSE IF b.path \in {<<>>, <<Slash>>} THEN [b EXCEPT !.path = encoded]
    ELSE [b EXCEPT !.path = Delimited(@, Slash, encoded)]

AppendPath(b, path) ==
    LET encoded == Encode(path, "path") IN
    IF path \in {<<>>, <<Slash>>} THEN b
    ELSE IF b.path \in {<<>>, <<Slash>>}
    THEN [b EXCEPT !.path = IF Head(encoded) = Slash THEN encoded ELSE <<Slash>> \o encoded]
    ELSE [b EXCEPT !.path = Delimited(@, Slash, encoded)]

AppendQuery(b, query) ==
    IF query = <<>> THEN b
    ELSE IF b.query = <<>> THEN [b EXCEPT !.query = query]
    ELSE [b EXCEPT !.query = Delimited(@, Ampersand, query)]

AppendPair(b, pair) == AppendQuery(b, Encode(pair[1], "pair") \o <<Equals>> \o Encode(pair[2], "pair"))

\* A path and another, then a pair and another under the name of the first.
Build(t) ==
    LET begun == [NewBuilder EXCEPT !.scheme = t.scheme, !.host = t.host] IN
    AppendPair(AppendPair(AppendPath(AppendPath(begun, t.path), t.more), t.pair), <<<<97>>, t.pair[2]>>)

-----------------------------------------------------------------------------
Schemes == {<<>>, <<65>>}
Hosts == {<<>>, <<66>>}

\* The text that a reading is a reading of
Written(r) ==
    LET a == r.authority IN
    (IF r.scheme = {} THEN <<>> ELSE Text(r.scheme) \o <<Colon>>)
    \o (IF r.slashes THEN <<Slash, Slash>> ELSE <<>>)
    \o (IF a.user = {} THEN <<>> ELSE Text(a.user) \o <<At>>) \o Text(a.host)
    \o (IF a.port = {} THEN <<>> ELSE <<Colon>> \o Text(a.port))
    \o Text(r.path) \o (IF r.query = {} THEN <<>> ELSE <<Question>> \o Text(r.query))
    \o (IF r.fragment = {} THEN <<>> ELSE <<Hash>> \o Text(r.fragment))

UriInit ==
    /\ \/ \E s \in UriTexts : task = [kind |-> "parse", text |-> s]
       \/ \E r \in Readings : task = [kind |-> "write", reading |-> r]
       \/ \E s \in RawTexts, p \in Parts : task = [kind |-> "encode", text |-> s, part |-> p]
       \/ \E s \in QueryTexts : task = [kind |-> "split", text |-> s]
       \/ \E s \in Schemes, h \in Hosts, p \in PathTexts, m \in MorePaths, q \in Pairs :
            task = [kind |-> "build", scheme |-> s, host |-> h, path |-> p, more |-> m, pair |-> q]
    /\ answer = {}

Ask(kind, Answer(_)) == task.kind = kind /\ answer = {} /\ answer' = {Answer(task)} /\ UNCHANGED task

UriNext ==
    \/ Ask("parse", LAMBDA t : FromText(t.text))
    \/ Ask("write", LAMBDA t : InnerParse(Written(t.reading)))
    \/ Ask("encode", LAMBDA t : Encode(t.text, t.part))
    \/ Ask("split", LAMBDA t : SplitQuery(t.text))
    \/ Ask("build", LAMBDA t : FromComponents(Build(t)))

UriSpec == UriInit /\ [][UriNext]_uriVars

-----------------------------------------------------------------------------
UriTypeOK ==
    /\ task.kind \in {"parse", "write", "encode", "split", "build"}
    /\ task.kind \in {"parse", "build"} =>
        \A u \in UNION answer : u = Uri(u.parts) /\ u.parts.port \in {-1} \cup Garbage \cup 0..PortTop

\* The grammar: each part has its characters, and what follows an authority begins
\* with a slash.
Legal(r) ==
    /\ \A s \in r.scheme : s # <<>> /\ IsAlpha(s[1]) /\ AllIn(s, IsSchemeCharacter)
    /\ \A s \in r.authority.user : AllIn(s, IsUserInfoCharacter)
    /\ \A s \in r.authority.host : AllIn(s, IsAuthorityCharacter)
    /\ \A s \in r.authority.port : AllIn(s, IsDigit)
    /\ \A s \in r.path : s # <<>> /\ AllIn(s, IsPathCharacter) /\ (r.slashes => s[1] = Slash)
    /\ \A s \in r.query \cup r.fragment : AllIn(s, IsQueryCharacter)

\* What the code takes for a scheme: a colon before any slash.
LooksAbsolute(s) == Find(s, 1, {Colon}) < Find(s, 1, {Slash})

\* An accepted text is the text of what was read, in the grammar; and what is in
\* the grammar is accepted, and read as it was written.  Two exceptions: a
\* character that begins no part is taken for the end, and what follows it for
\* nothing; and a relative reference with a colon in its query or fragment, and no
\* slash before it, is refused.
ParsesTheGrammar ==
    /\ task.kind = "parse" => \A r \in InnerParse(task.text) :
        /\ Legal(r) /\ Written(r) \o r.unread = task.text
        /\ r.unread # <<>> => <<r.slashes, r.path, r.query, r.fragment>> = <<FALSE, {}, {}, {}>>
    /\ task.kind = "write" /\ answer # {} =>
        answer = {IF task.reading.scheme = {} /\ LooksAbsolute(Written(task.reading)) THEN {} ELSE {task.reading}}

\* join() has no place for these parts, or writes them as something else.
Misjoined(c) ==
    \/ c.host # <<>> /\ AuthorityOf(c.host, 1, Len(c.host) + 1) # [NoAuthority EXCEPT !.host = {c.host}]
    \/ c.host = <<>> /\ (c.user # <<>> \/ c.port # 0 \/ (CharAt(c.path, 1) = Slash /\ CharAt(c.path, 2) = Slash))

\* A uri is one text and one set of parts: its own text has the parts that it has,
\* and it equals itself.  Exceptions: the parts that join() loses, and a host that
\* itself has an @ or ends with a port; the port when there is no digit after its
\* colon, which is not initialized; and a percent sign without two digits, which is accepted but which
\* operator== cannot decode.
TextAndPartsAgree ==
    task.kind = "parse" /\ answer # {} =>
        /\ Cardinality(UNION answer) > 1 => \E r \in InnerParse(task.text) : r.authority.port = {<<>>}
        /\ \A u \in UNION answer :
            /\ Misjoined(u.parts) \/ u.parts.port < 0 \/ FromText(u.text) = {u}
            /\ LET Malformed(part) == Decode(u.parts[part]) = {} IN
               Equal(u, u) =
                   IF ~IsEmpty(u) /\ \E part \in {"user", "host", "path", "query", "fragment"} : Malformed(part)
                             THEN "throws" ELSE "yes"

Allowed(c, part) ==
    CASE part = "user_info" -> IsUserInfoCharacter(c)
      [] part = "host" -> c <= 127
      [] part = "path" -> IsPathCharacter(c)
      [] part \in {"query", "fragment"} -> IsQueryCharacter(c)
      [] part = "full_uri" -> IsUnreserved(c) \/ IsReserved(c) \/ c = Percent
      [] part = "data" -> IsUnreserved(c) \/ c = Percent

\* An encoded text has only characters of its part, and is decoded to what it was;
\* but that of a host keeps its percent signs, which decode() takes for escapes.
EncodingsInvert ==
    task.kind = "encode" => \A s \in answer :
        /\ AllIn(s, LAMBDA c : Allowed(c, task.part))
        /\ Decode(s) = {task.text} \/ (task.part = "host" /\ Percent \in Range(task.text))

\* The pairs between separators, the last of each name; semicolons that an
\* ampersand follows are not seen.
QueriesSplit ==
    LET s == task.text
        last == Max({0} \cup {i \in DOMAIN s : s[i] = Ampersand})
        separators == {0, Len(s) + 1} \cup {i \in DOMAIN s : s[i] = Ampersand \/ (s[i] = Semicolon /\ i > last)}
        equals == {i \in DOMAIN s : s[i] = Equals /\ \E from \in separators :
                                        from < i /\ separators \cap from..i = {from}
                                        /\ \A j \in (from + 1)..(i - 1) : s[j] # Equals}
        Begin(i) == Max({j \in separators : j < i}) + 1
        Name(i) == Between(s, Begin(i), i)
        Value(i) == Between(s, i + 1, Min({j \in separators : j > i}))
    IN  task.kind = "split" => \A found \in answer :
            /\ DOMAIN found = {Name(i) : i \in equals}
            /\ \A name \in DOMAIN found :
                found[name] = Value(Max({i \in equals : Name(i) = name}))

\* What a builder was given, encoded, can be had back from the text of its uri:
\* the segments of its paths in their order, and its pairs; but without a host a
\* path that begins with two slashes becomes an authority.
BuiltAsMeant ==
    task.kind = "build" => \A uris \in answer :
        LET path == Build(task).path
            segments == SplitPath(task.path) \o SplitPath(task.more)
            name == Encode(task.pair[1], "pair")
        IN  \/ task.host = <<>> /\ CharAt(path, 1) = Slash /\ CharAt(path, 2) = Slash
            \/ \E u \in uris : \E v \in FromText(u.text) :
                LET found == SplitPath(v.parts.path)
                    pairs == SplitQuery(v.parts.query)
                IN  /\ v.text = u.text /\ v.parts = [u.parts EXCEPT !.port = 0]
                    /\ Len(found) = Len(segments)
                    /\ \A i \in DOMAIN found : Decode(found[i]) = {segments[i]}
                    /\ DOMAIN pairs = {name, <<97>>} /\ Decode(name) = {task.pair[1]}
                    /\ \A n \in DOMAIN pairs : Decode(pairs[n]) = {task.pair[2]}

UriSound ==
    ParsesTheGrammar /\ TextAndPartsAgree /\ EncodingsInvert /\ QueriesSplit /\ BuiltAsMeant
=============================================================================
