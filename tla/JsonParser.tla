------------------------------ MODULE JsonParser ------------------------------
(* JSON_Parser of json_parsing.cpp above its tokens: _ParseValue with          *)
(* _ParseObject and _ParseArray, whose calls of each other are the stack        *)
(* frames, and the functions around them, which differ in how they report.     *)
(* The tokens of a text come one by one, in any order; JsonLexer says how they *)
(* are made of characters.  Numbers, true, false and null are all literals.    *)
(* Another thread may meanwhile call keep_object_element_order.                *)
EXTENDS Integers, Sequences, FiniteSets, TLC

CONSTANTS
    Names,       \* names of members, which are compared as strings are
    MaxTokens,   \* bound: tokens of a text
    MaxDepth,    \* maxParsingDepth, which is 128, or 32
    MaxSwitches  \* bound: calls of keep_object_element_order

\* What the constants are; MCData assumes it.
JsonParserAssumption ==
    Names \subseteq Nat /\ MaxTokens \in Nat /\ MaxDepth \in Nat /\ MaxSwitches \in Nat

VARIABLES
    entry,      \* the function that was called
    text,       \* the tokens read so far
    frames,     \* the calls of _ParseObject and _ParseArray
    expects,    \* what the next token is read for
    value,      \* what _ParseValue returned last
    depth,      \* m_currentParsingDepth
    keepOrder,  \* g_keep_json_object_unsorted
    switches,   \* how often that has changed
    strayed,    \* whether an object has ended at a name without a colon
    outcome     \* what the caller gets

jsonVars == <<entry, text, frames, expects, value, depth, keepOrder, switches, strayed, outcome>>

-----------------------------------------------------------------------------
\* parse() throws, or sets an error code: that of a stream differs from that of
\* a string, and of a narrow stream of Windows, with left-over characters.
Entries == {"throwing", "string", "stream"}

Openings == {"OpenBrace", "OpenBracket"}
Closings == {"CloseBrace", "CloseBracket"}
Token(kind) == [is |-> kind, v |-> 0]
Tokens ==
    {Token(k) : k \in Openings \cup Closings
                        \cup {"Comma", "Colon", "Literal", "Malformed", "Unreadable"}}
        \cup {[is |-> "String", v |-> n] : n \in Names}
EOF == Token("EOF")

\* Members are the members of an object or the elements of an array.
Value(kind, v, keep, members) == [is |-> kind, v |-> v, keep |-> keep, at |-> members]
Null == Value("null", 0, FALSE, <<>>)
Scalar(t) == Value(t.is, t.v, FALSE, <<>>)
Member(n, v) == [name |-> n, value |-> v]

Pending == [error |-> "pending", value |-> Null]

JsonInit ==
    /\ entry \in Entries
    /\ text = <<>> /\ frames = <<>> /\ expects = "value"
    /\ value = Null /\ depth = 0
    /\ keepOrder \in BOOLEAN /\ switches = 0
    /\ strayed = FALSE /\ outcome = Pending

-----------------------------------------------------------------------------
Innermost == frames[Len(frames)]
Within(kind) == frames # <<>> /\ Innermost.is = kind
Popped == SubSeq(frames, 1, Len(frames) - 1)

DepthAfter(t) ==
    depth + (IF t.is \in Openings THEN 1 ELSE IF t.is \in Closings THEN -1 ELSE 0)

\* Variants, here and below, are plausible mistakes in the definition that
\* follows them; PROJECT.json pairs each with the property that detects it.
TokenError_OffByOne(t) ==
    IF t.is \in Openings /\ DepthAfter(t) > MaxDepth + 1 THEN "nesting"
    ELSE IF t.is \in Closings /\ DepthAfter(t) < 0 THEN "mismatched_brances"
    ELSE IF t.is = "Malformed" THEN "malformed_token"
    ELSE "none"

\* The error GetNextToken sets.  The token is then of the kind EOF.
TokenError(t) ==
    IF t.is \in Openings /\ DepthAfter(t) > MaxDepth THEN "nesting"
    ELSE IF t.is \in Closings /\ DepthAfter(t) < 0 THEN "mismatched_brances"
    ELSE IF t.is = "Malformed" THEN "malformed_token"
    ELSE "none"

\* std::sort by compare_pairs, which puts members of one name in any order.
Sorted(members) ==
    \A i, j \in DOMAIN members : i < j => members[i].name <= members[j].name
SortsOf(members) ==
    {s \in {[i \in DOMAIN members |-> members[p[i]]] : p \in Permutations(DOMAIN members)} :
        Sorted(s)}

Completed_Unsorted(v) == {v}

\* An object is sorted after the token that follows it has been read, if the
\* flag then says so.
Completed(v) ==
    IF v.is = "object" /\ ~keepOrder THEN {[v EXCEPT !.at = s] : s \in SortsOf(v.at)} ELSE {v}

\* The functions that take an error code find a token left where the parser
\* failed, and put left_over_character_in_stream in place of its error.
Fail(code, t) ==
    /\ outcome' = [error |-> IF entry # "throwing" /\ t.is # "EOF" THEN "left_over" ELSE code,
                   value |-> Null]
    /\ UNCHANGED <<frames, expects, value, strayed>>

\* A string with an escape that the narrow lexer cannot convert: the exception
\* goes past all the functions, also those that take an error code.
Throw == outcome' = [error |-> "range_error", value |-> Null] /\ UNCHANGED <<frames, expects, value, strayed>>

\* _parse_stream alone keeps the value that the characters were left over from.
LeftOver(v) ==
    /\ outcome' = [error |-> "left_over", value |-> IF entry = "stream" THEN v ELSE Null]
    /\ UNCHANGED <<frames, expects, value, strayed>>

Expect(what) == expects' = what /\ UNCHANGED <<value, strayed, outcome>>

\* The object or array of the last call is complete.
Return(kind) ==
    /\ value' = Value(kind, 0, Innermost.keep, Innermost.at)
    /\ frames' = Popped /\ expects' = "after"
    /\ UNCHANGED outcome

-----------------------------------------------------------------------------
\* _ParseValue, of the token t
ParseValue(t) ==
    CASE t.is = "OpenBrace" ->
            /\ frames' = Append(frames, [is |-> "object", keep |-> keepOrder, at |-> <<>>, name |-> 0])
            /\ Expect("first name")
      [] t.is = "OpenBracket" ->
            /\ frames' = Append(frames, [is |-> "array", keep |-> FALSE, at |-> <<>>, name |-> 0])
            /\ Expect("first element")
      [] t.is \in {"String", "Literal"} ->
            /\ value' = Scalar(t)
            /\ expects' = "after"
            /\ UNCHANGED <<frames, strayed, outcome>>
      [] OTHER -> Fail("malformed_token", t)

ParseName(t) ==
    IF t.is = "String"
    THEN /\ frames' = [frames EXCEPT ![Len(frames)].name = t.v]
         /\ Expect("colon")
    ELSE Fail("malformed_object_literal", t)

\* Without a colon the object is taken to be complete, whatever comes instead.
ParseColon(t) ==
    IF t.is = "Colon" THEN UNCHANGED frames /\ Expect("value")
    ELSE Return("object") /\ strayed' = TRUE

\* A value v is complete: what follows it belongs to whoever called for it.
Follow(v, t) ==
    LET kept == [frames EXCEPT ![Len(frames)].at =
                    Append(@, Member(IF Innermost.is = "object" THEN Innermost.name ELSE 0, v))] IN
    CASE frames = <<>> ->
            IF t.is = "EOF"
            THEN /\ outcome' = [error |-> "none", value |-> v]
                 /\ UNCHANGED <<frames, expects, value, strayed>>
            ELSE LeftOver(v)
      [] Within("object") /\ t.is = "Comma" -> frames' = kept /\ Expect("name")
      [] Within("array") /\ t.is = "Comma" -> frames' = kept /\ Expect("value")
      [] \/ Within("object") /\ t.is = "CloseBrace"
         \/ Within("array") /\ t.is = "CloseBracket" ->
            /\ value' = Value(Innermost.is, 0, Innermost.keep, kept[Len(frames)].at)
            /\ frames' = Popped /\ expects' = "after"
            /\ UNCHANGED <<strayed, outcome>>
      [] OTHER -> Fail(IF Innermost.is = "object" THEN "malformed_object_literal"
                       ELSE "malformed_array_literal", t)

Readable(t) == t.is # "Unreadable" /\ TokenError(t) = "none"

\* GetNextToken, and what its caller does with the token t.
Read(t) ==
    /\ outcome = Pending
    /\ t # EOF => Len(text) < MaxTokens
    /\ text' = IF t = EOF THEN text ELSE Append(text, t)
    /\ depth' = DepthAfter(t)
    /\ CASE t.is = "Unreadable" -> Throw
         [] t.is # "Unreadable" /\ TokenError(t) # "none" -> Fail(TokenError(t), EOF)
         [] Readable(t) /\ expects = "value" -> ParseValue(t)
         [] Readable(t) /\ expects = "first element" ->
                IF t.is = "CloseBracket" THEN Return("array") /\ UNCHANGED strayed ELSE ParseValue(t)
         [] Readable(t) /\ expects = "first name" ->
                IF t.is = "CloseBrace" THEN Return("object") /\ UNCHANGED strayed ELSE ParseName(t)
         [] Readable(t) /\ expects = "name" -> ParseName(t)
         [] Readable(t) /\ expects = "colon" -> ParseColon(t)
         [] Readable(t) /\ expects = "after" -> \E v \in Completed(value) : Follow(v, t)
    /\ UNCHANGED <<entry, keepOrder, switches>>

\* keep_object_element_order
KeepObjectElementOrder ==
    /\ outcome = Pending /\ switches < MaxSwitches
    /\ keepOrder' = ~keepOrder /\ switches' = switches + 1
    /\ UNCHANGED <<entry, text, frames, expects, value, depth, strayed, outcome>>

JsonNext == (\E t \in Tokens \cup {EOF} : Read(t)) \/ KeepObjectElementOrder
JsonSpec == JsonInit /\ [][JsonNext]_jsonVars

-----------------------------------------------------------------------------
(* Serialization.                                                             *)

RECURSIVE Format(_), FormatAll(_, _)

\* _Value::format, and format_impl of _Object and _Array
Format(v) ==
    CASE v.is = "object" -> <<Token("OpenBrace")>> \o FormatAll(v.at, TRUE) \o <<Token("CloseBrace")>>
      [] v.is = "array" -> <<Token("OpenBracket")>> \o FormatAll(v.at, FALSE) \o <<Token("CloseBracket")>>
      [] v.is = "null" -> <<Token("Literal")>>
      [] OTHER -> <<[is |-> v.is, v |-> v.v]>>

FormatAll(members, named) ==
    IF members = <<>> THEN <<>>
    ELSE (IF named THEN <<[is |-> "String", v |-> members[1].name], Token("Colon")>> ELSE <<>>)
            \o Format(members[1].value)
            \o (IF Len(members) > 1 THEN <<Token("Comma")>> ELSE <<>>)
            \o FormatAll(Tail(members), named)

-----------------------------------------------------------------------------
(* The grammar of JSON, for reference: the values that a text denotes.        *)

RECURSIVE Denoted(_), Lists(_, _)

From(ts, i) == SubSeq(ts, i, Len(ts))
Inner(ts) == SubSeq(ts, 2, Len(ts) - 1)
Enclosed(ts, open, close) ==
    Len(ts) >= 2 /\ ts[1] = Token(open) /\ ts[Len(ts)] = Token(close)

Denoted(ts) ==
    IF Len(ts) = 1 /\ ts[1].is \in {"String", "Literal", "Unreadable"} THEN {Scalar(ts[1])}
    ELSE IF Enclosed(ts, "OpenBrace", "CloseBrace")
    THEN {Value("object", 0, FALSE, ms) : ms \in Lists(Inner(ts), TRUE)}
    ELSE IF Enclosed(ts, "OpenBracket", "CloseBracket")
    THEN {Value("array", 0, FALSE, es) : es \in Lists(Inner(ts), FALSE)}
    ELSE {}

\* The members or elements that ts lists: none, or a first before any comma and the others.
Lists(ts, named) ==
    LET ends == {i \in 1..Len(ts) : i = Len(ts) \/ ts[i + 1] = Token("Comma")}
        First(i) ==
            IF ~named THEN {Member(0, v) : v \in Denoted(SubSeq(ts, 1, i))}
            ELSE IF i >= 3 /\ ts[1].is = "String" /\ ts[2] = Token("Colon")
            THEN {Member(ts[1].v, v) : v \in Denoted(SubSeq(ts, 3, i))} ELSE {}
        Others(i) ==
            IF i = Len(ts) THEN {<<>>} ELSE IF i + 1 = Len(ts) THEN {} ELSE Lists(From(ts, i + 2), named)
    IN  IF ts = <<>> THEN {<<>>}
        ELSE UNION {{<<m>> \o o : m \in First(i), o \in Others(i)} : i \in ends}

\* The depth of the brackets of ts.
Nesting(ts) ==
    LET Count(i, kinds) == Cardinality({j \in 1..i : ts[j].is \in kinds}) IN
    CHOOSE d \in 0..Len(ts) :
        /\ \A i \in 0..Len(ts) : Count(i, Openings) - Count(i, Closings) <= d
        /\ \E i \in 0..Len(ts) : Count(i, Openings) - Count(i, Closings) = d

\* v is w, with the members of its objects in some order.
RECURSIVE Same(_, _)
Same(v, w) ==
    /\ v.is = w.is /\ v.v = w.v /\ Len(v.at) = Len(w.at)
    /\ \E p \in Permutations(DOMAIN v.at) :
        /\ v.is = "array" => \A i \in DOMAIN p : p[i] = i
        /\ \A i \in DOMAIN p : v.at[i].name = w.at[p[i]].name /\ Same(v.at[i].value, w.at[p[i]].value)

RECURSIVE Searchable(_)
Searchable(v) ==
    /\ v.is = "object" /\ ~v.keep => Sorted(v.at)
    /\ \A i \in DOMAIN v.at : Searchable(v.at[i].value)

-----------------------------------------------------------------------------
(* Properties.                                                                *)

JsonTypeOK ==
    /\ entry \in Entries /\ text \in Seq(Tokens) /\ Len(text) <= MaxTokens
    /\ \A f \in {frames[i] : i \in DOMAIN frames} : f.is \in {"object", "array"} /\ f.keep \in BOOLEAN
    /\ expects \in {"value", "first name", "name", "colon", "first element", "after"}
    /\ depth \in -1..(MaxDepth + 1) /\ switches \in 0..MaxSwitches
    /\ keepOrder \in BOOLEAN /\ strayed \in BOOLEAN

\* The depth is that of the calls, so that no text of any length takes more of
\* them than maxParsingDepth: but an object that ends at a name leaves it.
DepthSound ==
    /\ Len(frames) <= MaxDepth
    /\ ~strayed /\ outcome = Pending => depth = Len(frames)

\* A text is accepted if it is JSON and no deeper than the bound, with the value
\* that JSON gives it, which is serialized to a text of the same value; what is
\* accepted besides is an object that ends at a name without a colon, and what is
\* not is a string that the lexer throws for, whatever the function that was called.
AcceptedIsJson ==
    outcome # Pending =>
        LET meant == {v \in Denoted(text) : Nesting(text) <= MaxDepth}
            Thrown == \E i \in DOMAIN text : text[i].is = "Unreadable"
        IN
        /\ meant # {} => outcome.error = IF Thrown THEN "range_error" ELSE "none"
        /\ outcome.error = "range_error" => Thrown
        /\ outcome.error = "none" /\ ~strayed =>
              /\ \E v \in meant : Same(outcome.value, v)
              /\ \E v \in Denoted(Format(outcome.value)) : Same(outcome.value, v)

\* An object that is searched by bisection has its members in order, unless
\* keep_object_element_order was called while it was parsed.
ObjectsSearchable == outcome # Pending /\ switches = 0 => Searchable(outcome.value)

ParserSound == DepthSound /\ AcceptedIsJson /\ ObjectsSearchable
=============================================================================
