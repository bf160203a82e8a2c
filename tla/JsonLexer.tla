------------------------------ MODULE JsonLexer -------------------------------
(* How JSON_Parser (json_parsing.cpp) makes numbers, strings and comments of    *)
(* characters, each with the grammar it should follow, and how a string is      *)
(* written again (json_serialization.cpp).  A character is its code.  There are *)
(* two parsers, of a string and of a stream, and each is narrow, of bytes, or   *)
(* wide, of the units of UTF-16.  Widths are those of the code when Top is      *)
(* 2^64 - 1.  Positions are those of the characters read; lines and columns are *)
(* left out.                                                                    *)
EXTENDS Integers, Sequences, SequencesExt

CONSTANTS
    Top,          \* ULLONG_MAX
    NumberTexts,  \* the texts that are read, beginning with - or a digit,
    StringTexts,  \* after a quote,
    CommentTexts  \* and after a slash

\* What the constants are; MCData assumes it.
JsonLexerAssumption == Top \in Nat

VARIABLES
    lexed,   \* the text
    literal, \* and as what it is read
    parser,  \* who reads it
    token    \* what has been made of it

lexVars == <<lexed, literal, parser, token>>

-----------------------------------------------------------------------------
Parsers == [of : {"string", "stream"}, narrow : BOOLEAN]

HexDigits == 4                          \* of \u

Quote == 34
Plus == 43
Minus == 45
Dot == 46
Slash == 47
Star == 42
Zero == 48
Backslash == 92
NewLine == 10
Exponents == {69, 101}                  \* E, e
Eof == -1

IsDigit(c) == c \in 48..57
IsHex(c) == IsDigit(c) \/ c \in 65..70 \/ c \in 97..102
HexVal(c) == IF IsDigit(c) THEN c - 48 ELSE IF c < 97 THEN c - 55 ELSE c - 87
IsControl(c) == c \in 0..31

\* PeekCharacter, at position i
At(s, i) == IF i \in DOMAIN s THEN s[i] ELSE Eof
Rest(s, i) == SubSeq(s, i, Len(s))

-----------------------------------------------------------------------------
(* Numbers.                                                                   *)

RECURSIVE ParseInt64(_, _, _), Digits(_, _), RestOfNumber(_, _, _, _), Decimal(_)

\* Variants are plausible mistakes in the definition that follows them;
\* PROJECT.json pairs each with the property that detects it.
ParseInt64_OffByOne(s, i, n) ==
    LET next == At(s, i) - Zero IN
    IF ~IsDigit(At(s, i)) THEN [n |-> n, at |-> i, complete |-> TRUE]
    ELSE IF n > Top \div 10
    THEN [n |-> n, at |-> i, complete |-> FALSE]
    ELSE ParseInt64(s, i + 1, (n * 10 + next) % (Top + 1))

\* The digits from position i after those of the value n, as far as Top goes.
ParseInt64(s, i, n) ==
    LET next == At(s, i) - Zero IN
    IF ~IsDigit(At(s, i)) THEN [n |-> n, at |-> i, complete |-> TRUE]
    ELSE IF n > Top \div 10 \/ (n = Top \div 10 /\ next > Top % 10)
    THEN [n |-> n, at |-> i, complete |-> FALSE]
    ELSE ParseInt64(s, i + 1, n * 10 + next)

\* The position after the digits at i.
Digits(s, i) == IF IsDigit(At(s, i)) THEN Digits(s, i + 1) ELSE i

\* print_llu
Decimal(n) == (IF n < 10 THEN <<>> ELSE Decimal(n \div 10)) \o <<Zero + (n % 10)>>

Bad == [is |-> "malformed", negative |-> FALSE, n |-> 0, text |-> <<>>, at |-> 0]

\* The loop that collects the text of a number for strtod.
RestOfNumber(s, i, buf, decimal) ==
    LET c == At(s, i) IN
    IF IsDigit(c) THEN RestOfNumber(s, i + 1, Append(buf, c), decimal)
    ELSE IF c = Dot
    THEN IF decimal \/ ~IsDigit(At(s, i + 1)) THEN Bad
         ELSE RestOfNumber(s, i + 2, buf \o <<c, At(s, i + 1)>>, TRUE)
    ELSE IF c \in Exponents
    THEN LET first == IF At(s, i + 1) \in {Plus, Minus} THEN i + 2 ELSE i + 1
             end == Digits(s, first) IN
         IF end = first THEN Bad
         ELSE [Bad EXCEPT !.is = "double", !.text = buf \o SubSeq(s, i, end - 1), !.at = end]
    ELSE [Bad EXCEPT !.is = "double", !.text = buf, !.at = i]

CompleteNumberLiteral(s) ==
    LET negative == s[1] = Minus
        first == IF negative THEN 2 ELSE 1
        int == ParseInt64(s, first + 1, At(s, first) - Zero)
        Signed(t) == [t EXCEPT !.negative = negative /\ t.is # "malformed"]
    IN  IF ~IsDigit(At(s, first)) \/ (s[first] = Zero /\ At(s, first + 1) = Zero) THEN Bad
        ELSE IF int.complete /\ At(s, int.at) \notin Exponents \cup {Dot}
        THEN IF negative /\ int.n > Top \div 2 + 1
             THEN Signed([Bad EXCEPT !.is = "double", !.text = Decimal(int.n), !.at = int.at])
             ELSE Signed([Bad EXCEPT !.is = "integer", !.n = int.n, !.at = int.at])
        ELSE Signed(RestOfNumber(s, int.at, Decimal(int.n), FALSE))

-----------------------------------------------------------------------------
(* Strings.                                                                   *)

RECURSIVE HexNumber(_, _, _, _), StringFrom(_, _, _, _, _), EscapeString(_)

\* handle_unescape_char, after the backslash: the character, or -1, and the
\* position after what was read.
Read(c, i) == [c |-> c, at |-> i]
HexNumber(s, i, n, left) ==
    IF left = 0 THEN Read(n, i)
    ELSE IF IsHex(At(s, i)) THEN HexNumber(s, i + 1, n * 16 + HexVal(s[i]), left - 1)
    ELSE Read(Eof, IF At(s, i) = Eof THEN i ELSE i + 1)

Escapes == [c \in {Quote, Backslash, Slash, 98, 102, 110, 114, 116} |->
    CASE c = 98 -> 8 [] c = 102 -> 12 [] c = 110 -> NewLine [] c = 114 -> 13 [] c = 116 -> 9 [] OTHER -> c]

HandleUnescapeChar(s, i) ==
    LET c == At(s, i) IN
    IF c \in DOMAIN Escapes THEN Read(Escapes[c], i + 1)
    ELSE IF c = 117 THEN HexNumber(s, i + 1, 0, HexDigits)
    ELSE Read(Eof, IF c = Eof THEN i ELSE i + 1)

\* convert_append_unicode_code_unit.  A narrow parser converts each unit alone:
\* one that begins a pair throws, one that ends a pair makes three bytes.
HighSurrogates == 55296..56319
CodeUnit(who, c) ==
    IF ~who.narrow \/ c < 128 THEN <<c>>
    ELSE IF c < 2048 THEN <<192 + (c \div 64), 128 + (c % 64)>>
    ELSE <<224 + (c \div 4096), 128 + ((c \div 64) % 64), 128 + (c % 64)>>

\* CompleteStringLiteral.  That of the stream parser does not look at what
\* handle_unescape_char returns.  n says whether there was an escape.
StringFrom(who, s, i, out, escaped) ==
    LET c == At(s, i)  e == HandleUnescapeChar(s, i + 1) IN
    IF c = Quote THEN [Bad EXCEPT !.is = "string", !.text = out, !.n = IF escaped THEN 1 ELSE 0, !.at = i + 1]
    ELSE IF c = Eof \/ IsControl(c) THEN Bad
    ELSE IF c # Backslash THEN StringFrom(who, s, i + 1, Append(out, c), escaped)
    ELSE IF who.narrow /\ e.c \in HighSurrogates THEN [Bad EXCEPT !.is = "thrown"]
    ELSE IF e.c # Eof THEN StringFrom(who, s, e.at, out \o CodeUnit(who, e.c), TRUE)
    ELSE IF who.of = "string" THEN Bad ELSE StringFrom(who, s, e.at, out, TRUE)

\* append_escape_string
Hex(n) == IF n < 10 THEN Zero + n ELSE n + 55
ShortEscape(c) ==
    IF c \in {Quote, Backslash} THEN {c}
    ELSE {e \in DOMAIN Escapes \ {Quote, Backslash, Slash} : Escapes[e] = c}
EscapeString(s) ==
    IF s = <<>> THEN <<>>
    ELSE LET c == s[1] IN
         (IF ShortEscape(c) # {} THEN <<Backslash, CHOOSE e \in ShortEscape(c) : TRUE>>
          ELSE IF IsControl(c)
          THEN <<Backslash, 117>> \o [i \in 1..(HexDigits - 2) |-> Zero] \o <<Hex(c \div 16), Hex(c % 16)>>
          ELSE <<c>>) \o EscapeString(Tail(s))

\* _String::has_escape_chars
HasEscapeChars(s) == \E i \in DOMAIN s : IsControl(s[i]) \/ s[i] \in {Quote, Backslash}

\* _String::format
FormatString(s, escaped) == (IF escaped THEN EscapeString(s) ELSE s) \o <<Quote>>

-----------------------------------------------------------------------------
(* Comments.                                                                  *)

RECURSIVE BlockComment(_, _, _)

BlockComment_SkipsStar(s, c, i) ==
    IF c = Eof THEN Bad
    ELSE IF c = Star
    THEN IF At(s, i) = Eof THEN Bad
         ELSE IF At(s, i) = Slash THEN [Bad EXCEPT !.is = "comment", !.at = i + 1]
         ELSE BlockComment(s, At(s, i + 1), i + 2)
    ELSE BlockComment(s, At(s, i), i + 1)

\* CompleteComment, after the slash.  The stream parser takes the character it
\* peeks at after a star for the one it reads next, and reads on all the same.
BlockComment(s, c, i) ==
    IF c = Eof THEN Bad
    ELSE IF c = Star /\ At(s, i) \in {Eof, Slash}
    THEN IF At(s, i) = Eof THEN Bad ELSE [Bad EXCEPT !.is = "comment", !.at = i + 1]
    ELSE BlockComment(s, At(s, i), IF At(s, i) = Eof THEN i ELSE i + 1)

LineEnds(s, i) == {j \in i..Len(s) : s[j] = NewLine}
CompleteComment(s) ==
    CASE At(s, 1) = Slash ->
            [Bad EXCEPT !.is = "comment",
                        !.at = IF LineEnds(s, 2) = {} THEN Len(s) + 1
                               ELSE 1 + CHOOSE j \in LineEnds(s, 2) : \A k \in LineEnds(s, 2) : j <= k]
      [] At(s, 1) = Star -> BlockComment(s, At(s, 2), 3)
      [] OTHER -> Bad

-----------------------------------------------------------------------------
CompleteStringLiteral(who, s) == StringFrom(who, s, 1, <<>>, FALSE)

Literals == {"number", "string", "comment"}
TextsOf(kind) ==
    IF kind = "number" THEN NumberTexts ELSE IF kind = "string" THEN StringTexts ELSE CommentTexts

LexInit ==
    /\ literal \in Literals /\ parser \in Parsers
    /\ literal # "string" => ~parser.narrow
    /\ lexed \in TextsOf(literal)
    /\ token = [Bad EXCEPT !.is = "none"]

Lex(kind, result) ==
    /\ literal = kind /\ token.is = "none"
    /\ token' = result
    /\ UNCHANGED <<lexed, literal, parser>>

LexNext ==
    \/ Lex("number", CompleteNumberLiteral(lexed))
    \/ Lex("string", CompleteStringLiteral(parser, lexed))
    \/ Lex("comment", CompleteComment(lexed))

LexSpec == LexInit /\ [][LexNext]_lexVars

-----------------------------------------------------------------------------
(* The grammar, for reference.                                                *)

AllDigits(s) == s # <<>> /\ \A i \in DOMAIN s : IsDigit(s[i])
Body(s) == IF At(s, 1) = Minus THEN Tail(s) ELSE s
IsFraction(s) == s = <<>> \/ (s[1] = Dot /\ AllDigits(Tail(s)))
IsExponent(s) ==
    s = <<>> \/ (s[1] \in Exponents /\ (AllDigits(Rest(s, 2)) \/ (At(s, 2) \in {Plus, Minus} /\ AllDigits(Rest(s, 3)))))

\* The numbers of JSON, and those with one zero before them.
IsNumber(s) ==
    /\ ~(At(Body(s), 1) = Zero /\ At(Body(s), 2) = Zero)
    /\ \E a \in 0..Len(Body(s)) : \E b \in a..Len(Body(s)) :
        /\ AllDigits(SubSeq(Body(s), 1, a))
        /\ IsFraction(SubSeq(Body(s), a + 1, b)) /\ IsExponent(Rest(Body(s), b + 1))

RECURSIVE Amount(_)
Amount(s) == IF s = <<>> THEN 0 ELSE 10 * Amount(Front(s)) + Last(s) - Zero

\* What the characters before a quote denote, and how many they are.
RECURSIVE Denotations(_)
Before(unit, s) == {[at |-> d.at + unit.at, text |-> <<unit.c>> \o d.text] : d \in Denotations(Rest(s, unit.at + 1))}
Denotations(s) ==
    LET hex == [i \in 1..HexDigits |-> At(s, i + 2)] IN
    CASE At(s, 1) = Quote -> {[at |-> 1, text |-> <<>>]}
      [] At(s, 1) = Backslash /\ At(s, 2) \in DOMAIN Escapes -> Before(Read(Escapes[s[2]], 2), s)
      [] At(s, 1) = Backslash /\ At(s, 2) = 117 /\ \A i \in DOMAIN hex : IsHex(hex[i]) ->
            Before(Read(FoldLeft(LAMBDA n, c : n * 16 + HexVal(c), 0, hex), HexDigits + 2), s)
      [] At(s, 1) \notin {Eof, Backslash} /\ ~IsControl(s[1]) -> Before(Read(s[1], 1), s)
      [] OTHER -> {}

\* The code points below 2^16 that bytes of UTF-8 encode.
RECURSIVE Decoded(_)
Decoded(s) ==
    IF s = <<>> THEN <<>>
    ELSE LET n == CASE s[1] < 128 -> 1 [] s[1] \in 192..223 -> 2 [] s[1] \in 224..239 -> 3
             lead == CASE n = 1 -> s[1] [] n = 2 -> s[1] % 32 [] n = 3 -> s[1] % 16
         IN  <<FoldLeft(LAMBDA c, b : c * 64 + (b % 64), lead, SubSeq(s, 2, n))>> \o Decoded(Rest(s, n + 1))

\* An escape of the first unit of a pair.
PairBegins(s, i) ==
    /\ At(s, i) = Backslash /\ At(s, i + 1) = 117
    /\ HexNumber(s, i + 2, 0, HexDigits).c \in HighSurrogates

-----------------------------------------------------------------------------
(* Properties.                                                                *)

LexTypeOK ==
    /\ parser \in Parsers /\ literal \in Literals
    /\ token.is \in {"none", "malformed", "integer", "double", "string", "comment", "thrown"}

\* A number is read whole and only if it is one, with its exact value when it is
\* an integer of 64 bits, and with the text of its value when it is a double.
NumbersSound ==
    literal = "number" =>
        LET taken == SubSeq(lexed, 1, token.at - 1)
            range == IF At(lexed, 1) = Minus THEN Top \div 2 + 1 ELSE Top
        IN
        /\ IsNumber(lexed) => token.at = Len(lexed) + 1
        /\ token.is # "malformed" => IsNumber(taken) /\ token.negative = (At(lexed, 1) = Minus)
        /\ token.is # "malformed" =>
              (token.is = "integer" <=> AllDigits(Body(taken)) /\ Amount(Body(taken)) <= range)
        /\ token.is = "integer" => token.n = Amount(Body(taken))
        /\ token.is = "double" =>
              token.text = IF At(Body(taken), 1) = Zero /\ IsDigit(At(Body(taken), 2))
                           THEN Tail(Body(taken)) ELSE Body(taken)

\* A string is taken if it is one, as what it denotes, and its text is written
\* so that it is read again as it was, also where the flag says that nothing
\* needs an escape.  The stream parser takes more, texts with a bad escape, and
\* the narrow parsers less: pairs of surrogates that are escaped throw.
StringsSound ==
    literal = "string" =>
        LET meant == Denotations(lexed) IN
        /\ \A d \in meant :
              IF parser.narrow /\ \E i \in DOMAIN d.text : d.text[i] \in HighSurrogates
              THEN token.is = "thrown"
              ELSE /\ token.is = "string" /\ token.at = d.at + 1
                   /\ d.text = IF parser.narrow THEN Decoded(token.text) ELSE token.text
        /\ token.is = "thrown" => parser.narrow /\ \E i \in DOMAIN lexed : PairBegins(lexed, i)
        /\ token.is = "string" /\ meant = {} => parser.of = "stream" /\ \E i \in DOMAIN lexed : lexed[i] = Backslash
        /\ token.is = "string" =>
              \A escaped \in {token.n = 1, HasEscapeChars(token.text)} : \A who \in Parsers :
                  CompleteStringLiteral(who, FormatString(token.text, escaped)).text = token.text

\* A comment ends at the first newline, or with the first star and slash that
\* follow its beginning.
CommentsSound ==
    literal = "comment" =>
        LET ends == {i \in 3..Len(lexed) : lexed[i] = Slash /\ lexed[i - 1] = Star} IN
        /\ At(lexed, 1) = Star => (token.is = "comment" <=> ends # {})
        /\ At(lexed, 1) = Star /\ ends # {} => token.at - 1 \in ends /\ \A i \in ends : token.at - 1 <= i
        /\ At(lexed, 1) \notin {Star, Slash} => token.is = "malformed"

LexerSound == token.is = "none" \/ (NumbersSound /\ StringsSound /\ CommentsSound)
=============================================================================
