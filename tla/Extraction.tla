------------------------------ MODULE Extraction -------------------------------
(* basic_istream::extract() (streams.h): the type_parser of every type skips    *)
(* white space, then takes characters as long as its state accepts them, and    *)
(* makes a value of the state.  A character is its code; the characters of a    *)
(* text have all arrived or the parser waits for them, which Streams models.    *)
(* Widths are those of the code when Top is 2^64 - 1, NarrowTop the largest     *)
(* value of the unsigned type extracted, and IntHalf 2^31.  A floating-point    *)
(* number is its digits and its power of ten, and has no largest value.         *)
EXTENDS Integers, Sequences, SequencesExt, FiniteSetsExt

CONSTANTS
    Top, NarrowTop, IntHalf,
    IntegerTexts, DoubleTexts, WordTexts    \* what integers, doubles and the rest are extracted from

VARIABLES
    given,    \* the text,
    asked,    \* the type,
    extracted \* and what came of it

extractVars == <<given, asked, extracted>>

-----------------------------------------------------------------------------
Plus == 43
Minus == 45
Dot == 46
Zero == 48
Exponents == {69, 101}                  \* E, e
Eof == -1
IsDigit(c) == c \in 48..57
IsSpace(c) == c = 32 \/ c \in 9..13
At(s, i) == IF i \in DOMAIN s THEN s[i] ELSE Eof

Signed == {"int64", "narrow"}
Unsigned == {"uint64", "unsigned narrow"}
Types == Signed \cup Unsigned \cup {"double", "bool", "string", "char"}

\* The states of the parsers: minus, exponentMinus are 0 without a sign, 1 for +
\* and 2 for -; wrong says that there is a message for an exception.
InitialState(type) ==
    CASE type \in Signed \cup Unsigned -> [result |-> 0, correct |-> FALSE, minus |-> 0]
      [] type = "double" -> [result |-> 0, minus |-> 0, afterComma |-> 0, exponent |-> FALSE, exponentNumber |-> 0,
                             exponentMinus |-> 0, complete |-> FALSE, wrong |-> FALSE]
      [] type = "bool" -> <<>>
      [] type = "string" -> <<>>

Accept(state) == [go |-> TRUE, state |-> state]
Reject(state) == [go |-> FALSE, state |-> state]

-----------------------------------------------------------------------------
(* _accept_char *)

\* Two's complement of the width of Top.
Wrapped(n) == LET r == n % (Top + 1) IN IF r > Top \div 2 THEN r - Top - 1 ELSE r

\* Overflow is seen by the change of the sign.
AcceptSigned(state, c) ==
    LET next == Wrapped(state.result * 10 + c - Zero) IN
    IF ~IsDigit(c) /\ (state.minus # 0 \/ c \notin {Plus, Minus}) THEN Reject(state)
    ELSE IF ~IsDigit(c) THEN Accept([state EXCEPT !.correct = TRUE, !.minus = IF c = Plus THEN 1 ELSE 2])
    ELSE LET read == [state EXCEPT !.correct = (next >= 0) = (state.result >= 0), !.result = next,
                                   !.minus = IF @ = 0 THEN 1 ELSE @] IN
         IF read.correct THEN Accept(read) ELSE Reject(read)

AcceptUnsigned(state, c) ==
    IF IsDigit(c)
    THEN Accept([state EXCEPT !.correct = TRUE, !.result = (@ * 10 + c - Zero) % (Top + 1)])
    ELSE Reject(state)

IntWrapped(n) == ((n + IntHalf) % (2 * IntHalf)) - IntHalf

AcceptDouble(state, c) ==
    LET sign == IF c = Plus THEN 1 ELSE 2
        begun == [state EXCEPT !.complete = FALSE]
        next == IF state.exponent THEN {Plus, Minus}
                ELSE IF state.minus = 0 THEN {Dot, Plus, Minus} ELSE {Dot} \cup Exponents
    IN  CASE ~IsDigit(c) /\ c \notin next -> Reject([state EXCEPT !.wrong = @ \/ ~state.complete])
          [] c \in {Plus, Minus} /\ state.exponent ->
                IF state.exponentMinus # 0 THEN Reject([begun EXCEPT !.wrong = TRUE])
                ELSE Accept([begun EXCEPT !.exponentMinus = sign])
          [] c \in {Plus, Minus} /\ ~state.exponent -> Accept([begun EXCEPT !.minus = sign])
          [] c = Dot /\ c \in next ->
                IF state.afterComma > 0 THEN Reject(begun) ELSE Accept([begun EXCEPT !.afterComma = 1])
          [] c \in Exponents /\ c \in next -> Accept([begun EXCEPT !.exponent = TRUE])
          [] IsDigit(c) /\ ~state.exponent ->
                Accept([state EXCEPT !.complete = TRUE, !.minus = IF @ = 0 THEN 1 ELSE @,
                                     !.result = @ * 10 + c - Zero, !.afterComma = IF @ > 0 THEN @ + 1 ELSE 0])
          [] IsDigit(c) /\ state.exponent ->
                Accept([state EXCEPT !.complete = TRUE, !.exponentMinus = IF @ = 0 THEN 1 ELSE @,
                                     !.exponentNumber = IntWrapped(@ * 10 + c - Zero)])

\* The words of bool: the state is the part of one that has been taken.
True == <<116, 114, 117, 101>>
False == <<102, 97, 108, 115, 101>>
Words == {True, False, <<Zero + 1>>, <<Zero>>}
AcceptBool(state, c) ==
    IF \E w \in Words : IsPrefix(Append(state, c), w) THEN Accept(Append(state, c)) ELSE Reject(state)

AcceptString(state, c) == IF IsSpace(c) THEN Reject(state) ELSE Accept(Append(state, c))

AcceptChar(type, state, c) ==
    CASE type \in Signed -> AcceptSigned(state, c)
      [] type \in Unsigned -> AcceptUnsigned(state, c)
      [] type = "double" -> AcceptDouble(state, c)
      [] type = "bool" -> AcceptBool(state, c)
      [] type = "string" -> AcceptString(state, c)

-----------------------------------------------------------------------------
(* _extract_result: the values that are extracted, none if it throws. *)

Least(type) == IF type = "int64" THEN -(Top \div 2) - 1 ELSE IF type = "narrow" THEN -(NarrowTop \div 2) - 1 ELSE 0
Most(type) ==
    CASE type = "int64" -> Top \div 2 [] type = "narrow" -> NarrowTop \div 2
      [] type = "uint64" -> Top [] type = "unsigned narrow" -> NarrowTop

\* Variants, here and below, are plausible mistakes in the definition that
\* follows; PROJECT.json pairs each with the property that detects it.

\* The narrower types test the value of the widest.
Narrow_OffByOne(type, n) == {v \in {n} : Least(type) < v /\ v <= Most(type)}
Narrow(type, n) == {v \in {n} : Least(type) <= v /\ v <= Most(type)}

\* What result and exponent_number are: sign, digits and power of ten.
DoubleOf_CountsThePoint(state) ==
    [negative |-> state.minus = 2, digits |-> state.result,
     power |-> (IF state.exponentMinus = 2 THEN -state.exponentNumber ELSE state.exponentNumber) - state.afterComma]
DoubleOf(state) ==
    [negative |-> state.minus = 2, digits |-> state.result,
     power |-> (IF state.exponentMinus = 2 THEN -state.exponentNumber ELSE state.exponentNumber)
               - (IF state.afterComma > 0 THEN state.afterComma - 1 ELSE 0)]

ExtractResult(type, state) ==
    CASE type \in Signed \cup Unsigned ->
            IF state.correct THEN Narrow(type, IF state.minus = 2 THEN -state.result ELSE state.result) ELSE {}
      [] type = "double" ->
            IF state.wrong \/ (~state.complete /\ state.exponent) THEN {} ELSE {DoubleOf(state)}
      [] type = "bool" -> IF state \in Words THEN {state \in {True, <<Zero + 1>>}} ELSE {}
      [] type = "string" -> {state}

-----------------------------------------------------------------------------
RECURSIVE SkipWhitespace(_, _), ParseInput(_, _, _, _)

SkipWhitespace(s, i) == IF IsSpace(At(s, i)) THEN SkipWhitespace(s, i + 1) ELSE i

\* A character that is accepted is taken; the others stay in the stream.
ParseInput(type, s, i, state) ==
    LET next == AcceptChar(type, state, At(s, i)) IN
    IF At(s, i) = Eof THEN [values |-> ExtractResult(type, state), at |-> i]
    ELSE IF next.go THEN ParseInput(type, s, i + 1, next.state)
    ELSE [values |-> ExtractResult(type, next.state), at |-> i]

GetChar(s, i) ==
    [values |-> IF At(s, i) = Eof THEN {} ELSE {s[i]}, at |-> IF At(s, i) = Eof THEN i ELSE i + 1]

TextsOf(type) ==
    IF type \in Signed \cup Unsigned THEN IntegerTexts ELSE IF type = "double" THEN DoubleTexts ELSE WordTexts

ExtractInit ==
    /\ asked \in Types
    /\ given \in TextsOf(asked)
    /\ extracted = [values |-> {}, at |-> 0]

Pending == extracted.at = 0

Parse ==
    /\ Pending /\ asked # "char"
    /\ extracted' = ParseInput(asked, given, SkipWhitespace(given, 1), InitialState(asked))
    /\ UNCHANGED <<given, asked>>

ParseChar ==
    /\ Pending /\ asked = "char"
    /\ extracted' = GetChar(given, SkipWhitespace(given, 1))
    /\ UNCHANGED <<given, asked>>

ExtractNext == Parse \/ ParseChar

ExtractSpec == ExtractInit /\ [][ExtractNext]_extractVars

-----------------------------------------------------------------------------
(* The texts of values, for reference.                                        *)

ExtractTypeOK == asked \in Types /\ extracted.at \in 0..(Len(given) + 1)

First == Min({Len(given) + 1} \cup {i \in DOMAIN given : ~IsSpace(given[i])})
Text == SubSeq(given, First, Len(given))
Taken == SubSeq(given, First, extracted.at - 1)
Digits(s) == \A i \in DOMAIN s : IsDigit(s[i])
Unsign(s) == IF At(s, 1) \in {Plus, Minus} THEN Tail(s) ELSE s
Amount(s) == FoldLeft(LAMBDA n, c : IF IsDigit(c) THEN n * 10 + c - Zero ELSE n, 0, s)
Number(s) == IF At(s, 1) = Minus THEN -Amount(s) ELSE Amount(s)

\* The parts of the text of a real number: before the point or the exponent, after
\* the point, and the exponent.
Parts(s) ==
    LET e == Min({Len(s) + 1} \cup {i \in DOMAIN s : s[i] \in Exponents})
        d == Min({e} \cup {i \in DOMAIN s : s[i] = Dot})
    IN  [whole |-> SubSeq(s, 1, d - 1), point |-> d < e, fraction |-> SubSeq(s, d + 1, e - 1),
         scaled |-> e <= Len(s), exponent |-> SubSeq(s, e + 1, Len(s))]

IsReal(s) ==
    LET p == Parts(s) IN
    /\ Digits(Unsign(p.whole)) /\ Digits(p.fraction) /\ Unsign(p.whole) \o p.fraction # <<>>
    /\ p.scaled => Unsign(p.exponent) # <<>> /\ Digits(Unsign(p.exponent))
RealOf(s) ==
    LET p == Parts(s) IN
    [negative |-> At(s, 1) = Minus, digits |-> Amount(p.whole \o p.fraction), power |-> Number(p.exponent) - Len(p.fraction)]

-----------------------------------------------------------------------------
(* Properties. *)

\* An integer that the type can hold is extracted, whole and exactly: but for the
\* least of the widest type.  What is extracted of other texts is the number up to
\* a multiple of 2^64, where the overflow was not seen, or 0 for a sign alone,
\* though the code says "At least one digit was found".
IntegersExact ==
    asked \in Signed \cup Unsigned =>
        LET sign == IF asked \in Signed THEN {Plus, Minus} ELSE {}
            body == IF At(Text, 1) \in sign THEN Tail(Text) ELSE Text
            fits == Number(Text) \in Least(asked)..Most(asked) \ {-(Top \div 2) - 1}
        IN  /\ Digits(body) /\ body # <<>> /\ fits => extracted.values = {Number(Text)} /\ extracted.at = Len(given) + 1
            /\ \A n \in extracted.values :
                /\ (n - Number(Taken)) % (Top + 1) = 0 /\ n \in Least(asked)..Most(asked)
                /\ IF At(Taken, 1) \in sign THEN Digits(Tail(Taken)) ELSE Digits(Taken) /\ Taken # <<>>
                /\ ~IsDigit(At(given, extracted.at))

\* A real number is extracted whole and with its value.  What is extracted of
\* another text is what it begins with, 0 for a sign, a point or nothing at all, and
\* a number whose sign follows its point.  The exponent is that of an int.
DoublesExact ==
    asked = "double" =>
        /\ IsReal(Text) => extracted = [values |-> {[RealOf(Text) EXCEPT !.power =
                                IntWrapped(Number(Parts(Text).exponent)) - Len(Parts(Text).fraction)]}, at |-> Len(given) + 1]
        /\ extracted.values # {} /\ ~IsReal(Taken) =>
              /\ \A i \in DOMAIN Taken : Taken[i] \in {Plus, Minus, Dot} \/ i > 1
              /\ \A v \in extracted.values : v.digits = 0 \/ (Taken[1] = Dot /\ Taken[2] \in {Plus, Minus})
        /\ \A v \in extracted.values : v.digits = Amount(Parts(Taken).whole \o Parts(Taken).fraction)

\* A truth value is extracted of its words only, without what follows; a string
\* ends at white space, and a character is the first that is not white space.
WordsExact ==
    /\ asked = "bool" =>
          /\ TRUE \in extracted.values <=> \E w \in {True, <<Zero + 1>>} : IsPrefix(w, Text) /\ Taken = w
          /\ FALSE \in extracted.values <=> \E w \in {False, <<Zero>>} : IsPrefix(w, Text) /\ Taken = w
          /\ (\E w \in Words : IsPrefix(w, Text)) => extracted.values # {}
    /\ asked = "string" =>
          extracted.values = {Taken} /\ (\A i \in DOMAIN Taken : ~IsSpace(Taken[i]))
          /\ (extracted.at \in DOMAIN given => IsSpace(given[extracted.at]))
    /\ asked = "char" => extracted.values = (IF Text = <<>> THEN {} ELSE {Text[1]})

ExtractSound == Pending \/ (IntegersExact /\ DoublesExact /\ WordsExact)
=============================================================================
