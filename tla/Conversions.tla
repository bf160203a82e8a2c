----------------------------- MODULE Conversions -------------------------------
(* The conversions of texts that asyncrt_utils.cpp and base64.cpp make: UTF-8   *)
(* and UTF-16, base64, the fractions of a second in a date, and durations.  A   *)
(* byte, a unit of UTF-16 and a character are numbers; a result is a set of     *)
(* one, or {} for an exception.  Where the standard library converts Unicode    *)
(* (CPPREST_STDLIB_UNICODE_CONVERSIONS), its code is not modelled.              *)
EXTENDS Integers, Sequences, SequencesExt, FiniteSetsExt

CONSTANTS
    IntEnd,         \* one more than INT_MAX
    ByteTexts,      \* read as UTF-8,
    UnitTexts,      \* as UTF-16,
    DateTexts,      \* as dates,
    Base64Texts,    \* and as base64
    Blobs,          \* written as base64,
    Ticks,          \* as fractions of a second,
    Seconds,        \* and as durations
    Fields          \* of a duration that is read

ConversionAssumption == IntEnd \in Nat \ {0}

VARIABLES
    input,      \* what is converted,
    output      \* and the set of what it became

conversionVars == <<input, output>>

-----------------------------------------------------------------------------
(* utf8_to_utf16 and utf16_to_utf8.                                           *)

LowSurrogates == 56320..57343
HighSurrogates == 55296..56319
IsContinuation(b) == b \in 128..191

\* The bytes that follow the first one of a character.
Following(b) == CASE b < 128 -> 0 [] b \in 192..223 -> 1 [] b \in 224..239 -> 2 [] b \in 240..247 -> 3
CanBegin(b) == b < 128 \/ b \in 192..247
LeadBits(b) == CASE b < 128 -> b [] b \in 192..223 -> b % 32 [] b \in 224..239 -> b % 16 [] b \in 240..247 -> b % 8

\* Variants are plausible mistakes in the definition that follows them;
\* PROJECT.json pairs each with the property that detects it.
Units_NoOffset(codePoint) ==
    IF codePoint < 65536 THEN <<codePoint>>
    ELSE <<((codePoint \div 1024) % 1024) + 55296, (codePoint % 1024) + 56320>>

Units(codePoint) ==
    IF codePoint < 65536 THEN <<codePoint>>
    ELSE <<(codePoint - 65536) \div 1024 + 55296, ((codePoint - 65536) % 1024) + 56320>>

RECURSIVE Utf8ToUtf16(_), Utf16ToUtf8(_)

Utf8ToUtf16(s) ==
    IF s = <<>> THEN {<<>>}
    ELSE IF ~CanBegin(s[1]) \/ Len(s) <= Following(s[1]) THEN {}
    ELSE LET n == Following(s[1])
             more == SubSeq(s, 2, n + 1)
             codePoint == FoldLeft(LAMBDA c, b : c * 64 + (b % 64), LeadBits(s[1]), more)
         IN  IF \A i \in DOMAIN more : IsContinuation(more[i])
             THEN {Units(codePoint) \o rest : rest \in Utf8ToUtf16(SubSeq(s, n + 2, Len(s)))}
             ELSE {}

\* The last six bits of c, after shift times six others.
Sextet(c, shift) == ((c \div 64^shift) % 64) + 128

Bytes(c) ==
    CASE c < 128 -> <<c>>
      [] c \in 128..2047 -> <<c \div 64 + 192, Sextet(c, 0)>>
      [] c \in 2048..65535 -> <<c \div 4096 + 224, Sextet(c, 1), Sextet(c, 0)>>
      [] c > 65535 -> <<c \div 262144 + 240, Sextet(c, 2), Sextet(c, 1), Sextet(c, 0)>>

Utf16ToUtf8(w) ==
    IF w = <<>> THEN {<<>>}
    ELSE IF w[1] \notin HighSurrogates THEN {Bytes(w[1]) \o rest : rest \in Utf16ToUtf8(Tail(w))}
    ELSE IF Len(w) = 1 \/ w[2] \notin LowSurrogates THEN {}
    ELSE LET codePoint == (w[1] - 55296) * 1024 + (w[2] - 56320) + 65536 IN
         {Bytes(codePoint) \o rest : rest \in Utf16ToUtf8(SubSeq(w, 3, Len(w)))}

\* Latin1 becomes UTF-16 as it is.
Latin1ToUtf8(s) == Utf16ToUtf8(s)

-----------------------------------------------------------------------------
(* Base64 (base64.cpp).                                                       *)

Pad == 61

\* _base64_enctbl, and _base64_dectbl, where 255 is no character and 254 the pad.
Encoded(n) ==
    CASE n < 26 -> 65 + n [] n \in 26..51 -> 71 + n [] n \in 52..61 -> n - 4 [] n = 62 -> 43 [] n = 63 -> 47
Decoded(c) ==
    CASE c \in 65..90 -> c - 65 [] c \in 97..122 -> c - 71 [] c \in 48..57 -> c + 4 [] c = 43 -> 62 [] c = 47 -> 63
      [] c = Pad -> 254
      [] OTHER -> 255

\* A quartet is the four sextets of three bytes; its last two may be pads.
Quartet(a, b, c) ==
    <<Encoded(a \div 4), Encoded((a % 4) * 16 + b \div 16), Encoded((b % 16) * 4 + c \div 64), Encoded(c % 64)>>

RECURSIVE ToBase64(_)

ToBase64(blob) ==
    CASE blob = <<>> -> <<>>
      [] Len(blob) = 1 -> SubSeq(Quartet(blob[1], 0, 0), 1, 2) \o <<Pad, Pad>>
      [] Len(blob) = 2 -> SubSeq(Quartet(blob[1], blob[2], 0), 1, 3) \o <<Pad>>
      [] Len(blob) > 2 -> Quartet(blob[1], blob[2], blob[3]) \o ToBase64(SubSeq(blob, 4, Len(blob)))

\* The validation before anything is decoded.
PadsAtEnd(s) ==
    \A i \in DOMAIN s : Decoded(s[i]) = 254 =>
        i >= Len(s) - 1 /\ (i = Len(s) - 1 => Decoded(s[Len(s)]) = 254)
Valid(s) == Len(s) % 4 = 0 /\ (\A i \in DOMAIN s : Decoded(s[i]) # 255) /\ PadsAtEnd(s)

Triple(q) ==
    LET v == [i \in 1..4 |-> Decoded(q[i])] IN
    <<v[1] * 4 + v[2] \div 16, (v[2] % 16) * 16 + v[3] \div 4, (v[3] % 4) * 64 + v[4]>>

LastTriple_AnyBits(q) ==
    CASE Decoded(q[3]) = 254 -> {SubSeq(Triple(q), 1, 1)}
      [] Decoded(q[3]) # 254 /\ Decoded(q[4]) = 254 -> {SubSeq(Triple(q), 1, 2)}
      [] Decoded(q[3]) # 254 /\ Decoded(q[4]) # 254 -> {Triple(q)}

\* Bits that a pad leaves over must be zero.
LastTriple(q) ==
    CASE Decoded(q[3]) = 254 -> IF Decoded(q[2]) % 16 = 0 THEN {SubSeq(Triple(q), 1, 1)} ELSE {}
      [] Decoded(q[3]) # 254 /\ Decoded(q[4]) = 254 ->
            IF Decoded(q[3]) % 4 = 0 THEN {SubSeq(Triple(q), 1, 2)} ELSE {}
      [] Decoded(q[3]) # 254 /\ Decoded(q[4]) # 254 -> {Triple(q)}

RECURSIVE Quartets(_)

Quartets(s) ==
    IF Len(s) = 4 THEN LastTriple(s)
    ELSE {Triple(SubSeq(s, 1, 4)) \o rest : rest \in Quartets(SubSeq(s, 5, Len(s)))}

FromBase64(s) == IF s = <<>> THEN {<<>>} ELSE IF Valid(s) THEN Quartets(s) ELSE {}

-----------------------------------------------------------------------------
(* Fractions of a second: 1200000 ticks are .12                               *)

Dot == 46
Zero == 48
Letter == [D |-> 68, H |-> 72, M |-> 77, P |-> 80, S |-> 83, T |-> 84, Z |-> 90]
IsDigit(c) == c \in 48..57

Decimal[n \in Nat] == IF n < 10 THEN <<Zero + n>> ELSE Append(Decimal[n \div 10], Zero + (n % 10))
Number(digits) == FoldLeft(LAMBDA n, c : n * 10 + c - Zero, 0, digits)

\* .%07ld without its last zeros
PrintFraction(ticks) ==
    LET digits == [i \in 1..7 |-> Zero + ((ticks \div 10^(7 - i)) % 10)]
        last == Max({0} \cup {i \in 1..7 : digits[i] # Zero})
    IN  IF ticks = 0 THEN <<>> ELSE <<Dot>> \o SubSeq(digits, 1, last)

\* timeticks_from_second, of a dot and digits
TicksFromSecond(s) == Number([i \in 1..7 |-> IF i < Len(s) THEN s[i + 1] ELSE Zero])

ExtractFractionalSecond(s) ==
    LET nonDigit == Max({0} \cup {i \in 1..(Len(s) - 1) : ~IsDigit(s[i])}) IN
    IF Len(s) > 2 /\ Last(s) = Letter.Z /\ nonDigit > 1 /\ s[nonDigit] = Dot
    THEN [date |-> SubSeq(s, 1, nonDigit - 1) \o <<Letter.Z>>,
          ticks |-> TicksFromSecond(SubSeq(s, nonDigit, Len(s) - 1))]
    ELSE [date |-> s, ticks |-> 0]

-----------------------------------------------------------------------------
(* Durations: PnDTnHnMnS.                                                     *)

\* C's division of numbers of any sign
CDiv(n, d) == IF n >= 0 THEN n \div d ELSE -((-n) \div d)
Carried(n, above, size) == IF above > 0 THEN n % size ELSE n
Field(n, letter) == IF n > 0 THEN Append(Decimal[n], letter) ELSE <<>>

SecondsToXml(seconds) ==
    LET minutes == CDiv(seconds, 60)
        hours == CDiv(minutes, 60)
        days == CDiv(hours, 24)
    IN  <<Letter.P>> \o Field(days, Letter.D) \o <<Letter.T>> \o Field(Carried(hours, days, 24), Letter.H)
        \o Field(Carried(minutes, hours, 60), Letter.M) \o Field(Carried(seconds, minutes, 60), Letter.S)

Eof == -1
CharAt(s, i) == IF i \in DOMAIN s THEN s[i] ELSE Eof

\* An int that overflows wraps.
IntOf(n) == ((n + IntEnd) % (2 * IntEnd)) - IntEnd
Scale(c) == CASE c = Letter.D -> 86400 [] c = Letter.H -> 3600 [] c = Letter.M -> 60 [] OTHER -> 0

\* The first i from which on there are no digits.
PastDigits(s, i) == Min({j \in i..Len(s) : ~IsDigit(s[j])} \cup {Max({i, Len(s) + 1})})

RECURSIVE ReadValue(_, _, _), XmlFrom(_, _, _)

\* val and where it ends, a fraction skipped
ReadValue(s, i, val) ==
    LET next == IntOf(val * 10 + s[i] - Zero)
        after == IF CharAt(s, i + 1) = Dot THEN PastDigits(s, i + 2) ELSE i + 1
    IN  IF ~IsDigit(CharAt(s, i)) THEN [val |-> val, at |-> i] ELSE ReadValue(s, after, next)

XmlFrom(s, i, seconds) ==
    LET read == ReadValue(s, i, 0)
        c == CharAt(s, read.at)
    IN  IF c \in {Letter.S, Eof} THEN seconds + read.val
        ELSE XmlFrom(s, read.at + 1, seconds + IntOf(read.val * Scale(c)))

XmlToSeconds(s) == IF s = <<>> THEN 0 ELSE XmlFrom(s, 2, 0)

-----------------------------------------------------------------------------
\* A duration with some of its fields, a fraction of its seconds, and the last
\* letter or not.
Printed(f) ==
    LET Part(name, letter) == IF f[name] = {} THEN <<>> ELSE Append(Decimal[Max(f[name])], letter) IN
    <<Letter.P>> \o Part("days", Letter.D) \o <<Letter.T>> \o Part("hours", Letter.H) \o Part("minutes", Letter.M)
    \o (IF f.seconds = {} THEN <<>>
        ELSE Decimal[Max(f.seconds)] \o (IF f.fraction THEN <<Dot, Zero + 5>> ELSE <<>>)
             \o (IF f.last THEN <<Letter.S>> ELSE <<>>))

ConversionInit ==
    /\ \/ \E s \in ByteTexts : input = [kind |-> "utf8", text |-> s]
       \/ \E w \in UnitTexts : input = [kind |-> "utf16", text |-> w]
       \/ \E s \in Blobs : input = [kind |-> "latin1", text |-> s]
       \/ \E s \in Base64Texts : input = [kind |-> "from_base64", text |-> s]
       \/ \E s \in Blobs : input = [kind |-> "to_base64", text |-> s]
       \/ \E s \in DateTexts : input = [kind |-> "fraction", text |-> s]
       \/ \E n \in Ticks : input = [kind |-> "ticks", ticks |-> n]
       \/ \E n \in Seconds : input = [kind |-> "to_xml", seconds |-> n]
       \/ \E f \in Fields : input = [kind |-> "from_xml", fields |-> f]
    /\ output = {}

Convert(kind, Result(_)) == input.kind = kind /\ output = {} /\ output' = {Result(input)} /\ UNCHANGED input

ConversionNext ==
    \/ Convert("utf8", LAMBDA i : Utf8ToUtf16(i.text))
    \/ Convert("utf16", LAMBDA i : Utf16ToUtf8(i.text))
    \/ Convert("latin1", LAMBDA i : Latin1ToUtf8(i.text))
    \/ Convert("from_base64", LAMBDA i : FromBase64(i.text))
    \/ Convert("to_base64", LAMBDA i : ToBase64(i.text))
    \/ Convert("fraction", LAMBDA i : ExtractFractionalSecond(i.text))
    \/ Convert("ticks", LAMBDA i : PrintFraction(i.ticks))
    \/ Convert("to_xml", LAMBDA i : SecondsToXml(i.seconds))
    \/ Convert("from_xml", LAMBDA i : XmlToSeconds(Printed(i.fields)))

ConversionSpec == ConversionInit /\ [][ConversionNext]_conversionVars

-----------------------------------------------------------------------------
ConversionTypeOK ==
    /\ input.kind \in {"utf8", "utf16", "latin1", "from_base64", "to_base64", "fraction", "ticks",
                      "to_xml", "from_xml"}
    /\ input.kind = "utf8" => \A w \in UNION output : \A i \in DOMAIN w : w[i] \in 0..65535
    /\ input.kind \in {"utf16", "latin1", "from_base64"} =>
        \A s \in UNION output : \A i \in DOMAIN s : s[i] \in 0..255

\* Each first byte is followed by as many others as it announces.
Structured(s) ==
    \A i \in DOMAIN s :
        LET lead == Max({0} \cup {j \in 1..i : ~IsContinuation(s[j])})
            next == Min({Len(s) + 1} \cup {j \in (i + 1)..Len(s) : ~IsContinuation(s[j])})
        IN  lead # 0 /\ CanBegin(s[lead]) /\ (IsContinuation(s[i]) \/ next - i - 1 = Following(s[i]))

\* Neither longer than it must be, nor a surrogate, nor above 10FFFF.
Shortest(s) ==
    \A i \in DOMAIN s : LET next == CharAt(s, i + 1) IN
        /\ s[i] \notin {192, 193} \cup 245..255
        /\ s[i] = 224 => next >= 160
        /\ s[i] = 237 => next < 160
        /\ s[i] = 240 => next >= 144
        /\ s[i] = 244 => next < 144

Paired(w) ==
    \A i \in DOMAIN w : w[i] \in HighSurrogates => CharAt(w, i + 1) \in LowSurrogates

\* What has the form of UTF-8 is accepted, and nothing else; what is UTF-8 comes
\* back, and what is accepted of UTF-16 does, lone low surrogates too; a Latin1
\* text is the same text in UTF-8.  Exception: characters written too long,
\* surrogates and code points above 10FFFF are accepted as UTF-8, and do not all
\* come back.
UnicodeExact ==
    /\ input.kind = "utf8" => \A result \in output :
        /\ (result # {}) = Structured(input.text)
        /\ Structured(input.text) /\ Shortest(input.text) =>
            \A w \in result : Paired(w) /\ Utf16ToUtf8(w) = {input.text}
    /\ input.kind = "utf16" => \A result \in output :
        /\ (result # {}) = Paired(input.text)
        /\ \A s \in result : Utf8ToUtf16(s) = {input.text}
    /\ input.kind = "latin1" => \A result \in output :
        \E s \in result : Utf8ToUtf16(s) = {input.text} /\ Structured(s) /\ Shortest(s)

\* Base64 has one text for each blob: that text is read as the blob, and no other
\* text is read.
Base64Exact ==
    /\ input.kind = "to_base64" => \A s \in output : FromBase64(s) = {input.text}
    /\ input.kind = "from_base64" => \A blob \in UNION output : ToBase64(blob) = input.text

\* A fraction is printed so that it is read again; and read of any text with a
\* date before it, to the seventh digit.
FractionsExact ==
    /\ input.kind = "ticks" => \A s \in output :
        ExtractFractionalSecond(<<Zero>> \o s \o <<Letter.Z>>) = [date |-> <<Zero, Letter.Z>>, ticks |-> input.ticks]
    /\ input.kind = "fraction" => \A e \in output :
        LET s == input.text
            Splits(i) == s[i] = Dot /\ i > 1 /\ Last(s) = Letter.Z /\ \A j \in (i + 1)..(Len(s) - 1) : IsDigit(s[j])
        IN  IF \E i \in DOMAIN s : Splits(i)
            THEN \E i \in DOMAIN s :
                    LET digits == SubSeq(s, i + 1, Min({Len(s) - 1, i + 7})) IN
                    /\ Splits(i) /\ e.date = SubSeq(s, 1, i - 1) \o <<Letter.Z>>
                    /\ e.ticks = Number(digits) * 10^(7 - Len(digits))
            ELSE e = [date |-> s, ticks |-> 0]

\* A duration is written so that it is read again, and read as the sum of its
\* fields without fractions.  Exceptions: one that is negative is written as none,
\* and the seconds of days or hours that do not fit an int overflow.
DurationsExact ==
    /\ input.kind = "to_xml" => \A s \in output :
        IF input.seconds < 0 THEN s = <<Letter.P, Letter.T>>
        ELSE XmlToSeconds(s) = input.seconds \/ input.seconds >= IntEnd
    /\ input.kind = "from_xml" => \A n \in output :
        LET Amount(name) == Max({0} \cup input.fields[name]) IN
        Amount("days") * 86400 < IntEnd =>
            n = Amount("days") * 86400 + Amount("hours") * 3600 + Amount("minutes") * 60 + Amount("seconds")

ConversionsSound == UnicodeExact /\ Base64Exact /\ FractionsExact /\ DurationsExact
=============================================================================
