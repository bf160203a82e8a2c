------------------------------ MODULE SafeInt ------------------------------
(***************************************************************************)
(* The checked integers of cpprest/details/SafeInt3.hpp, in which the      *)
(* stream buffers compute sizes and positions: SafeInt<T> op U returns the *)
(* exact result or reports an overflow or a division by zero.  For each    *)
(* pair of types the library chooses one of some ninety templates, each    *)
(* with its own way to tell an overflow, and each in two forms, one that   *)
(* returns a verdict and one that throws: both are one operator here, as   *)
(* the two forms take the same decisions.                                  *)
(*                                                                         *)
(* Values are typed.  The arithmetic of C++ is given by its conversions,   *)
(* at the widths of the constant Bits: narrower than the machine's, with   *)
(* the proportions the templates rely on.  A signed operation that         *)
(* overflows, which is undefined, wraps, as the builds have it; two        *)
(* templates rely on that (:1852, :4868).  Floating point, bool and the    *)
(* operations on bits are left out.                                        *)
(***************************************************************************)
EXTENDS Integers

CONSTANTS
    Bits,    \* Bits[n]: the width of an integer of n bytes
    Numbers  \* the numbers that are computed with

Sizes == {1, 2, 4, 8}

ASSUME BitsAssumption ==
    /\ Bits \in [Sizes -> Nat \ {0}]
    /\ Bits[1] < Bits[2]
    /\ 2 * Bits[2] <= Bits[4]
    /\ Bits[8] = 2 * Bits[4]

-----------------------------------------------------------------------------
(* Types and values. *)

IntTypes == [signed : BOOLEAN, size : Sizes]

Int32  == [signed |-> TRUE,  size |-> 4]
Uint32 == [signed |-> FALSE, size |-> 4]
Int64  == [signed |-> TRUE,  size |-> 8]
Uint64 == [signed |-> FALSE, size |-> 8]

Modulus(T) == 2 ^ Bits[T.size]
maxInt(T) == IF T.signed THEN 2 ^ (Bits[T.size] - 1) - 1 ELSE Modulus(T) - 1
minInt(T) == IF T.signed THEN -(2 ^ (Bits[T.size] - 1)) ELSE 0
ValuesOf(T) == minInt(T) .. maxInt(T)

Typed(T, n) == [t |-> T, v |-> n]
Literal(n) == Typed(Int32, n)
MaxOf(T) == Typed(T, maxInt(T))
MinOf(T) == Typed(T, minInt(T))

\* The number n as a T: what is kept are its low bits.
Wrapped(T, n) ==
    LET low == n % Modulus(T)
    IN  IF low > maxInt(T) THEN low - Modulus(T) ELSE low

\* (T)x
Cast(T, x) == Typed(T, Wrapped(T, x.v))

-----------------------------------------------------------------------------
(* The operators of C++: both sides are converted to a common type. *)

Promoted(T) == IF T.size < 4 THEN Int32 ELSE T

Common(T, U) ==
    LET p == Promoted(T)
        q == Promoted(U)
    IN  IF p.size > q.size \/ (p.size = q.size /\ ~p.signed) THEN p ELSE q

\* Division in C++ truncates, in TLA+ it rounds down.
Magnitude(n) == IF n < 0 THEN -n ELSE n
Quotient(m, n) ==
    LET q == Magnitude(m) \div Magnitude(n)
    IN  IF (m < 0) = (n < 0) THEN q ELSE -q
Rest(m, n) == m - n * Quotient(m, n)

Binary(x, y, Op(_, _)) ==
    LET C == Common(x.t, y.t)
    IN  Typed(C, Wrapped(C, Op(Cast(C, x).v, Cast(C, y).v)))
Plus(x, y)    == Binary(x, y, LAMBDA m, n : m + n)
Minus(x, y)   == Binary(x, y, LAMBDA m, n : m - n)
Times(x, y)   == Binary(x, y, LAMBDA m, n : m * n)
Over(x, y)    == Binary(x, y, Quotient)
Percent(x, y) == Binary(x, y, Rest)

Less(x, y) ==
    LET C == Common(x.t, y.t)
    IN  Cast(C, x).v < Cast(C, y).v
AtMost(x, y) == ~Less(y, x)
Equal(x, y) == ~Less(x, y) /\ ~Less(y, x)

Negative(x) == Less(x, Literal(0))
Between(lo, x, hi) == AtMost(lo, x) /\ AtMost(x, hi)

-----------------------------------------------------------------------------
(* Outcomes. *)

\* Some templates have stored a value before they find that it is too large:
\* "stores" tells whether the result was written.
Outcomes == [error : {"none", "overflow", "divideByZero"},
             stores : BOOLEAN, value : Int]
Returned(n) == [error |-> "none", stores |-> TRUE, value |-> n]
Overflow == [error |-> "overflow", stores |-> FALSE, value |-> 0]
OverflowLeaving(n) == [Overflow EXCEPT !.stores = TRUE, !.value = n]
DivideByZero == [error |-> "divideByZero", stores |-> FALSE, value |-> 0]

\* if( ok ) { result = (T)x; return true; } return false;
Accept(ok, T, x) == IF ok THEN Returned(Cast(T, x).v) ELSE Overflow

-----------------------------------------------------------------------------
(* SafeCast *)

CastMethod(To, From) ==
    IF \/ To.signed = From.signed /\ To.size >= From.size
       \/ To.signed /\ To.size > From.size
    THEN "CastOK"
    ELSE IF \/ To.signed /\ ~From.signed /\ From.size >= To.size
            \/ ~To.signed /\ ~From.signed /\ From.size > To.size
    THEN "CastCheckGTMax"
    ELSE IF ~To.signed /\ From.signed /\ To.size >= From.size
    THEN "CastCheckLTZero"
    ELSE IF ~To.signed
    THEN "CastCheckSafeIntMinMaxUnsigned"
    ELSE "CastCheckSafeIntMinMaxSigned"

SafeCast(To, x) ==
    LET m == CastMethod(To, x.t)
    IN  Accept(CASE m = "CastOK" -> TRUE
                 [] m = "CastCheckGTMax" -> AtMost(x, Cast(x.t, MaxOf(To)))
                 [] m = "CastCheckLTZero" -> ~Negative(x)
                 [] m = "CastCheckSafeIntMinMaxUnsigned" ->
                      AtMost(x, MaxOf(To)) /\ ~Negative(x)
                 [] OTHER -> Between(MinOf(To), x, MaxOf(To)),
               To, x)

\* A verdict that is still to be cast into T.
ThenCast(T, U, outcome) ==
    IF outcome.error # "none" THEN outcome
    ELSE SafeCast(T, Typed(U, outcome.value))

-----------------------------------------------------------------------------
(* The zones of a pair of types by their sizes, of which the library has a *)
(* copy for each of the four combinations of signs.                        *)

IntZone(T, U) ==
    CASE T.size < 4 /\ U.size < 4 -> "LT32_LT32"
      [] T.size = 4 /\ U.size <= 4 -> "32_LT64"
      [] T.size < 4 /\ U.size = 4 -> "LT32_32"
      [] T.size = 8 /\ U.size < 8 -> "64_LT64"
      [] T.size < 8 /\ U.size = 8 -> "LT64_64"
      [] OTHER -> "64_64"

Signs(T, U) == <<T.signed, U.signed>>
UU == <<FALSE, FALSE>>
US == <<FALSE, TRUE>>
SS == <<TRUE, TRUE>>
SU == <<TRUE, FALSE>>

\* The absolute value of a negative x, computed without a sign.
AbsValue(x) ==
    LET A == IF x.t.size < 8 THEN Uint32 ELSE Uint64
    IN  Cast(A, Literal(-x.v))

-----------------------------------------------------------------------------
(* Negation.  Of an unsigned value it is the class that warns or not; the  *)
(* value wraps.                                                            *)

\* ~x + 1
TwosComplement(x) == Typed(x.t, Wrapped(x.t, -x.v))
SignedNegation(S, x) == Cast(S, TwosComplement(Cast([S EXCEPT !.signed = FALSE], x)))

NegateSigned(x) ==
    IF x.v # minInt(x.t) THEN Returned(-x.v) ELSE Overflow
NegateUnsigned(x) ==
    Returned(Cast(x.t, Minus(Literal(0), x)).v)
NegationHelper(x) == IF x.t.signed THEN NegateSigned(x) ELSE NegateUnsigned(x)

-----------------------------------------------------------------------------
(* Comparison. *)

IsLikeSigned(T, U) == T.signed = U.signed

ValidComparison(T, U) ==
    CASE IsLikeSigned(T, U) -> "Ok"
      [] \/ T.signed /\ T.size < 8 /\ U.size < 4
         \/ U.signed /\ T.size < 4 /\ U.size < 8 -> "CastInt"
      [] \/ T.signed /\ U.size < 8
         \/ U.signed /\ T.size < 8 -> "CastInt64"
      [] ~T.signed -> "UnsignedT"
      [] OTHER -> "UnsignedU"

EqualityTest(x, y, method) ==
    CASE method = "Ok" -> Equal(x, y)
      [] method = "CastInt" -> Equal(Cast(Int32, x), Cast(Int32, y))
      [] method = "CastInt64" -> Equal(Cast(Int64, x), Cast(Int64, y))
      [] method = "UnsignedT" -> ~Negative(y) /\ Equal(x, Cast(x.t, y))
      [] OTHER -> ~Negative(x) /\ Equal(Cast(y.t, x), y)

GreaterThanTest(x, y, method) ==
    CASE method = "Ok" -> Less(y, x)
      [] method = "CastInt" -> Less(Cast(Int32, y), Cast(Int32, x))
      [] method = "CastInt64" -> Less(Cast(Int64, y), Cast(Int64, x))
      [] method = "UnsignedT" -> Negative(y) \/ Less(Cast(x.t, y), x)
      [] OTHER -> ~Negative(x) /\ Less(y, Cast(y.t, x))

-----------------------------------------------------------------------------
(* Modulus. *)

ModulusPlain(x, y, method) ==
    LET Widen(z) == IF method = "CastInt64" THEN Cast(Int64, z) ELSE z IN
    IF y.t.signed /\ y.v = -1
    THEN Returned(0)
    ELSE Returned(Cast(x.t, Percent(Widen(x), Widen(y))).v)

ModulusUnsignedT(x, y) ==
    Returned(Cast(x.t, Percent(x, IF Negative(y) THEN AbsValue(y) ELSE y)).v)

ModulusUnsignedU(x, y) ==
    LET rest == Percent(IF Negative(x) THEN AbsValue(x) ELSE x, y)
    IN  Returned(Cast(x.t, IF Negative(x) THEN TwosComplement(rest) ELSE rest).v)

ModulusHelper(x, y, method) ==
    CASE y.v = 0 -> DivideByZero
      [] y.v # 0 /\ method \in {"Ok", "CastInt", "CastInt64"} -> ModulusPlain(x, y, method)
      [] y.v # 0 /\ method = "UnsignedT" -> ModulusUnsignedT(x, y)
      [] y.v # 0 /\ method = "UnsignedU" -> ModulusUnsignedU(x, y)

-----------------------------------------------------------------------------
(* The product of integers of 64 bits, from those of their halves. *)

Wide(x) == Cast(Uint64, x)
HighHalf(x) == Typed(Uint32, x.v \div 2 ^ Bits[4])
LowHalf(x) == Cast(Uint32, x)
WideTimes(x, y) == Times(Wide(x), Wide(y))

\* Variants, here and below, are plausible mistakes in the definition that
\* follows them; PROJECT.json pairs each with the property that detects it.
AddHalves_CarryLost(cross, low) ==
    LET up == Typed(Uint64, Wrapped(Uint64, cross.v * 2 ^ Bits[4]))
        sum == Plus(up, low)
    IN  IF HighHalf(cross).v # 0 THEN OverflowLeaving(cross.v) ELSE Returned(sum.v)

\* The cross product of the halves, moved up, plus that of the low ones.
AddHalves(cross, low) ==
    LET up == Typed(Uint64, Wrapped(Uint64, cross.v * 2 ^ Bits[4]))
        sum == Plus(up, low)
    IN  CASE HighHalf(cross).v # 0 -> OverflowLeaving(cross.v)
          [] HighHalf(cross).v = 0 /\ Less(sum, low) -> OverflowLeaving(sum.v)
          [] OTHER -> Returned(sum.v)

RegUint64Uint64(a, b) ==
    LET cross == IF HighHalf(a).v = 0
                 THEN WideTimes(LowHalf(a), HighHalf(b))
                 ELSE WideTimes(HighHalf(a), LowHalf(b))
        low == WideTimes(LowHalf(a), LowHalf(b))
    IN  IF HighHalf(a).v # 0 /\ HighHalf(b).v # 0
        THEN OverflowLeaving(0)
        ELSE IF cross.v # 0 THEN AddHalves(cross, low) ELSE Returned(low.v)

RegUint64Uint(a, b) ==
    LET low == WideTimes(LowHalf(a), b)
    IN  IF HighHalf(a).v # 0
        THEN AddHalves(WideTimes(HighHalf(a), b), low)
        ELSE Returned(low.v)

RegUint64Int(a, b) ==
    IF Negative(b) /\ a.v # 0 THEN Overflow
    ELSE RegUint64Uint(a, Cast(Uint32, b))

RegUint64Int64(a, b) ==
    IF Negative(b) /\ a.v # 0 THEN Overflow
    ELSE RegUint64Uint64(a, Cast(Uint64, b))

\* The product in S of two numbers, given that of their magnitudes.
Signed(S, negative, outcome) ==
    LET tmp == Typed(Uint64, outcome.value)
        limit == Cast([S EXCEPT !.signed = FALSE],
                      IF negative THEN MinOf(S) ELSE MaxOf(S))
    IN  IF outcome.error # "none" \/ Less(limit, tmp)
        THEN Overflow
        ELSE Returned((IF negative THEN SignedNegation(S, tmp)
                       ELSE Cast(S, tmp)).v)

\* What is left of a signed value without its sign, as an unsigned U.
WithoutSign(U, x) ==
    Cast(U, IF Negative(x) THEN Cast(x.t, AbsValue(x)) ELSE x)

RegIntUint64(a, b) ==
    LET tmp == Times(WithoutSign(Uint32, a), Wide(LowHalf(b)))
    IN  IF HighHalf(b).v # 0 /\ a.v # 0 THEN Overflow
        ELSE Signed(Int32, Negative(a), Returned(tmp.v))

RegUintUint64(a, b) ==
    LET tmp == Times(b, Wide(a))
    IN  IF HighHalf(b).v # 0 /\ a.v # 0 THEN Overflow
        ELSE Accept(HighHalf(tmp).v = 0, Uint32, tmp)

RegUintInt64(a, b) ==
    IF Negative(b) /\ a.v # 0 THEN Overflow
    ELSE RegUintUint64(a, Cast(Uint64, b))

RegInt64Int64(a, b) ==
    Signed(Int64, Negative(a) # Negative(b),
           RegUint64Uint64(WithoutSign(Uint64, a), WithoutSign(Uint64, b)))

RegInt64Uint(a, b) ==
    Signed(Int64, Negative(a), RegUint64Uint(WithoutSign(Uint64, a), b))

\* The right side is widened first in one form, not in the other, which is
\* the same to it.
RegInt64Int(a, b) ==
    Signed(Int64, Negative(a) # Negative(b),
           RegUint64Uint(WithoutSign(Uint64, a), WithoutSign(Uint32, b)))

RegIntInt64(a, b) ==
    Signed(Int32, Negative(a) # Negative(b),
           RegUintUint64(WithoutSign(Uint32, a), WithoutSign(Uint64, b)))

RegInt64Uint64(a, b) ==
    Signed(Int64, Negative(a), RegUint64Uint64(WithoutSign(Uint64, a), b))

\* The other build: the compiler's product of 128 bits, as two halves.
IntrinsicMultiplyUint64(a, b) ==
    LET product == a.v * b.v
        low == product % 2 ^ Bits[8]
    IN  IF product \div 2 ^ Bits[8] = 0 THEN Returned(low) ELSE OverflowLeaving(low)

IntrinsicMultiplyInt64(a, b) ==
    LET product == a.v * b.v
        high == product \div 2 ^ Bits[8]
        low == Wrapped(Int64, product)
        differ == (a.v < 0) # (b.v < 0)
    IN  IF \/ differ /\ high = -1 /\ low < 0
           \/ differ /\ high = 0 /\ low = 0
           \/ ~differ /\ high = 0 /\ ~Less(MaxOf(Int64), Cast(Uint64, Typed(Int64, low)))
        THEN Returned(low) ELSE OverflowLeaving(low)

-----------------------------------------------------------------------------
(* Multiplication. *)

MultiplicationMethod(T, U) ==
    LET zone == IntZone(T, U)
        signs == Signs(T, U)
    IN  CASE zone = "LT32_LT32" -> IF signs = UU THEN "CastUint" ELSE "CastInt"
          [] zone \in {"32_LT64", "LT32_32"} ->
               IF signs = UU THEN "CastUint64" ELSE "CastInt64"
          [] zone = "64_LT64" -> (CASE signs = UU -> "Uint64Uint"
                                    [] signs = US -> "Uint64Int"
                                    [] signs = SS -> "Int64Int"
                                    [] signs = SU -> "Int64Uint")
          [] zone = "LT64_64" -> (CASE signs = UU -> "UintUint64"
                                    [] signs = US -> "UintInt64"
                                    [] signs = SS -> "IntInt64"
                                    [] signs = SU -> "IntUint64")
          [] zone = "64_64" -> (CASE signs = UU -> "Uint64Uint64"
                                  [] signs = US -> "Uint64Int64"
                                  [] signs = SS -> "Int64Int64"
                                  [] signs = SU -> "Int64Uint64")

MultiplyCastInt(x, y) ==
    LET tmp == Cast(Int32, Times(x, y))
    IN  Accept(Between(MinOf(x.t), tmp, MaxOf(x.t)), x.t, tmp)
MultiplyCastUint(x, y) ==
    LET tmp == Cast(Uint32, Times(x, y))
    IN  Accept(AtMost(tmp, MaxOf(x.t)), x.t, tmp)
MultiplyCastInt64(x, y) ==
    LET tmp == Times(Cast(Int64, x), Cast(Int64, y))
    IN  Accept(Between(MinOf(x.t), tmp, MaxOf(x.t)), x.t, tmp)
MultiplyCastUint64(x, y) ==
    LET tmp == WideTimes(x, y)
    IN  Accept(AtMost(tmp, MaxOf(x.t)), x.t, tmp)

\* One side at least has 64 bits.
MultiplyUint64Uint64(x, y) == RegUint64Uint64(x, y)
MultiplyUint64Uint(x, y) == RegUint64Uint(x, Cast(Uint32, y))
MultiplyUint64Int(x, y) == RegUint64Int(x, Cast(Int32, y))
MultiplyUint64Int64(x, y) == RegUint64Int64(x, y)
MultiplyInt64Uint(x, y) == RegInt64Uint(x, Cast(Uint32, y))
MultiplyInt64Int64(x, y) == RegInt64Int64(x, y)
MultiplyInt64Int(x, y) == RegInt64Int(x, Cast(Int32, y))
MultiplyInt64Uint64(x, y) == RegInt64Uint64(x, y)

\* The left side is narrower, and the product is cast to its type.
MultiplyUintUint64(x, y) == ThenCast(x.t, Uint32, RegUintUint64(Cast(Uint32, x), y))
MultiplyUintInt64(x, y) == ThenCast(x.t, Uint32, RegUintInt64(Cast(Uint32, x), y))
MultiplyIntUint64(x, y) == ThenCast(x.t, Int32, RegIntUint64(Cast(Int32, x), y))
MultiplyIntInt64(x, y) == ThenCast(x.t, Int32, RegIntInt64(Cast(Int32, x), y))

Multiply(x, y) ==
    LET m == MultiplicationMethod(x.t, y.t)
    IN  CASE m = "CastInt"      -> MultiplyCastInt(x, y)
          [] m = "CastUint"     -> MultiplyCastUint(x, y)
          [] m = "CastInt64"    -> MultiplyCastInt64(x, y)
          [] m = "CastUint64"   -> MultiplyCastUint64(x, y)
          [] m = "Uint64Uint64" -> MultiplyUint64Uint64(x, y)
          [] m = "Uint64Uint"   -> MultiplyUint64Uint(x, y)
          [] m = "Uint64Int"    -> MultiplyUint64Int(x, y)
          [] m = "Uint64Int64"  -> MultiplyUint64Int64(x, y)
          [] m = "Int64Uint"    -> MultiplyInt64Uint(x, y)
          [] m = "Int64Int64"   -> MultiplyInt64Int64(x, y)
          [] m = "Int64Int"     -> MultiplyInt64Int(x, y)
          [] m = "Int64Uint64"  -> MultiplyInt64Uint64(x, y)
          [] m = "UintUint64"   -> MultiplyUintUint64(x, y)
          [] m = "UintInt64"    -> MultiplyUintInt64(x, y)
          [] m = "IntUint64"    -> MultiplyIntUint64(x, y)
          [] m = "IntInt64"     -> MultiplyIntInt64(x, y)

-----------------------------------------------------------------------------
(* Division. *)

DivisionMethod(T, U) ==
    CASE ~T.signed /\ ~U.signed -> "OK"
      [] ~T.signed /\ U.signed -> "UnsignedSigned"
      [] T.signed /\ U = Uint32 /\ T.size < 8 -> "SignedUnsigned32"
      [] T.signed /\ U = Uint64 -> "SignedUnsigned64"
      [] T.signed /\ ~U.signed /\ U # Uint64 /\ ~(U = Uint32 /\ T.size < 8) ->
           "SignedUnsigned"
      [] T.signed /\ U.signed -> "SignedSigned"

DividePlain(x, y) == Returned(Cast(x.t, Over(x, y)).v)
DivideSignedUnsigned(x, y) == DividePlain(x, y)

DivideUnsignedSigned(x, y) ==
    IF ~Negative(y) THEN DividePlain(x, y)
    ELSE Accept(Less(x, AbsValue(y)), x.t, Literal(0))

DivideSignedUnsigned32(x, y) ==
    IF ~Negative(x) THEN DividePlain(x, y)
    ELSE Returned(Cast(x.t, Over(Cast(Int64, x), Cast(Int64, y))).v)

\* The least T is meant to be compared with its magnitude, but the cast to 64
\* bits extends its sign: for a narrower T the corner case is never met.
DivideSignedUnsigned64(x, y) ==
    LET W == IF x.t.size < 8 THEN Int32 ELSE Int64
    IN  CASE AtMost(y, Wide(MaxOf(x.t))) ->
               Returned(Cast(x.t, Over(Cast(W, x), Cast(W, y))).v)
          [] /\ ~AtMost(y, Wide(MaxOf(x.t)))
             /\ x = MinOf(x.t)
             /\ Equal(y, Wide(MinOf(x.t))) -> Returned(-1)
          [] OTHER -> Returned(0)

DivideSignedSigned(x, y) ==
    IF x = MinOf(x.t) /\ y.v = -1 THEN Overflow ELSE DividePlain(x, y)

Divide(x, y) ==
    LET method == DivisionMethod(x.t, y.t)
    IN  CASE y.v = 0 -> DivideByZero
          [] y.v # 0 /\ x.v = 0 -> Returned(0)
          [] OTHER ->
               (CASE method = "OK" -> DividePlain(x, y)
                  [] method = "SignedUnsigned" -> DivideSignedUnsigned(x, y)
                  [] method = "UnsignedSigned" -> DivideUnsignedSigned(x, y)
                  [] method = "SignedUnsigned32" -> DivideSignedUnsigned32(x, y)
                  [] method = "SignedUnsigned64" -> DivideSignedUnsigned64(x, y)
                  [] method = "SignedSigned" -> DivideSignedSigned(x, y))

-----------------------------------------------------------------------------
(* Addition. *)

Uint64Plus(x, y) == Plus(Wide(x), Wide(y))
Uint64Minus(x, y) == Minus(Wide(x), Wide(y))
Int64Plus(x, y) == Plus(Cast(Int64, x), Cast(Int64, y))
Int64Minus(x, y) == Minus(Cast(Int64, x), Cast(Int64, y))

AdditionMethod(T, U) ==
    LET zone == IntZone(T, U)
        signs == Signs(T, U)
    IN  CASE zone = "LT32_LT32" -> IF signs \in {UU, SU} THEN "CastIntCheckMax"
                                   ELSE "CastIntCheckSafeIntMinMax"
          [] zone \in {"32_LT64", "LT32_32"} ->
               (CASE signs = UU -> IF zone = "32_LT64" THEN "CastUintCheckOverflow"
                                   ELSE "CastUintCheckOverflowMax"
                  [] signs = SU -> "CastInt64CheckMax"
                  [] OTHER -> "CastInt64CheckSafeIntMinMax")
          [] zone \in {"64_LT64", "64_64"} ->
               (CASE signs = UU -> "CastUint64CheckOverflow"
                  [] signs = US -> "CastUint64CheckSafeIntMinMax"
                  [] signs = SS -> "CastInt64CheckOverflow"
                  [] signs = SU -> IF zone = "64_LT64" THEN "CastInt64CheckOverflowMax"
                                   ELSE "ManualCheckInt64Uint64")
          [] zone = "LT64_64" ->
               (CASE signs = UU -> "CastUint64CheckOverflowMax"
                  [] signs = US -> "CastUint64CheckSafeIntMinMax2"
                  [] signs = SS -> "CastInt64CheckOverflowSafeIntMinMax"
                  [] signs = SU -> "ManualCheck")

AddCastIntCheckMax(x, y) ==
    LET tmp == Cast(Int32, Plus(x, y))
    IN  Accept(AtMost(tmp, MaxOf(x.t)), x.t, tmp)
AddCastIntCheckSafeIntMinMax(x, y) ==
    LET tmp == Cast(Int32, Plus(x, y))
    IN  Accept(Between(MinOf(x.t), tmp, MaxOf(x.t)), x.t, tmp)

AddCastUintCheckOverflow(x, y) ==
    LET tmp == Plus(Cast(Uint32, x), Cast(Uint32, y))
    IN  Accept(AtMost(x, tmp), x.t, tmp)
AddCastUintCheckOverflowMax(x, y) ==
    LET tmp == Plus(Cast(Uint32, x), Cast(Uint32, y))
    IN  Accept(AtMost(x, tmp) /\ AtMost(tmp, MaxOf(x.t)), x.t, tmp)
AddCastUint64CheckOverflow(x, y) ==
    LET tmp == Uint64Plus(x, y)
    IN  Accept(AtMost(x, tmp), x.t, tmp)
AddCastUint64CheckOverflowMax(x, y) ==
    LET tmp == Uint64Plus(x, y)
    IN  Accept(AtMost(x, tmp) /\ AtMost(tmp, MaxOf(x.t)), x.t, tmp)

AddCastInt64CheckMax(x, y) ==
    LET tmp == Int64Plus(x, y)
    IN  Accept(AtMost(tmp, MaxOf(x.t)), x.t, tmp)
AddCastInt64CheckSafeIntMinMax(x, y) ==
    LET tmp == Int64Plus(x, y)
    IN  Accept(Between(MinOf(x.t), tmp, MaxOf(x.t)), x.t, tmp)

AddCastUint64CheckSafeIntMinMax(x, y) ==
    LET back == Wide(AbsValue(y))
        tmp == Uint64Plus(x, y)
    IN  IF Negative(y) THEN Accept(AtMost(back, x), x.t, Minus(x, back))
        ELSE Accept(AtMost(x, tmp), x.t, tmp)

AddCastUint64CheckSafeIntMinMax2(x, y) ==
    LET tmp == Uint64Plus(x, y)
    IN  IF Negative(y)
        THEN Accept(AtMost(TwosComplement(Wide(y)), x), x.t, Plus(x, y))
        ELSE Accept(AtMost(tmp, MaxOf(x.t)), x.t, tmp)

AddCastInt64CheckOverflow(x, y) ==
    LET tmp == Cast(Int64, Uint64Plus(x, y))
    IN  Accept(IF Negative(x) THEN Negative(y) => AtMost(tmp, x)
               ELSE ~Negative(y) => AtMost(x, tmp),
               x.t, tmp)

AddCastInt64CheckOverflowSafeIntMinMax(x, y) ==
    LET sum == AddCastInt64CheckOverflow(Cast(Int64, x), Cast(Int64, y))
        tmp == Typed(Int64, sum.value)
    IN  IF sum.error # "none" THEN sum
        ELSE Accept(Between(MinOf(x.t), tmp, MaxOf(x.t)), x.t, tmp)

AddCastInt64CheckOverflowMax(x, y) ==
    LET tmp == Cast(Int64, Uint64Plus(x, y))
    IN  Accept(AtMost(x, tmp), x.t, tmp)

AddManualCheckInt64Uint64(x, y) ==
    LET tmp == Cast(Int64, Plus(Wide(x), y))
    IN  Accept(AtMost(x, tmp), x.t, tmp)

AddManualCheck(x, y) ==
    LET tmp == Cast(Int32, Plus(Cast(Uint32, y), Cast(Uint32, x)))
    IN  IF HighHalf(y).v = 0 /\ AtMost(x, tmp) THEN SafeCast(x.t, tmp) ELSE Overflow

Addition(x, y) ==
    LET m == AdditionMethod(x.t, y.t)
    IN  CASE m = "CastIntCheckMax" -> AddCastIntCheckMax(x, y)
          [] m = "CastIntCheckSafeIntMinMax" -> AddCastIntCheckSafeIntMinMax(x, y)
          [] m = "CastUintCheckOverflow" -> AddCastUintCheckOverflow(x, y)
          [] m = "CastUintCheckOverflowMax" -> AddCastUintCheckOverflowMax(x, y)
          [] m = "CastUint64CheckOverflow" -> AddCastUint64CheckOverflow(x, y)
          [] m = "CastUint64CheckOverflowMax" -> AddCastUint64CheckOverflowMax(x, y)
          [] m = "CastInt64CheckMax" -> AddCastInt64CheckMax(x, y)
          [] m = "CastInt64CheckSafeIntMinMax" -> AddCastInt64CheckSafeIntMinMax(x, y)
          [] m = "CastUint64CheckSafeIntMinMax" -> AddCastUint64CheckSafeIntMinMax(x, y)
          [] m = "CastUint64CheckSafeIntMinMax2" -> AddCastUint64CheckSafeIntMinMax2(x, y)
          [] m = "CastInt64CheckOverflow" -> AddCastInt64CheckOverflow(x, y)
          [] m = "CastInt64CheckOverflowSafeIntMinMax" ->
               AddCastInt64CheckOverflowSafeIntMinMax(x, y)
          [] m = "CastInt64CheckOverflowMax" -> AddCastInt64CheckOverflowMax(x, y)
          [] m = "ManualCheckInt64Uint64" -> AddManualCheckInt64Uint64(x, y)
          [] m = "ManualCheck" -> AddManualCheck(x, y)

-----------------------------------------------------------------------------
(* Subtraction from a SafeInt: the result is of the type of the left side. *)

SubtractionMethod(T, U) ==
    LET zone == IntZone(T, U)
        signs == Signs(T, U)
    IN  CASE signs = UU -> "BothUnsigned"
          [] signs # UU /\ zone = "LT32_LT32" ->
               IF signs = SU THEN "CastIntCheckMin" ELSE "CastIntCheckSafeIntMinMax"
          [] signs # UU /\ zone \in {"32_LT64", "LT32_32"} ->
               IF signs = SU THEN "CastInt64CheckMin" ELSE "CastInt64CheckSafeIntMinMax"
          [] signs = US /\ zone \in {"64_LT64", "64_64"} -> "Uint64Int"
          [] signs = SS /\ zone \in {"64_LT64", "64_64"} -> "Int64Int"
          [] signs = SU /\ zone = "64_LT64" -> "Int64Uint"
          [] signs = SU /\ zone = "64_64" -> "Int64Uint64"
          [] signs = US /\ zone = "LT64_64" -> "UintInt64"
          [] signs = SS /\ zone = "LT64_64" -> "IntInt64"
          [] signs = SU /\ zone = "LT64_64" -> "IntUint64"

SubBothUnsigned(x, y) == Accept(AtMost(y, x), x.t, Minus(x, y))

SubCastIntCheckSafeIntMinMax(x, y) == SafeCast(x.t, Cast(Int32, Minus(x, y)))

SubCastIntCheckMin(x, y) ==
    LET tmp == Cast(Int32, Minus(x, y))
    IN  Accept(AtMost(MinOf(x.t), tmp), x.t, tmp)

SubCastInt64CheckSafeIntMinMax(x, y) == SafeCast(x.t, Int64Minus(x, y))

SubCastInt64CheckMin(x, y) ==
    LET tmp == Int64Minus(x, y)
    IN  Accept(AtMost(MinOf(x.t), tmp), x.t, tmp)

\* The sum is stored before it is compared.
SubUint64Int(x, y) ==
    LET sum == Plus(x, AbsValue(y))
    IN  CASE ~Negative(y) -> Accept(AtMost(Wide(y), x), x.t, Minus(x, Wide(y)))
          [] Negative(y) /\ Less(sum, x) -> OverflowLeaving(sum.v)
          [] Negative(y) /\ ~Less(sum, x) -> Returned(sum.v)

SubUintInt64(x, y) ==
    LET tmp == Plus(x, TwosComplement(Wide(y)))
    IN  IF Negative(y) THEN Accept(AtMost(tmp, MaxOf(x.t)), x.t, tmp)
        ELSE Accept(AtMost(Wide(y), x), x.t, Minus(x, Cast(x.t, y)))

SubInt64Int(x, y) ==
    LET tmp == Cast(Int64, Uint64Minus(x, y))
    IN  Accept(/\ ~(~Negative(x) /\ Negative(y) /\ Less(tmp, x))
               /\ ~(~Negative(y) /\ Less(x, tmp)),
               x.t, tmp)

SubIntInt64(x, y) ==
    LET tmp == Cast(Int64, Uint64Minus(x, y))
        low == AtMost(MinOf(x.t), tmp)
        high == AtMost(tmp, MaxOf(x.t))
    IN  Accept(CASE ~Negative(x) /\ ~Negative(y) -> low
                 [] ~Negative(x) /\ Negative(y) -> AtMost(x, tmp) /\ high
                 [] Negative(x) /\ ~Negative(y) -> AtMost(tmp, x) /\ low
                 [] Negative(x) /\ Negative(y) -> high,
               x.t, tmp)

SubInt64Uint(x, y) ==
    LET tmp == Cast(Int64, Uint64Minus(x, y))
    IN  Accept(AtMost(tmp, x), x.t, tmp)

SubIntUint64(x, y) ==
    LET AbsMinIntT == Plus(Wide(MaxOf(x.t)), Literal(1))
        room == IF Negative(x) THEN Minus(AbsMinIntT, AbsValue(x))
                ELSE Plus(AbsMinIntT, Wide(x))
    IN  Accept(AtMost(y, room), x.t, Minus(x, y))

SubInt64Uint64(x, y) ==
    LET tmp == Cast(Int64, Minus(Wide(x), y))
    IN  Accept(AtMost(tmp, x), x.t, tmp)

Subtract(x, y) ==
    LET m == SubtractionMethod(x.t, y.t)
    IN  CASE m = "BothUnsigned" -> SubBothUnsigned(x, y)
          [] m = "CastIntCheckSafeIntMinMax" -> SubCastIntCheckSafeIntMinMax(x, y)
          [] m = "CastIntCheckMin" -> SubCastIntCheckMin(x, y)
          [] m = "CastInt64CheckSafeIntMinMax" -> SubCastInt64CheckSafeIntMinMax(x, y)
          [] m = "CastInt64CheckMin" -> SubCastInt64CheckMin(x, y)
          [] m = "Uint64Int" -> SubUint64Int(x, y)
          [] m = "UintInt64" -> SubUintInt64(x, y)
          [] m = "Int64Int" -> SubInt64Int(x, y)
          [] m = "IntInt64" -> SubIntInt64(x, y)
          [] m = "Int64Uint" -> SubInt64Uint(x, y)
          [] m = "IntUint64" -> SubIntUint64(x, y)
          [] m = "Int64Uint64" -> SubInt64Uint64(x, y)

-----------------------------------------------------------------------------
(* Subtraction of a SafeInt: the result is of the type of the right side.  *)

SubtractionMethod2(T, U) ==
    LET m == SubtractionMethod(T, U)
    IN  CASE m = "CastIntCheckMin" -> "CastIntCheckSafeIntMinMax"
          [] m = "CastInt64CheckMin" -> "CastInt64CheckSafeIntMinMax"
          [] OTHER -> m

Sub2BothUnsigned(x, y) ==
    IF AtMost(y, x) THEN SafeCast(y.t, Cast(x.t, Minus(x, y))) ELSE Overflow

Sub2CastIntCheckSafeIntMinMax(x, y) == SafeCast(y.t, Cast(Int32, Minus(x, y)))

Sub2CastInt64CheckSafeIntMinMax(x, y) == SafeCast(y.t, Int64Minus(x, y))

Sub2Uint64Int(x, y) ==
    LET sum == Plus(x, Wide(AbsValue(y)))
        difference == Uint64Minus(x, y)
    IN  CASE Negative(y) -> Accept(AtMost(x, sum) /\ AtMost(sum, MaxOf(y.t)), y.t, sum)
          [] ~Negative(y) /\ Less(x, Wide(y)) ->
               Returned(Cast(y.t, Minus(Cast(y.t, x), y)).v)
          [] ~Negative(y) /\ ~Less(x, Wide(y)) ->
               Accept(AtMost(difference, MaxOf(y.t)), y.t, difference)

Sub2UintInt64(x, y) ==
    LET tmp == Plus(Wide(x), TwosComplement(Wide(y)))
    IN  IF Negative(y) THEN Accept(AtMost(tmp, Wide(MaxOf(y.t))), y.t, tmp)
        ELSE Returned(Cast(y.t, Minus(Cast(Int64, x), y)).v)

Sub2Int64Int_NoLowerEnd(x, y) ==
    LET tmp == Minus(x, y)
    IN  Accept(Negative(x) \/ (/\ ~(y.t.size < 8 /\ Less(MaxOf(y.t), tmp))
                               /\ ~(Negative(y) /\ Less(tmp, x))),
               y.t, tmp)

Sub2Int64Int(x, y) ==
    LET tmp == Minus(x, y)
    IN  Accept(IF ~Negative(x)
               THEN /\ ~(y.t.size < 8 /\ Less(MaxOf(y.t), tmp))
                    /\ ~(Negative(y) /\ Less(tmp, x))
               ELSE /\ ~(y.t.size < 8 /\ Less(tmp, MinOf(y.t)))
                    /\ ~(~Negative(y) /\ Less(x, tmp)),
               y.t, tmp)

Sub2IntInt64(x, y) ==
    LET tmp == Minus(Cast(Int64, x), y)
    IN  Accept(/\ ~(~Negative(x) /\ Negative(y) /\ Less(tmp, x))
               /\ ~(Less(Literal(0), y) /\ Less(x, tmp)),
               y.t, tmp)

Sub2Int64Uint(x, y) ==
    LET tmp == Cast(Int64, Uint64Minus(x, y))
    IN  Accept(Between(MinOf(y.t), tmp, MaxOf(y.t)), y.t, tmp)

Sub2IntUint64(x, y) ==
    Accept(~Negative(x) /\ AtMost(y, Cast(y.t, x)), y.t, Minus(x, Cast(x.t, y)))

Sub2Int64Uint64(x, y) ==
    Accept(~Negative(x) /\ AtMost(y, Wide(x)), y.t, Minus(Wide(x), y))

Subtract2(x, y) ==
    LET m == SubtractionMethod2(x.t, y.t)
    IN  CASE m = "BothUnsigned" -> Sub2BothUnsigned(x, y)
          [] m = "CastIntCheckSafeIntMinMax" -> Sub2CastIntCheckSafeIntMinMax(x, y)
          [] m = "CastInt64CheckSafeIntMinMax" -> Sub2CastInt64CheckSafeIntMinMax(x, y)
          [] m = "Uint64Int" -> Sub2Uint64Int(x, y)
          [] m = "UintInt64" -> Sub2UintInt64(x, y)
          [] m = "Int64Int" -> Sub2Int64Int(x, y)
          [] m = "IntInt64" -> Sub2IntInt64(x, y)
          [] m = "Int64Uint" -> Sub2Int64Uint(x, y)
          [] m = "IntUint64" -> Sub2IntUint64(x, y)
          [] m = "Int64Uint64" -> Sub2Int64Uint64(x, y)

-----------------------------------------------------------------------------
(* Modulus and division of a plain number by a SafeInt. *)

ReverseModulus(x, y) ==
    CASE x.t = y.t /\ y.v = 0 -> DivideByZero
      [] x.t = y.t /\ y.v # 0 ->
           IF y.t.signed /\ y.v = -1 THEN Returned(0)
           ELSE Returned(Cast(y.t, Percent(x, y)).v)
      [] x.t # y.t ->
           ThenCast(y.t, x.t, ModulusHelper(x, y, ValidComparison(x.t, y.t)))

\* An unsigned number by a negative one.
DivisionNegativeCornerCase(x, y) ==
    LET A == IF y.t.size = 4 THEN Uint32 ELSE Uint64
        tmp == Cast(x.t, Over(x, Cast(x.t, TwosComplement(Cast(A, y)))))
        limit == Cast(x.t, MaxOf(y.t))
    IN  CASE AtMost(tmp, limit) ->
               Returned(Cast(y.t, TwosComplement(Wide(tmp))).v)
          [] Equal(tmp, Plus(limit, Literal(1))) -> Returned(minInt(y.t))
          [] OTHER -> Overflow

DivisionCornerCase1(x, y) ==
    CASE y.v = 0 -> DivideByZero
      [] y.v < 0 /\ x.t.size >= 4 /\ y.t.size <= x.t.size ->
           DivisionNegativeCornerCase(x, y)
      [] OTHER -> SafeCast(y.t, Over(x, y))

\* The least number of a signed type by -1.
DivisionCornerCase2(x, y) ==
    IF x.t.size < y.t.size
    THEN Returned(Cast(y.t, Minus(Literal(0), Cast(y.t, MinOf(x.t)))).v)
    ELSE Overflow

ReverseDivide(x, y) ==
    CASE DivisionMethod(x.t, y.t) = "UnsignedSigned" -> DivisionCornerCase1(x, y)
      [] x.t.signed /\ y.t.signed /\ x = MinOf(x.t) /\ y.v = -1 ->
           DivisionCornerCase2(x, y)
      [] OTHER -> ThenCast(y.t, x.t, Divide(x, y))

-----------------------------------------------------------------------------
(* An object SafeInt<T>, on which one operation is done.  It has no other  *)
(* state than its number, so that one operation from every value tells all.*)

VARIABLES
    m_int,   \* the number, with its type T
    did      \* the operation, what it was given and what came out

intVars == <<m_int, did>>

Operands == UNION {{Typed(T, n) : n \in Numbers \cap ValuesOf(T)} : T \in IntTypes}
Nothing == [op |-> "none", plainLeft |-> FALSE, x |-> Literal(0), y |-> Literal(0),
            outcome |-> Returned(0)]

IntInit ==
    /\ m_int \in Operands
    /\ did = Nothing

\* The operation is done once, and m_int gets what the template stores in it.
Compute(op, x, y, outcome) ==
    /\ did = Nothing
    /\ did' = [op |-> op, plainLeft |-> FALSE, x |-> x, y |-> y, outcome |-> outcome]

\* The left side is a plain number, the right one is the object.
ComputePlain(op, x, outcome) ==
    /\ did = Nothing
    /\ did' = [op |-> op, plainLeft |-> TRUE, x |-> x, y |-> m_int, outcome |-> outcome]

Assign(op, y, outcome) ==
    /\ Compute(op, m_int, y, outcome)
    /\ m_int' = IF outcome.stores THEN Typed(m_int.t, outcome.value) ELSE m_int

\* -m, ++m, --m
Negate == Compute("negate", m_int, m_int, NegationHelper(m_int)) /\ UNCHANGED m_int

Increment_Unchecked == Assign("++", m_int, Returned(m_int.v + 1))

Increment ==
    Assign("++", m_int, IF m_int.v # maxInt(m_int.t) THEN Returned(m_int.v + 1) ELSE Overflow)

Decrement ==
    Assign("--", m_int, IF m_int.v # minInt(m_int.t) THEN Returned(m_int.v - 1) ELSE Overflow)

\* To the next multiple of 2^bits, of what is not negative.
Aligned(x, bits) ==
    LET up == Plus(x, Cast(x.t, Literal(2 ^ bits - 1)))
        cut == Cast(x.t, Typed(up.t, up.v - (up.v % 2 ^ bits)))
    IN  CASE x.v = 0 -> Returned(0)
          [] x.v # 0 /\ cut.v <= 0 -> OverflowLeaving(cut.v)
          [] x.v # 0 /\ cut.v > 0 -> Returned(cut.v)

Align ==
    \E bits \in 1 .. 8 :
        /\ m_int.v >= 0
        /\ bits < Bits[m_int.t.size] - (IF m_int.t.signed THEN 1 ELSE 0)
        /\ Assign("align", Literal(bits), Aligned(m_int, bits))

\* SafeInt<U>(m), (U)m
Convert ==
    \E U \in IntTypes :
        /\ Compute("cast", m_int, MinOf(U), SafeCast(U, m_int))
        /\ UNCHANGED m_int

\* m op= y; m op y is the same with a result of its own.
ArithmeticOf(op, x, y) ==
    CASE op = "%" -> ModulusHelper(x, y, ValidComparison(x.t, y.t))
      [] op = "*" -> Multiply(x, y)
      [] op = "/" -> Divide(x, y)
      [] op = "+" -> Addition(x, y)
      [] op = "-" -> Subtract(x, y)

Arithmetic == {"%", "*", "/", "+", "-"}
CompoundAssign ==
    \E op \in Arithmetic, y \in Operands : Assign(op, y, ArithmeticOf(op, m_int, y))

\* The product as the other build has it.
IntrinsicAssign ==
    \E y \in Operands :
        /\ y.t = m_int.t /\ y.t.size = 8
        /\ Assign("_mul128", y, IF y.t.signed THEN IntrinsicMultiplyInt64(m_int, y)
                          ELSE IntrinsicMultiplyUint64(m_int, y))

\* x op m, of a plain number x
ReverseOf(op, x, y) ==
    CASE op = "%" -> ReverseModulus(x, y)
      [] op = "*" -> Multiply(y, x)
      [] op = "/" -> ReverseDivide(x, y)
      [] op = "+" -> Addition(y, x)
      [] op = "-" -> Subtract2(x, y)

Reverse ==
    \E op \in Arithmetic, x \in Operands :
        /\ ComputePlain(op, x, ReverseOf(op, x, m_int))
        /\ UNCHANGED m_int

\* <= and >= and != are the negations of these.
Comparisons == {"<", ">", "=="}
Greater(x, y) == GreaterThanTest(x, y, ValidComparison(x.t, y.t))
ComparisonOf(op, x, y) ==
    CASE op = "<"  -> Greater(y, x)
      [] op = ">"  -> Greater(x, y)
      [] op = "==" -> EqualityTest(x, y, ValidComparison(x.t, y.t))

\* The left side is a plain number: > takes the method of the pair of types the
\* other way round.
ReverseComparisonOf(op, x, y) ==
    CASE op = "<"  -> Greater(y, x)
      [] op = ">"  -> GreaterThanTest(x, y, ValidComparison(y.t, x.t))
      [] op = "==" -> EqualityTest(y, x, ValidComparison(y.t, x.t))

Truth(b) == Returned(IF b THEN 1 ELSE 0)
Compare ==
    \E op \in Comparisons, y \in Operands :
        /\ \/ Compute(op, m_int, y, Truth(ComparisonOf(op, m_int, y)))
           \/ ComputePlain(op, y, Truth(ReverseComparisonOf(op, y, m_int)))
        /\ UNCHANGED m_int

IntNext ==
    \/ Negate \/ Increment \/ Decrement \/ Align \/ Convert
    \/ CompoundAssign \/ IntrinsicAssign \/ Reverse \/ Compare

IntSpec == IntInit /\ [][IntNext]_intVars

-----------------------------------------------------------------------------
(* Properties *)

SafeIntTypeOK ==
    /\ m_int.t \in IntTypes /\ m_int.v \in ValuesOf(m_int.t)
    /\ did.outcome \in Outcomes

\* What the operation should have come to: the exact result when the type of the
\* object can hold it, an error otherwise.
Fitting(T, n) == IF n \in ValuesOf(T) THEN <<"none", n>> ELSE <<"overflow", 0>>

ExactArithmetic(op, T, m, n) ==
    CASE op \in {"%", "/"} /\ n = 0 -> <<"divideByZero", 0>>
      [] op = "%" /\ n # 0 -> Fitting(T, Rest(m, n))
      [] op = "/" /\ n # 0 -> Fitting(T, Quotient(m, n))
      [] op \in {"*", "_mul128"} -> Fitting(T, m * n)
      [] op = "+" -> Fitting(T, m + n)
      [] op = "-" -> Fitting(T, m - n)

ExactComparison(op, m, n) ==
    LET holds == CASE op = "<"  -> m < n
                   [] op = ">"  -> m > n
                   [] op = "==" -> m = n
    IN  <<"none", IF holds THEN 1 ELSE 0>>

Exact(op, T, x, y) ==
    CASE op = "none" -> <<"none", 0>>
      [] op = "negate" -> Fitting(T, IF T.signed THEN -x.v ELSE (-x.v) % Modulus(T))
      [] op = "++" -> Fitting(T, x.v + 1)
      [] op = "--" -> Fitting(T, x.v - 1)
      [] op = "align" -> Fitting(T, (-((-x.v) \div 2 ^ y.v)) * 2 ^ y.v)
      [] op = "cast" -> Fitting(y.t, x.v)
      [] op \in Comparisons -> ExactComparison(op, x.v, y.v)
      [] OTHER -> ExactArithmetic(op, T, x.v, y.v)

IsExact ==
    LET T == IF did.plainLeft THEN did.y.t ELSE did.x.t
    IN  <<did.outcome.error, IF did.outcome.error = "none" THEN did.outcome.value ELSE 0>>
            = Exact(did.op, T, did.x, did.y)

\* A quotient of the least number of a type of less than 64 bits by its magnitude
\* as 64 bits without sign (:3428, :3465).
LeastByItsMagnitude ==
    /\ did.op = "/" /\ did.y.t = Uint64
    /\ did.x.t.signed /\ did.x.t.size < 8
    /\ did.x = MinOf(did.x.t) /\ did.y.v = -did.x.v

\* A plain number > an object, one of them of 64 bits without sign and the
\* other one signed (:6452, :6490).
MethodOfTheOtherOrder ==
    /\ did.plainLeft /\ did.op = ">"
    /\ \/ did.x.t = Uint64 /\ did.y.t.signed
       \/ did.y.t = Uint64 /\ did.x.t.signed

\* An operation that throws leaves the object as it was, but for products of 64
\* bits, and a negative number subtracted from 64 bits without sign, which are
\* stored before they are known to be too large.
ThrowLeavesOperand ==
    did.outcome.error # "none" /\ did.op # "align" /\ ~did.plainLeft =>
        \/ m_int = did.x
        \/ did.op = "*" /\ did.x.t = Uint64
        \/ did.op = "_mul128"
        \/ did.op = "-" /\ did.x.t = Uint64 /\ Negative(did.y)

\* Whatever the types, the result is exact or an error, with two exceptions in
\* which it is wrong without a word.
SafeIntExact ==
    /\ IsExact \/ LeastByItsMagnitude \/ MethodOfTheOtherOrder
    /\ ThrowLeavesOperand
=============================================================================
