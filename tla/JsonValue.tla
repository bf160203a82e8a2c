------------------------------ MODULE JsonValue -------------------------------
(* The objects and numbers of json.h and json.cpp: an object is a vector of    *)
(* names and values, sorted and searched by bisection, or kept in order and    *)
(* searched from its beginning; a number is signed or unsigned.  An object may *)
(* be made of fields of which two have one name.  Widths are those of the code *)
(* when Half is 32.  Arrays, which are vectors, and doubles are left out.      *)
EXTENDS Integers, Sequences, FiniteSets, TLC

CONSTANTS
    Keys,      \* names, which are compared as strings are
    Values,    \* what members hold, besides null
    MaxFields, \* bound: the members of an object
    MaxSteps,  \* bound: the operations on it
    Half,      \* the width of int32_t, half that of int64_t
    Integrals  \* the integers that numbers are made of

\* What the constants are; MCData assumes it.
JsonValueAssumption ==
    /\ Keys \subseteq Nat /\ Values \subseteq Nat \ {0}
    /\ MaxFields \in Nat /\ MaxSteps \in Nat
    /\ Half \in Nat \ {0} /\ Integrals \subseteq Int

VARIABLES
    object,   \* m_elements
    keeps,    \* m_keep_order
    fields,   \* fields[k]: how many members should have the name k, and their value
    number,   \* m_type and the bits of m_intval
    made,     \* the integer the number was made of
    steps

valueVars == <<object, keeps, fields, number, made, steps>>
null == 0
unknown == -1   \* which of several members of one name is found, sort() decides

-----------------------------------------------------------------------------
(* Objects.                                                                   *)

Pair(k, v) == [name |-> k, value |-> v]
Insert(s, i, e) == SubSeq(s, 1, i - 1) \o <<e>> \o SubSeq(s, i, Len(s))
Without(s, i) == SubSeq(s, 1, i - 1) \o SubSeq(s, i + 1, Len(s))
End == Len(object) + 1

InOrder(s) == \A i, j \in DOMAIN s : i < j => s[i].name <= s[j].name

\* sort() with compare_pairs
Sorts(s) ==
    {t \in {[i \in DOMAIN s |-> s[p[i]]] : p \in Permutations(DOMAIN s)} : InOrder(t)}

RECURSIVE LowerBound(_, _, _)

\* Variants, here and below, are plausible mistakes in the definition that
\* follows them; PROJECT.json pairs each with the property that detects it.
LowerBound_OffByOne(k, i, n) ==
    LET half == n \div 2 IN
    IF n = 0 THEN i
    ELSE IF object[i + half].name < k THEN LowerBound(k, i + half, n - half - 1)
    ELSE LowerBound(k, i, half)

\* std::lower_bound with compare_with_key, among n members from position i on
LowerBound(k, i, n) ==
    LET half == n \div 2 IN
    IF n = 0 THEN i
    ELSE IF object[i + half].name < k THEN LowerBound(k, i + half + 1, n - half - 1)
    ELSE LowerBound(k, i, half)

\* find_insert_location
Location(k) ==
    LET same == {i \in DOMAIN object : object[i].name = k} IN
    IF ~keeps THEN LowerBound(k, 1, Len(object))
    ELSE IF same = {} THEN End ELSE CHOOSE i \in same : \A j \in same : i <= j

Found(k) == Location(k) # End /\ object[Location(k)].name = k

\* find_by_key
FindByKey(k) == IF Found(k) THEN Location(k) ELSE End

\* object(storage_type, bool)
Construct(s) ==
    /\ steps = 0
    /\ object' \in IF keeps THEN {s} ELSE Sorts(s)
    /\ fields' = [k \in Keys |->
            LET same == {i \in DOMAIN s : s[i].name = k} IN
            [count |-> Cardinality(same),
             value |-> IF Cardinality(same) = 1 THEN s[CHOOSE i \in same : TRUE].value ELSE unknown]]

\* operator[] and an assignment to what it returns
SetField(k, v) ==
    /\ Found(k) \/ Len(object) < MaxFields
    /\ object' = IF Found(k) THEN [object EXCEPT ![Location(k)].value = v]
                 ELSE Insert(object, Location(k), Pair(k, v))
    /\ fields' = [fields EXCEPT ![k] = [count |-> IF @.count = 0 THEN 1 ELSE @.count, value |-> v]]

\* erase(), which throws when there is no such member
Erase(k) ==
    IF FindByKey(k) = End THEN UNCHANGED <<object, fields>>
    ELSE /\ object' = Without(object, FindByKey(k))
         /\ fields' = [fields EXCEPT ![k] = [count |-> @.count - 1, value |-> unknown]]

-----------------------------------------------------------------------------
(* Numbers.                                                                   *)

Stored(n) == n % 2^(2 * Half)
IntVal(bits) == IF bits >= 2^(2 * Half - 1) THEN bits - 2^(2 * Half) ELSE bits
Narrow(n, signed) ==
    LET b == n % 2^Half IN IF signed /\ b >= 2^(Half - 1) THEN b - 2^Half ELSE b

NumberTypes ==
    [int32 |-> (-2^(Half - 1))..(2^(Half - 1) - 1), uint32 |-> 0..(2^Half - 1),
     int64 |-> (-2^(2 * Half - 1))..(2^(2 * Half - 1) - 1), uint64 |-> 0..(2^(2 * Half) - 1)]

\* The constructors: only a negative integer is stored as a signed one.
Number_BySignedness(type, n) ==
    [type |-> IF type \in {"int32", "int64"} THEN "signed" ELSE "unsigned", bits |-> Stored(n)]

Number(type, n) == [type |-> IF n < 0 THEN "signed" ELSE "unsigned", bits |-> Stored(n)]

IsInt32(x) ==
    IF x.type = "signed" THEN IntVal(x.bits) >= -2^(Half - 1) /\ IntVal(x.bits) <= 2^(Half - 1) - 1
    ELSE x.bits <= 2^(Half - 1) - 1
IsUInt32(x) ==
    IF x.type = "signed" THEN IntVal(x.bits) >= 0 /\ IntVal(x.bits) <= 2^Half - 1 ELSE x.bits <= 2^Half - 1
IsInt64(x) == x.type = "signed" \/ x.bits <= 2^(2 * Half - 1) - 1
IsUInt64(x) == x.type = "unsigned" \/ IntVal(x.bits) >= 0

\* to_int32, to_uint32, to_int64, to_uint64: m_intval, cast
Converted(x) ==
    [int32 |-> Narrow(IntVal(x.bits), TRUE), uint32 |-> Narrow(IntVal(x.bits), FALSE),
     int64 |-> IntVal(x.bits), uint64 |-> Stored(IntVal(x.bits))]

\* operator==
Equal(x, y) == x.type = y.type /\ x.bits = y.bits

-----------------------------------------------------------------------------
ValueInit ==
    /\ object = <<>> /\ keeps \in BOOLEAN
    /\ fields = [k \in Keys |-> [count |-> 0, value |-> unknown]]
    /\ made = 0 /\ number = Number("int32", 0)
    /\ steps = 0

ObjectStep ==
    /\ steps < MaxSteps /\ steps' = steps + 1
    /\ \/ \E n \in 0..MaxFields : \E s \in [1..n -> [name : Keys, value : Values]] : Construct(s)
       \/ \E k \in Keys, v \in Values \cup {null} : SetField(k, v)
       \/ \E k \in Keys : Erase(k)
    /\ UNCHANGED <<keeps, number, made>>

NumberStep ==
    /\ steps = 0 /\ steps' = MaxSteps
    /\ \E type \in DOMAIN NumberTypes : \E n \in Integrals \cap NumberTypes[type] :
        made' = n /\ number' = Number(type, n)
    /\ UNCHANGED <<object, keeps, fields>>

ValueNext == ObjectStep \/ NumberStep
ValueSpec == ValueInit /\ [][ValueNext]_valueVars

-----------------------------------------------------------------------------
(* Properties.                                                                *)

ValueTypeOK ==
    /\ Len(object) <= MaxFields /\ keeps \in BOOLEAN /\ steps \in 0..MaxSteps
    /\ \A i \in DOMAIN object : object[i].name \in Keys /\ object[i].value \in Values \cup {null}
    /\ number.type \in {"signed", "unsigned"} /\ number.bits \in 0..(2^(2 * Half) - 1)

\* A member is found by its name if the object has one, whatever was inserted,
\* overwritten and erased before, and with the value it was last given; with it
\* the bisection has an object in order to search.
ObjectIsMap ==
    /\ ~keeps => InOrder(object)
    /\ \A k \in Keys :
        /\ fields[k].count = Cardinality({i \in DOMAIN object : object[i].name = k})
        /\ fields[k].count > 0 <=> FindByKey(k) # End
        /\ fields[k].count > 0 /\ fields[k].value # unknown =>
              object[FindByKey(k)].value = fields[k].value

\* A number says of which types it is, and converts to those without loss; it
\* equals the numbers of its value, whatever type they were made of.
NumberExact ==
    LET is == [int32 |-> IsInt32(number), uint32 |-> IsUInt32(number),
               int64 |-> IsInt64(number), uint64 |-> IsUInt64(number)] IN
    \A type \in DOMAIN NumberTypes :
        /\ is[type] <=> made \in NumberTypes[type]
        /\ is[type] => Converted(number)[type] = made
        /\ \A n \in Integrals \cap NumberTypes[type] : Equal(number, Number(type, n)) <=> n = made

ValueSound == ObjectIsMap /\ NumberExact
=============================================================================
