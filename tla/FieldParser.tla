------------------------------ MODULE FieldParser ------------------------------
(***************************************************************************)
(* The parse() of the fields that do more than store a string (fields.h):  *)
(* FixedField, TimestampedFixedField, LastFixedField, AveragedFixedField,  *)
(* IntField and HexStringOrRegularStringField.  One call of parse on what  *)
(* follows the OBIS id of a line; a turn of a loop is a step.              *)
(***************************************************************************)
EXTENDS NumberParser

CONSTANTS
    Char,               \* characters of a telegram
    Kind,               \* the kinds of field
    FloatUnit, IntUnit, \* the spellings of the two units of the field
    Decimals,           \* 3: a FixedValue counts thousandths
    IntRange,           \* 2^8, 2^16 or 2^32: how many values the type of an IntField has
    TimestampLength, MaxLength, MaxIdLength,    \* 13; 20 in a list of values; 96
    HexDigit,           \* the characters '0'..'9' and 'A'..'F'
    Decode,             \* the digit or capital letter that two hex digits encode, if any
    nullopt             \* a value that was never assigned

VARIABLES
    kind, input,        \* the field and the argument of its parse
    rest,               \* res: what is still to be read
    last,               \* LastFixedField: the value it found last
    count, i, total,    \* AveragedFixedField
    at,                 \* the step that comes next, or "returned"
    ok,                 \* whether parse returned a view
    val,                \* val() of the field; FixedValue::_value
    timestamp,          \* TimestampedFixedValue::timestamp
    overflowed          \* history: an int32_t operation overflowed

locals == <<rest, last, count, i, total>>
vars == <<kind, input, locals, at, ok, val, timestamp, overflowed>>

First ==
    [fixed |-> "number", timestamped |-> "timestamp", last |-> "list",
     averaged |-> "count", int |-> "int", hex |-> "hex"]

ASSUME FieldAssumption ==
    /\ Kind \subseteq DOMAIN First
    /\ {Decimals, TimestampLength, MaxLength, MaxIdLength} \subseteq Nat
    /\ IntRange \in Nat \ {0}
    /\ \A pair \in DOMAIN Decode : Decode[pair] \in Char

Init ==
    /\ kind \in Kind
    /\ input \in Seq(Char)
    /\ rest = input
    /\ last = input
    /\ count = 0
    /\ i = 0
    /\ total = 0
    /\ at = First[kind]
    /\ ok = FALSE
    /\ val = nullopt
    /\ timestamp = nullopt
    /\ overflowed = FALSE

Goto(step) == at' = step /\ ok' = FALSE

Return(res) ==
    /\ at' = "returned"
    /\ ok' = res.ok
    /\ rest' = res.rest

Fail == at' = "returned" /\ ok' = FALSE

Number(s) == ParseFloatOrInt(Decimals, FloatUnit, IntUnit, s)

\* FixedField::parse.  LastFixedField and TimestampedFixedField end with it.
ParseFixed ==
    /\ at = "number"
    /\ \E res \in Number(rest) :
        /\ Return(res)
        /\ val' = IF res.ok THEN res.out ELSE val
        /\ overflowed' = (overflowed \/ res.overflows)
    /\ UNCHANGED <<kind, input, last, count, i, total, timestamp>>

\* TimestampedFixedField::parse: the timestamp is stored before the number is read.
ParseTimestamp ==
    /\ at = "timestamp"
    /\ LET res == ParseString(rest, TimestampLength, TimestampLength)
       IN  IF res.ok
           THEN /\ timestamp' = res.out
                /\ rest' = res.rest
                /\ Goto("number")
           ELSE Fail /\ UNCHANGED <<rest, timestamp>>
    /\ UNCHANGED <<kind, input, last, count, i, total, val, overflowed>>

\* LastFixedField::parse
NextOfList ==
    /\ at = "list"
    /\ rest # <<>>
    /\ last' = rest
    /\ LET res == ParseString(rest, 1, MaxLength)
       IN  IF res.ok
           THEN rest' = res.rest /\ Goto("list")
           ELSE Fail /\ UNCHANGED rest
    /\ UNCHANGED <<kind, input, count, i, total, val, timestamp, overflowed>>

\* Mutant of EndOfList: the first value is taken.
EndOfListFirst ==
    /\ at = "list"
    /\ rest = <<>>
    /\ rest' = input
    /\ Goto("number")
    /\ UNCHANGED <<kind, input, last, count, i, total, val, timestamp, overflowed>>

EndOfList ==
    /\ at = "list"
    /\ rest = <<>>
    /\ rest' = last
    /\ Goto("number")
    /\ UNCHANGED <<kind, input, last, count, i, total, val, timestamp, overflowed>>

\* Mutants of Narrow: the type has a sign; the value is cut off at the ends of the range.
NarrowSigned(n) == ((n + IntRange \div 2) % IntRange) - (IntRange \div 2)
NarrowClamped(n) == IF n < 0 THEN 0 ELSE IF n < IntRange THEN n ELSE IntRange - 1

\* static_cast to an unsigned type keeps the low bits.
Narrow(n) == n % IntRange

\* IntField::parse
ParseInt ==
    /\ at = "int"
    /\ \E res \in ParseNum(0, IntUnit, rest) :
        /\ Return(res)
        /\ val' = IF res.ok THEN Narrow(res.out) ELSE val
        /\ overflowed' = res.overflows
    /\ UNCHANGED <<kind, input, last, count, i, total, timestamp>>

-------------------------------------------------------------------------------
(* AveragedFixedField::parse *)

\* Two strings, of which only the places count.
SkipTwo(s) ==
    LET first == ParseString(s, 1, MaxLength)
    IN  IF first.ok THEN ParseString(first.rest, 1, MaxLength) ELSE first

\* With a count of 0 the rest of the line is dropped.
ParseCount ==
    /\ at = "count"
    /\ \E res \in ParseNum(0, {}, rest) :
        /\ overflowed' = res.overflows
        /\ count' = IF res.ok THEN res.out ELSE count
        /\ IF ~res.ok
           THEN Fail /\ UNCHANGED <<rest, val>>
           ELSE IF res.out = 0
           THEN Return([ok |-> TRUE, rest |-> <<>>]) /\ val' = 0
           ELSE Goto("header") /\ rest' = res.rest /\ UNCHANGED val
    /\ UNCHANGED <<kind, input, last, i, total, timestamp>>

ParseHeader ==
    /\ at = "header"
    /\ LET res == SkipTwo(rest)
       IN  IF res.ok
           THEN rest' = res.rest /\ Goto("average")
           ELSE Fail /\ UNCHANGED rest
    /\ UNCHANGED <<kind, input, last, count, i, total, val, timestamp, overflowed>>

AddValue ==
    /\ at = "average"
    /\ i < count
    /\ LET skipped == SkipTwo(rest)
       IN  IF ~skipped.ok
           THEN Fail /\ UNCHANGED <<rest, i, total, overflowed>>
           ELSE \E res \in Number(skipped.rest) :
                /\ \E sum \in Int32Results(total + res.out) :
                    total' = IF res.ok THEN sum ELSE total
                /\ overflowed' =
                    \/ overflowed
                    \/ res.overflows
                    \/ res.ok /\ total + res.out \notin Int32
                /\ IF res.ok
                   THEN rest' = res.rest /\ i' = i + 1 /\ Goto("average")
                   ELSE Fail /\ UNCHANGED <<rest, i>>
    /\ UNCHANGED <<kind, input, last, count, val, timestamp>>

\* Mutant of Quotient: it rounds down.
QuotientDown(a, b) == a \div b

\* Division of integers in C++ rounds towards zero.
Quotient(a, b) == IF a >= 0 THEN a \div b ELSE -((-a) \div b)

\* A negative count has added nothing up.
StoreAverage ==
    /\ at = "average"
    /\ i >= count
    /\ val' = IF count < 0 THEN 0 ELSE Quotient(total, count)
    /\ Return([ok |-> TRUE, rest |-> rest])
    /\ UNCHANGED <<kind, input, last, count, i, total, timestamp, overflowed>>

-------------------------------------------------------------------------------
(* HexStringOrRegularStringField::parse *)

\* Mutant of IsHexId: an odd number of digits is accepted.
IsHexIdOdd(s) ==
    /\ \A k \in 1..Len(s) : s[k] \in HexDigit
    /\ \A k \in 1..(Len(s) \div 2) : <<s[2 * k - 1], s[2 * k]>> \in DOMAIN Decode

IsHexId(s) ==
    /\ Len(s) % 2 = 0
    /\ \A k \in 1..Len(s) : s[k] \in HexDigit
    /\ \A k \in 1..(Len(s) \div 2) : <<s[2 * k - 1], s[2 * k]>> \in DOMAIN Decode

Decoded(s) ==
    IF IsHexId(s)
    THEN [k \in 1..(Len(s) \div 2) |-> Decode[<<s[2 * k - 1], s[2 * k]>>]]
    ELSE s

ParseHex ==
    /\ at = "hex"
    /\ LET res == ParseString(rest, 0, MaxIdLength)
       IN  /\ Return(res)
           /\ val' = IF res.ok THEN Decoded(res.out) ELSE val
    /\ UNCHANGED <<kind, input, last, count, i, total, timestamp, overflowed>>

-------------------------------------------------------------------------------
Next ==
    \/ ParseFixed
    \/ ParseTimestamp
    \/ NextOfList
    \/ EndOfList
    \/ ParseInt
    \/ ParseCount
    \/ ParseHeader
    \/ AddValue
    \/ StoreAverage
    \/ ParseHex

Spec == Init /\ [][Next]_vars

-------------------------------------------------------------------------------
(* Properties *)

\* Every value that is computed fits its type, also after an overflow.
TypeOK ==
    /\ kind \in Kind
    /\ {input, rest, last} \subseteq Seq(Char)
    /\ count \in Int32
    /\ i \in 0..MaxInt
    /\ total \in Int32
    /\ at \in {"number", "timestamp", "list", "count", "header", "average", "int", "hex", "returned"}
    /\ ok \in BOOLEAN
    /\ kind = "int" => val = nullopt \/ val \in 0..(IntRange - 1)
    /\ kind = "hex" => val = nullopt \/ val \in Seq(Char)
    /\ kind \notin {"int", "hex"} => val = nullopt \/ val \in Int32
    /\ timestamp = nullopt \/ timestamp \in Seq(Char)
    /\ overflowed \in BOOLEAN

\* A loop that goes another turn has read something, so that the turns are no
\* more than the brackets of the text, whatever count a telegram gives: parse of a
\* short line with a count of 2147483647 returns as soon as any other
\* (fields.h:157, fields.h:209).
EveryTurnConsumes ==
    [][at' = at => Len(rest') < Len(rest)]_vars
===============================================================================
