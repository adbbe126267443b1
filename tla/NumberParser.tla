----------------------------- MODULE NumberParser ------------------------------
(***************************************************************************)
(* parse_num and parse_float_or_int (parser.h), with the width of int32_t. *)
(*                                                                         *)
(* An operation that overflows is undefined behaviour: its result is any   *)
(* int32_t.  The parsers here return the set of their possible results,    *)
(* with a record of whether an operation overflowed on the way.            *)
(***************************************************************************)
EXTENDS StringParser

CONSTANTS
    Digit,              \* the value of each digit
    Minus, Point, Star, \* the characters '-', '.' and '*'
    MaxInt              \* the largest int32_t

ASSUME NumberAssumption ==
    /\ MaxInt \in Nat
    /\ \A c \in DOMAIN Digit : Digit[c] \in 0..9
    /\ {Minus, Point, Star, OpenBracket, CloseBracket} \cap DOMAIN Digit = {}

Int32 == (-MaxInt - 1)..MaxInt

\* What an int32_t operation gives whose mathematical result is n.
Int32Results(n) == IF n \in Int32 THEN {n} ELSE Int32

\* The number of digits s has from its (p + 1)-th character on, at most max.
DigitsFrom(s, p, max) ==
    CHOOSE n \in 0..(Len(s) - p) :
        /\ n <= max
        /\ \A i \in (p + 1)..(p + n) : s[i] \in DOMAIN Digit
        /\ (n < max /\ p + n < Len(s)) => s[p + n + 1] \notin DOMAIN Digit

\* The number with these decimal digits.
Value(digits) ==
    LET value[n \in 0..Len(digits)] ==
            IF n = 0 THEN 0 ELSE 10 * value[n - 1] + digits[n]
    IN  value[Len(digits)]

DigitsOf(s) == [i \in 1..Len(s) |-> Digit[s[i]]]

Zeros(n) == [i \in 1..n |-> 0]

\* Where the digits of a number may end.
AtEnd(s, p) == p = Len(s) \/ s[p + 1] \in {Star, CloseBracket}

\* The smallest int32_t is its own negation (only an overflow yields it).
Negated(n) == IF n = -MaxInt - 1 THEN n ELSE -n

\* Mutant of MayLackUnit: any zero may, also one whose decimals were not read.
MayLackUnitAnyZero(s, p, value) == value = 0

\* A zero may come without its unit, after any characters (a workaround of the
\* code for some meters), but not if its decimals are still to come.
MayLackUnit(s, p, value) == value = 0 /\ (p = Len(s) \/ s[p + 1] \notin {Star, Point})

\* The position of the ')' that must follow the unit, in one of its spellings.
AfterUnit(s, p, value, unit) ==
    IF unit = {}
    THEN p
    ELSE IF MayLackUnit(s, p, value)
    THEN p + BeforeClose(Rest(s, p))
    ELSE IF p + 1 < Len(s) /\ s[p + 1] = Star /\ s[p + 2] \in unit
    THEN p + 2
    ELSE Len(s)

\* parse_num.  unit is the set of spellings of the unit, {} for the empty one.
ParseNum(decimals, unit, s) ==
    LET start == IF Len(s) > 1 /\ s[2] = Minus THEN 2 ELSE 1
        point == start + DigitsFrom(s, start, Len(s))
        isNumber == AtEnd(s, point) \/ s[point + 1] = Point
        hasPoint == decimals > 0 /\ point < Len(s) /\ s[point + 1] = Point
        read == IF hasPoint THEN DigitsFrom(s, point + 1, decimals) ELSE 0
        stop == IF hasPoint THEN point + 1 + read ELSE point
        isDecimal == hasPoint => read = decimals \/ AtEnd(s, stop)
        scale == IF isNumber /\ isDecimal THEN decimals - read ELSE 0
        exact == Value(DigitsOf(SubSeq(s, start + 1, point))
                        \o DigitsOf(SubSeq(s, stop - read + 1, stop)) \o Zeros(scale))
        Close(value) == AfterUnit(s, stop, value, unit)
        Taken(value) ==
            /\ s[1] = OpenBracket
            /\ isNumber /\ isDecimal
            /\ Close(value) < Len(s)
            /\ s[Close(value) + 1] = CloseBracket
        Result(value) ==
            [ok |-> Taken(value),
             out |-> IF ~Taken(value) THEN 0 ELSE IF start = 2 THEN Negated(value) ELSE value,
             rest |-> IF Taken(value) THEN Rest(s, Close(value) + 1) ELSE s,
             overflows |-> s[1] = OpenBracket /\ exact > MaxInt]
    IN  IF s = <<>>
        THEN {[ok |-> FALSE, out |-> 0, rest |-> s, overflows |-> FALSE]}
        ELSE {Result(value) : value \in Int32Results(exact)}

\* parse_float_or_int: the integer unit is tried after the other one failed.
ParseFloatOrInt(decimals, floatUnit, intUnit, s) ==
    LET float == ParseNum(decimals, floatUnit, s)
        overflows == \E res \in float : res.overflows
    IN  {res \in float : res.ok} \cup
            (IF \A res \in float : res.ok
             THEN {}
             ELSE {[res EXCEPT !.overflows = @ \/ overflows] : res \in ParseNum(0, intUnit, s)})
===============================================================================
