------------------------------- MODULE FieldLines -------------------------------
(***************************************************************************)
(* What lines mean.  FieldParser reads a line that is rendered from its    *)
(* parts: texts in brackets, of which some are readings.  A field must     *)
(* find the values of the readings, or refuse the line.                    *)
(***************************************************************************)
EXTENDS FieldParser

CONSTANT Lines      \* the abstract lines

VARIABLE line       \* the one that input renders

lineVars == <<vars, line>>

-------------------------------------------------------------------------------
(* Abstract lines *)

None == <<>>

\* A reading is a decimal number and its unit, if any.
IsReading(r) ==
    /\ r.neg \in BOOLEAN
    /\ {r.whole, r.frac} \subseteq Seq(DOMAIN Digit)
    /\ r.unit \in Seq(Char \ {CloseBracket})
    /\ r.unit = None \/ r.unit[1] = Star

Inner(r) ==
    (IF r.neg THEN <<Minus>> ELSE <<>>) \o r.whole
        \o (IF r.frac = <<>> THEN <<>> ELSE <<Point>> \o r.frac) \o r.unit

\* texts are what stands between brackets, readings those of them that are readings.
IsLine(l) ==
    /\ l.kind \in Kind
    /\ l.texts \in Seq(Seq(Char \ {CloseBracket}))
    /\ DOMAIN l.readings \subseteq DOMAIN l.texts
    /\ \A k \in DOMAIN l.readings : IsReading(l.readings[k]) /\ l.texts[k] = Inner(l.readings[k])

ASSUME LineAssumption ==
    /\ \A l \in Lines : IsLine(l)
    /\ {OpenBracket, CloseBracket} \subseteq Char
    /\ CloseBracket \notin {OpenBracket, Minus, Point, Star} \cup DOMAIN Digit
    /\ Minus \notin {Point, Star} /\ Point # Star
    /\ CloseBracket \notin FloatUnit \cup IntUnit
    /\ IntUnit = {} => FloatUnit = {}
    /\ Decimals > 0
    /\ \A pair \in DOMAIN Decode : pair \in HexDigit \X HexDigit

Bracketed(text) == <<OpenBracket>> \o text \o <<CloseBracket>>

\* What is left of a line after its first k texts.
After(texts, k) ==
    LET left[n \in 0..Len(texts)] ==
            IF n = 0 THEN <<>> ELSE Bracketed(texts[Len(texts) - n + 1]) \o left[n - 1]
    IN  left[Len(texts) - k]

LineInit ==
    /\ line \in Lines
    /\ kind = line.kind
    /\ input = After(line.texts, 0)
    /\ Init

LineNext == Next /\ UNCHANGED line

LineSpec == LineInit /\ [][LineNext]_lineVars

-------------------------------------------------------------------------------
(* What a reading means *)

Abs(n) == IF n < 0 THEN -n ELSE n

IsZero(r) == \A d \in {r.whole, r.frac} : \A j \in DOMAIN d : Digit[d[j]] = 0

Signed(r, n) == IF r.neg THEN -n ELSE n

Whole(r) == Value(DigitsOf(r.whole))

\* In units of the last decimal a FixedValue has; further decimals are cut off.
Thousandths(r) ==
    Value(DigitsOf(r.whole)
            \o [j \in 1..Decimals |-> IF j \in DOMAIN r.frac THEN Digit[r.frac[j]] ELSE 0])

HasUnit(r, unit) == IF unit = {} THEN r.unit = None ELSE Len(r.unit) = 2 /\ r.unit[2] \in unit

\* A whole number in the integer unit, where that is another one.
IsInteger(r) == ~HasUnit(r, FloatUnit) /\ HasUnit(r, IntUnit) /\ r.frac = <<>>

\* The readings a FixedField takes, and what they are worth to it.
IsFixed(r) ==
    \/ HasUnit(r, FloatUnit) /\ Len(r.frac) <= Decimals
    \/ IsInteger(r)
    \/ IsZero(r) /\ r.unit = None /\ FloatUnit # {}

Worth(r) == Signed(r, IF IsInteger(r) THEN Whole(r) ELSE Thousandths(r))

\* No more decimals than the meter writes, and a value that an int32_t can hold.
Fits(r) ==
    /\ Len(r.frac) <= Decimals \/ (IsZero(r) /\ r.unit = None)
    /\ IF IsInteger(r) THEN Whole(r) <= MaxInt ELSE Thousandths(r) <= MaxInt

-------------------------------------------------------------------------------
(* Properties *)

\* A FixedField has the value of its reading in thousandths, whether the meter
\* writes it with decimals in one unit or as an integer in the other, and takes no
\* reading in another unit; a TimestampedFixedField also has its timestamp
\* (fields.h:114-147).
ReadingIsExact ==
    at = "returned" /\ kind \in {"fixed", "timestamped"} =>
        LET place == IF kind = "fixed" THEN 1 ELSE 2
            r == line.readings[place]
            stamped == kind = "timestamped" => Len(line.texts[1]) = TimestampLength
        IN  place \in DOMAIN line.readings /\ Fits(r) =>
            /\ ok <=> IsFixed(r) /\ stamped
            /\ ok => val = Worth(r) /\ rest = After(line.texts, place)
            /\ ok /\ kind = "timestamped" => timestamp = line.texts[1]

\* An IntField has the value of its reading if its type can hold it, otherwise one
\* that is equal to it modulo the range of the type (fields.h:176).
IntIsCongruent ==
    at = "returned" /\ kind = "int" =>
        LET r == line.readings[1]
        IN  1 \in DOMAIN line.readings /\ r.frac = <<>> /\ Whole(r) <= MaxInt =>
            /\ ok <=> HasUnit(r, IntUnit) \/ (IsZero(r) /\ r.unit = None)
            /\ ok => /\ val \in 0..(IntRange - 1)
                     /\ (val - Signed(r, Whole(r))) % IntRange = 0
                     /\ rest = After(line.texts, 1)

\* A LastFixedField has the value of the last reading, and none if there is none or
\* a text of the line has not 1 to 20 characters (fields.h:153-166).
LastIsTaken ==
    at = "returned" /\ kind = "last" =>
        LET n == Len(line.texts)
            r == line.readings[n]
        IN  /\ n = 0 => ~ok
            /\ n \in DOMAIN line.readings /\ Fits(r) =>
                /\ ok <=> IsFixed(r) /\ \A k \in 1..n : Len(line.texts[k]) \in 1..MaxLength
                /\ ok => val = Worth(r) /\ rest = <<>>

\* The k-th text and the one after it are strings of a list.
AreStrings(texts, k) ==
    k + 1 <= Len(texts) /\ {Len(texts[k]), Len(texts[k + 1])} \subseteq 1..MaxLength

\* The first text of an average is the count, two more are its head; then each
\* value comes with two texts of its own.
ValuePlace(j) == 3 * j + 3

IsGood(l, j) ==
    /\ AreStrings(l.texts, ValuePlace(j) - 2)
    /\ ValuePlace(j) <= Len(l.texts)
    /\ IsFixed(l.readings[ValuePlace(j)])

Total(l, n) ==
    LET added[j \in 0..n] ==
            IF j = 0 THEN 0 ELSE Worth(l.readings[ValuePlace(j)]) + added[j - 1]
    IN  added[n]

IsAverage(l) ==
    /\ 1 \in DOMAIN l.readings
    /\ l.readings[1].frac = <<>> /\ l.readings[1].unit = None
    /\ Whole(l.readings[1]) <= MaxInt
    /\ \A j \in 1..Len(l.texts) : ValuePlace(j) <= Len(l.texts) =>
        ValuePlace(j) \in DOMAIN l.readings /\ Fits(l.readings[ValuePlace(j)])

Count(l) == Signed(l.readings[1], Whole(l.readings[1]))

\* The average is that of as many readings as the count says, rounded towards
\* zero; there must be that many and they must be good, whatever follows them is
\* left (for parse_line to refuse).  A count that is not positive has the average
\* 0, and a count of 0 drops the line (fields.h:188-225).
AverageOfCounted ==
    at = "returned" /\ kind = "averaged" /\ IsAverage(line) =>
        LET n == Count(line)
            sum == Total(line, n)
        IN  /\ ok <=> n = 0 \/ (AreStrings(line.texts, 2) /\ \A j \in 1..n : IsGood(line, j))
            /\ ok /\ n <= 0 => val = 0
            /\ ok /\ n > 0 /\ ~overflowed =>
                /\ Abs(sum) \in (n * Abs(val))..(n * Abs(val) + n - 1)
                /\ val # 0 => (val > 0 <=> sum > 0)
            /\ ok => rest = IF n = 0 THEN <<>> ELSE After(line.texts, IF n > 0 THEN ValuePlace(n) ELSE 3)

\* The hexadecimal text of an id.
Encodes(text, id) ==
    /\ Len(text) = 2 * Len(id)
    /\ \A k \in DOMAIN id :
        LET pair == <<text[2 * k - 1], text[2 * k]>>
        IN  pair \in DOMAIN Decode /\ Decode[pair] = id[k]

\* An id that the meter writes in hexadecimal is stored as the id; any other text
\* is stored as it is, none of it is decoded halfway (fields.h:49-79).
HexIsDecoded ==
    at = "returned" /\ kind = "hex" /\ line.texts # <<>> =>
        LET text == line.texts[1]
        IN  /\ ok <=> Len(text) <= MaxIdLength
            /\ ok => rest = After(line.texts, 1)
            /\ ok => IF \E id \in [1..(Len(text) \div 2) -> Char] : Encodes(text, id)
                     THEN Encodes(text, val)
                     ELSE val = text
===============================================================================
