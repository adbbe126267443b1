--------------------------- MODULE FieldParserProofs ---------------------------
(***************************************************************************)
(* What FieldParser returns, for every text of a telegram and every        *)
(* width of int32_t: the view it returns is a part of its argument, its    *)
(* loops read on, it never divides by zero, it stores a value of the right *)
(* type exactly if it succeeds, and the value it stores is the reading     *)
(* that FieldLines writes in the line: the number with its decimals, the   *)
(* last of several readings, the text of an id, the mean of the quantities *)
(* counted.                                                                *)
(***************************************************************************)
EXTENDS FieldLines, SequenceTheorems, WellFoundedInduction, TLAPS

\* t is what is left of s.
IsLeftOf(t, s) == \E n \in 0..Len(s) : t = Rest(s, n)

LEMMA RestOfSeq ==
    ASSUME NEW s \in Seq(Char), NEW n \in 0..Len(s)
    PROVE  /\ Rest(s, n) \in Seq(Char)
           /\ Len(Rest(s, n)) = Len(s) - n
           /\ \A j \in 1..(Len(s) - n) : Rest(s, n)[j] = s[n + j]
BY DEF Rest

LEMMA RestOfRest ==
    ASSUME NEW s \in Seq(Char), NEW m \in 0..Len(s), NEW n \in 0..(Len(s) - m)
    PROVE  Rest(Rest(s, m), n) = Rest(s, m + n)
<1> DEFINE t == Rest(s, m)
           u == Rest(t, n)
           v == Rest(s, m + n)
<1>1. Len(s) \in Nat
  OBVIOUS
<1>2. m \in Int /\ n \in Int /\ m + n \in 0..Len(s) /\ Len(s) - (m + n) = Len(s) - m - n
  BY <1>1
<1>3. /\ t \in Seq(Char)
      /\ Len(t) = Len(s) - m
      /\ \A j \in 1..(Len(s) - m) : t[j] = s[m + j]
  BY RestOfSeq
<1>4. /\ u \in Seq(Char)
      /\ Len(u) = Len(t) - n
      /\ \A j \in 1..(Len(t) - n) : u[j] = t[n + j]
  BY <1>3, RestOfSeq
<1>5. /\ v \in Seq(Char)
      /\ Len(v) = Len(s) - (m + n)
      /\ \A j \in 1..(Len(s) - (m + n)) : v[j] = s[(m + n) + j]
  BY <1>2, RestOfSeq
<1> HIDE DEF t, u, v
<1>6. Len(u) = Len(v)
  BY <1>2, <1>3, <1>4, <1>5
<1>7. ASSUME NEW j \in 1..Len(u) PROVE u[j] = v[j]
  <2>1. j \in 1..(Len(s) - (m + n)) /\ j \in 1..(Len(t) - n) /\ n + j \in 1..(Len(s) - m)
    BY <1>1, <1>2, <1>3, <1>4
  <2>2. m + (n + j) = (m + n) + j
    BY <1>2, <2>1
  <2> QED
    BY <1>3, <1>4, <1>5, <2>1, <2>2
<1>8. u = v
  BY <1>4, <1>5, <1>6, <1>7, SeqEqual
<1> QED
  BY <1>8 DEF t, u, v

LEMMA LeftOfItself ==
    ASSUME NEW s \in Seq(Char)
    PROVE  IsLeftOf(s, s)
<1>1. Rest(s, 0) = s
  BY SubSeqFull DEF Rest
<1>2. 0 \in 0..Len(s)
  OBVIOUS
<1> QED
  BY <1>1, <1>2 DEF IsLeftOf

LEMMA LeftOfSeq ==
    ASSUME NEW s \in Seq(Char), NEW t, IsLeftOf(t, s)
    PROVE  t \in Seq(Char)
BY RestOfSeq DEF IsLeftOf

LEMMA LeftOfLeft ==
    ASSUME NEW s \in Seq(Char), NEW t, IsLeftOf(t, s), NEW u, IsLeftOf(u, t)
    PROVE  IsLeftOf(u, s)
<1>1. PICK m \in 0..Len(s) : t = Rest(s, m)
  BY DEF IsLeftOf
<1>2. Len(t) = Len(s) - m
  BY <1>1, RestOfSeq
<1>3. PICK n \in 0..(Len(s) - m) : u = Rest(t, n)
  BY <1>2 DEF IsLeftOf
<1>4. u = Rest(s, m + n)
  BY <1>1, <1>3, RestOfRest
<1>5. m + n \in 0..Len(s)
  <2>1. Len(s) \in Nat
    OBVIOUS
  <2> QED
    BY <2>1
<1> QED
  BY <1>4, <1>5 DEF IsLeftOf

-------------------------------------------------------------------------------
(* What the searches find *)

LEMMA LeastElement ==
    ASSUME NEW T, T \subseteq Nat, T # {}
    PROVE  \E x \in T : \A y \in T : x <= y
<1> DEFINE R == OpToRel(<, Nat)
<1>1. \E x \in T : \A y \in T : ~(<<y, x>> \in R)
  BY NatLessThanWellFounded, WFMin, Zenon
<1>2. \A x, y \in Nat : y < x => <<y, x>> \in R
  BY Zenon DEF OpToRel
<1>3. \A x, y \in Nat : ~(y < x) => x <= y
  OBVIOUS
<1> QED
  BY <1>1, <1>2, <1>3

LEMMA BeforeCloseFinds ==
    ASSUME NEW s \in Seq(Char)
    PROVE  /\ BeforeClose(s) \in 0..Len(s)
           /\ BeforeClose(s) < Len(s) => s[BeforeClose(s) + 1] = CloseBracket
<1> DEFINE T == {n \in 0..Len(s) : n < Len(s) => s[n + 1] = CloseBracket}
<1>1. Len(s) \in T
  OBVIOUS
<1>2. T \subseteq Nat /\ T # {}
  BY <1>1
<1>3. PICK m \in T : \A n \in T : m <= n
  BY <1>2, LeastElement
<1>4. ASSUME NEW j \in 1..m PROVE s[j] # CloseBracket
  <2>1. j - 1 \in 0..Len(s) /\ ~(m <= j - 1) /\ (j - 1) + 1 = j
    BY <1>3
  <2> QED
    BY <1>3, <2>1
<1>5. \E n \in 0..Len(s) : /\ \A j \in 1..n : s[j] # CloseBracket
                           /\ n < Len(s) => s[n + 1] = CloseBracket
  BY <1>3, <1>4
<1> QED
  BY <1>5 DEF BeforeClose

LEMMA DigitsFromCounts ==
    ASSUME NEW s \in Seq(Char), NEW p \in 0..Len(s), NEW max \in Nat
    PROVE  DigitsFrom(s, p, max) \in 0..(Len(s) - p) /\ DigitsFrom(s, p, max) <= max
<1>0. Len(s) \in Nat
  OBVIOUS
<1> DEFINE T == {n \in 0..(Len(s) - p) :
                    (n < max /\ p + n < Len(s)) => s[p + n + 1] \notin DOMAIN Digit}
<1>1. Len(s) - p \in T
  BY <1>0
<1>2. T \subseteq Nat /\ T # {}
  <2>1. T # {}
    BY <1>1
  <2>2. 0..(Len(s) - p) \subseteq Nat
    BY <1>0
  <2> QED
    BY <2>1, <2>2, Zenon
<1>3. PICK m \in T : \A n \in T : m <= n
  BY <1>2, LeastElement
<1>4. m <= max
  <2>1. CASE max <= Len(s) - p
    <3>1. max \in T
      BY <1>0, <2>1
    <3> QED
      BY <1>3, <3>1
  <2> QED
    BY <1>0, <1>3, <2>1
<1>5. ASSUME NEW j \in (p + 1)..(p + m) PROVE s[j] \in DOMAIN Digit
  <2>1. /\ j - p - 1 \in 0..(Len(s) - p)
        /\ ~(m <= j - p - 1)
        /\ p + (j - p - 1) + 1 = j
    BY <1>0, <1>3
  <2> QED
    BY <1>3, <2>1
<1>6. \E n \in 0..(Len(s) - p) :
        /\ n <= max
        /\ \A j \in (p + 1)..(p + n) : s[j] \in DOMAIN Digit
        /\ (n < max /\ p + n < Len(s)) => s[p + n + 1] \notin DOMAIN Digit
  BY <1>3, <1>4, <1>5
<1> QED
  BY <1>6 DEF DigitsFrom

-------------------------------------------------------------------------------
(* What the parsers of strings and numbers return *)

StringResult(res, s) ==
    /\ res.ok \in BOOLEAN
    /\ IsLeftOf(res.rest, s)
    /\ res.ok => Len(res.rest) < Len(s) /\ res.out \in Seq(Char)

LEMMA FailedResult ==
    ASSUME NEW s \in Seq(Char)
    PROVE  StringResult(Failed(s), s) /\ Failed(s).ok = FALSE /\ Failed(s).rest = s
BY LeftOfItself DEF StringResult, Failed

\* parse_string
LEMMA ParseStringResult ==
    ASSUME NEW s \in Seq(Char), NEW min \in Nat, NEW max \in Nat
    PROVE  /\ StringResult(ParseString(s, min, max), s)
           /\ LET res == ParseString(s, min, max)
              IN  res.ok => Len(res.out) \in min..max
<1> DEFINE first == BeforeClose(s)
           close == IF first + 1 < Len(s) /\ s[first + 2] = CloseBracket
                    THEN first + 1
                    ELSE first
           isString == /\ s # <<>>
                       /\ s[1] = OpenBracket
                       /\ close # Len(s)
                       /\ close - 1 \in min..max
           found == [ok |-> TRUE, out |-> SubSeq(s, 2, close), rest |-> Rest(s, close + 1)]
<1>1. ParseString(s, min, max) = IF isString THEN found ELSE Failed(s)
  BY DEF ParseString
<1>2. CASE ~isString
  BY <1>1, <1>2, FailedResult
<1>3. CASE isString
  <2>1. Len(s) \in Nat /\ first \in 0..Len(s)
    BY BeforeCloseFinds
  <2>2. close \in Nat /\ close < Len(s) /\ close - 1 \in min..max
    BY <1>3, <2>1
  <2> HIDE DEF close
  <2>3. close >= 1 /\ close + 1 \in 0..Len(s)
    BY <2>1, <2>2
  <2>4. SubSeq(s, 2, close) \in Seq(Char) /\ Len(SubSeq(s, 2, close)) = close - 1
    <3>1. \A j \in 2..close : s[j] \in Char
      <4>1. \A j \in 2..close : j \in 1..Len(s)
        BY <2>1, <2>2
      <4> QED
        BY <4>1
    <3>2. /\ SubSeq(s, 2, close) \in Seq(Char)
          /\ Len(SubSeq(s, 2, close)) = IF 2 <= close THEN close - 2 + 1 ELSE 0
      BY <2>2, <3>1, SubSeqProperties
    <3> QED
      BY <2>2, <2>3, <3>2
  <2>5. IsLeftOf(Rest(s, close + 1), s)
    BY <2>3 DEF IsLeftOf
  <2>6. Len(Rest(s, close + 1)) < Len(s)
    <3>1. Len(Rest(s, close + 1)) = Len(s) - (close + 1)
      BY <2>3, RestOfSeq
    <3> QED
      BY <2>1, <2>2, <3>1
  <2>7. found.ok = TRUE /\ found.out = SubSeq(s, 2, close) /\ found.rest = Rest(s, close + 1)
    OBVIOUS
  <2>8. ParseString(s, min, max) = found
    BY <1>1, <1>3
  <2> HIDE DEF found
  <2> QED
    BY <2>2, <2>4, <2>5, <2>6, <2>7, <2>8 DEF StringResult
<1> QED
  BY <1>2, <1>3

NumberResult(res, s) ==
    /\ res \in [ok : BOOLEAN, out : Int32, rest : Seq(Char), overflows : BOOLEAN]
    /\ IsLeftOf(res.rest, s)
    /\ res.ok => Len(res.rest) < Len(s)

\* Whatever an operation of int32_t should have given, it gives an int32_t.
LEMMA ResultsAreInt32 ==
    ASSUME NEW n
    PROVE  Int32Results(n) \subseteq Int32
BY DEF Int32Results

LEMMA NegatedIsInt32 ==
    ASSUME NEW n \in Int32
    PROVE  Negated(n) \in Int32
BY NumberAssumption DEF Int32, Negated

\* The ')' after the unit is looked for at or after the end of the digits.
LEMMA AfterUnitIsLater ==
    ASSUME NEW s \in Seq(Char), NEW p \in 0..Len(s), NEW value, NEW unit
    PROVE  AfterUnit(s, p, value, unit) \in Nat
<1>1. Len(s) \in Nat
  OBVIOUS
<1>2. p + BeforeClose(Rest(s, p)) \in Nat
  <2>1. Rest(s, p) \in Seq(Char)
    BY RestOfSeq
  <2>2. BeforeClose(Rest(s, p)) \in Nat
    BY <2>1, BeforeCloseFinds
  <2> QED
    BY <1>1, <2>2
<1>3. p \in Nat /\ p + 2 \in Nat
  BY <1>1
<1> QED
  BY <1>1, <1>2, <1>3, Zenon DEF AfterUnit

\* parse_num
LEMMA ParseNumResult ==
    ASSUME NEW decimals \in Nat, NEW unit, NEW s \in Seq(Char),
           NEW res \in ParseNum(decimals, unit, s)
    PROVE  NumberResult(res, s)
<1>1. CASE s = <<>>
  <2>1. res = [ok |-> FALSE, out |-> 0, rest |-> s, overflows |-> FALSE]
    BY <1>1 DEF ParseNum
  <2>2. 0 \in Int32
    BY NumberAssumption DEF Int32
  <2> QED
    BY <2>1, <2>2, LeftOfItself DEF NumberResult
<1>2. CASE s # <<>>
  <2> DEFINE start == IF Len(s) > 1 /\ s[2] = Minus THEN 2 ELSE 1
             point == start + DigitsFrom(s, start, Len(s))
             isNumber == AtEnd(s, point) \/ s[point + 1] = Point
             hasPoint == decimals > 0 /\ point < Len(s) /\ s[point + 1] = Point
             read == IF hasPoint THEN DigitsFrom(s, point + 1, decimals) ELSE 0
             stop == IF hasPoint THEN point + 1 + read ELSE point
             isDecimal == hasPoint => read = decimals \/ AtEnd(s, stop)
             scale == IF isNumber /\ isDecimal THEN decimals - read ELSE 0
             exact == Value(DigitsOf(SubSeq(s, start + 1, point))
                        \o DigitsOf(SubSeq(s, stop - read + 1, stop)) \o Zeros(scale))
             Close(value) == AfterUnit(s, stop, value, unit)
             Taken(value) ==
                 /\ s[1] = OpenBracket
                 /\ isNumber /\ isDecimal
                 /\ Close(value) < Len(s)
                 /\ s[Close(value) + 1] = CloseBracket
             Result(value) ==
                 [ok |-> Taken(value),
                  out |-> IF ~Taken(value) THEN 0
                          ELSE IF start = 2 THEN Negated(value) ELSE value,
                  rest |-> IF Taken(value) THEN Rest(s, Close(value) + 1) ELSE s,
                  overflows |-> s[1] = OpenBracket /\ exact > MaxInt]
  <2>1. PICK value \in Int32Results(exact) : res = Result(value)
    <3>1. ParseNum(decimals, unit, s) = {Result(value) : value \in Int32Results(exact)}
      BY <1>2, Zenon DEF ParseNum
    <3> HIDE DEF Result, exact
    <3> QED
      BY <3>1
  <2>2. Len(s) \in Nat /\ Len(s) >= 1
    BY <1>2
  <2>3. start \in 1..2 /\ start \in 0..Len(s)
    BY <2>2
  <2> HIDE DEF start
  <2>4. point \in 0..Len(s)
    <3>1. DigitsFrom(s, start, Len(s)) \in 0..(Len(s) - start)
      BY <2>2, <2>3, DigitsFromCounts
    <3> QED
      BY <2>2, <2>3, <3>1
  <2> HIDE DEF point
  <2>5. stop \in 0..Len(s)
    <3>1. CASE hasPoint
      <4>1. point + 1 \in 0..Len(s)
        BY <2>2, <2>4, <3>1
      <4>2. read \in 0..(Len(s) - (point + 1))
        BY <3>1, <4>1, DigitsFromCounts
      <4>3. stop = point + 1 + read
        BY <3>1
      <4> QED
        BY <2>2, <4>1, <4>2, <4>3
    <3>2. CASE ~hasPoint
      BY <2>4, <3>2
    <3> QED
      BY <3>1, <3>2
  <2> HIDE DEF isNumber, hasPoint, read, stop, isDecimal, scale, exact
  <2>6. Close(value) \in Nat
    BY <2>5, AfterUnitIsLater
  <2>7. value \in Int32
    BY <2>1, ResultsAreInt32
  <2> HIDE DEF Close
  <2>8. CASE Taken(value)
    <3>1. Close(value) + 1 \in 0..Len(s)
      BY <2>2, <2>6, <2>8
    <3>2. Len(Rest(s, Close(value) + 1)) = Len(s) - (Close(value) + 1)
      BY <3>1, RestOfSeq
    <3>3. Len(Rest(s, Close(value) + 1)) < Len(s)
      BY <2>2, <2>6, <3>2
    <3>4. IsLeftOf(Rest(s, Close(value) + 1), s)
      BY <3>1 DEF IsLeftOf
    <3> HIDE DEF Taken
    <3>5. /\ res.ok = TRUE
          /\ res.out = IF start = 2 THEN Negated(value) ELSE value
          /\ res.rest = Rest(s, Close(value) + 1)
      BY <2>1, <2>8
    <3>6. res.overflows \in BOOLEAN
      BY <2>1
    <3>7. res.out \in Int32
      BY <2>7, <3>5, NegatedIsInt32
    <3>8. res.rest \in Seq(Char)
      BY <3>4, <3>5, LeftOfSeq
    <3> QED
      BY <2>1, <3>3, <3>4, <3>5, <3>6, <3>7, <3>8 DEF NumberResult
  <2>9. CASE ~Taken(value)
    <3> HIDE DEF Taken
    <3>1. res.ok = FALSE /\ res.out = 0 /\ res.rest = s /\ res.overflows \in BOOLEAN
      BY <2>1, <2>9
    <3>2. 0 \in Int32
      BY NumberAssumption DEF Int32
    <3> QED
      BY <2>1, <3>1, <3>2, LeftOfItself DEF NumberResult
  <2> QED
    BY <2>8, <2>9
<1> QED
  BY <1>1, <1>2

\* parse_float_or_int, with the units of the field
LEMMA NumberIsResult ==
    ASSUME NEW s \in Seq(Char), NEW res \in Number(s)
    PROVE  NumberResult(res, s)
<1> DEFINE float == ParseNum(Decimals, FloatUnit, s)
           overflows == \E r \in float : r.overflows
           int == ParseNum(0, IntUnit, s)
<1>1. \A r \in float : NumberResult(r, s)
  BY ParseNumResult, FieldAssumption
<1>2. \A r \in int : NumberResult(r, s)
  BY ParseNumResult
<1>3. Number(s) = {r \in float : r.ok} \cup
            (IF \A r \in float : r.ok
             THEN {}
             ELSE {[r EXCEPT !.overflows = @ \/ overflows] : r \in int})
  BY DEF Number, ParseFloatOrInt
<1> HIDE DEF float, int, overflows
<1>4. CASE res \in float
  BY <1>1, <1>4
<1>5. CASE \E r \in int : res = [r EXCEPT !.overflows = @ \/ overflows]
  <2>1. PICK r \in int : res = [r EXCEPT !.overflows = @ \/ overflows]
    BY <1>5
  <2>2. NumberResult(r, s)
    BY <1>2
  <2> QED
    BY <2>1, <2>2 DEF NumberResult
<1>6. res \in float \/ \E r \in int : res = [r EXCEPT !.overflows = @ \/ overflows]
  BY <1>3, Zenon
<1> QED
  BY <1>4, <1>5, <1>6

\* Two strings are read as one is.
LEMMA SkipTwoResult ==
    ASSUME NEW s \in Seq(Char)
    PROVE  StringResult(SkipTwo(s), s)
<1> DEFINE first == ParseString(s, 1, MaxLength)
           second == ParseString(first.rest, 1, MaxLength)
<1>1. StringResult(first, s)
  BY ParseStringResult, FieldAssumption
<1>2. first.rest \in Seq(Char)
  BY <1>1, LeftOfSeq DEF StringResult
<1>3. StringResult(second, first.rest)
  BY <1>2, ParseStringResult, FieldAssumption
<1>4. SkipTwo(s) = IF first.ok THEN second ELSE first
  BY DEF SkipTwo
<1> HIDE DEF first, second
<1>5. CASE first.ok
  <2>1. IsLeftOf(second.rest, s)
    BY <1>1, <1>3, LeftOfLeft DEF StringResult
  <2>2. second.ok => Len(second.rest) < Len(s)
    <3>1. SUFFICES ASSUME second.ok PROVE Len(second.rest) < Len(s)
      OBVIOUS
    <3>2. Len(second.rest) < Len(first.rest) /\ Len(first.rest) < Len(s)
      BY <1>1, <1>3, <1>5, <3>1 DEF StringResult
    <3>3. second.rest \in Seq(Char)
      BY <2>1, LeftOfSeq
    <3>4. Len(second.rest) \in Nat /\ Len(first.rest) \in Nat /\ Len(s) \in Nat
      BY <1>2, <3>3
    <3> QED
      BY <3>2, <3>4
  <2> QED
    BY <1>3, <1>4, <1>5, <2>1, <2>2 DEF StringResult
<1>6. CASE ~first.ok
  BY <1>1, <1>4, <1>6
<1> QED
  BY <1>5, <1>6

\* Division cannot leave the type, not even that of the smallest int32_t.
LEMMA QuotientIsInt32 ==
    ASSUME NEW a \in Int32, NEW b \in Int32, b > 0
    PROVE  Quotient(a, b) \in Int32
<1>1. a \in Int /\ b \in Int /\ MaxInt \in Nat /\ -MaxInt - 1 <= a /\ a <= MaxInt
  BY NumberAssumption DEF Int32
<1>2. ASSUME NEW n \in Nat PROVE n \div b \in Nat /\ n \div b <= n
  BY <1>1, <1>2
<1>3. CASE a >= 0
  <2>1. a \div b \in Nat /\ a \div b <= a
    BY <1>1, <1>2, <1>3
  <2> QED
    BY <1>1, <1>3, <2>1 DEF Quotient, Int32
<1>4. CASE a < 0
  <2>1. -a \in Nat
    BY <1>1, <1>4
  <2>2. (-a) \div b \in Nat /\ (-a) \div b <= -a
    BY <1>2, <2>1
  <2> QED
    BY <1>1, <1>4, <2>2 DEF Quotient, Int32
<1> QED
  BY <1>1, <1>3, <1>4

LEMMA NarrowFits ==
    ASSUME NEW n \in Int32
    PROVE  Narrow(n) \in 0..(IntRange - 1)
BY NumberAssumption, FieldAssumption DEF Int32, Narrow

LEMMA DecodedIsText ==
    ASSUME NEW s \in Seq(Char)
    PROVE  Decoded(s) \in Seq(Char)
<1>1. CASE IsHexId(s)
  <2> DEFINE n == Len(s) \div 2
             Pair(k) == <<s[2 * k - 1], s[2 * k]>>
  <2>1. n \in Nat
    BY <1>1
  <2>2. \A k \in 1..n : Decode[Pair(k)] \in Char
    BY <1>1, FieldAssumption DEF IsHexId
  <2>3. Decoded(s) = [k \in 1..n |-> Decode[Pair(k)]]
    BY <1>1 DEF Decoded
  <2> HIDE DEF n, Pair
  <2> QED
    BY <2>1, <2>2, <2>3
<1>2. CASE ~IsHexId(s)
  BY <1>2 DEF Decoded
<1> QED
  BY <1>1, <1>2

-------------------------------------------------------------------------------
(* The inductive invariant *)

\* What the field may store.
Stored ==
    IF kind = "int" THEN 0..(IntRange - 1) ELSE IF kind = "hex" THEN Seq(Char) ELSE Int32

Views ==
    /\ input \in Seq(Char)
    /\ IsLeftOf(rest, input)
    /\ IsLeftOf(last, input)
    /\ \/ timestamp = nullopt
       \/ timestamp \in Seq(Char) /\ Len(timestamp) = TimestampLength

\* Each kind goes its own way.
Ways ==
    /\ kind \in Kind
    /\ at \in {"number", "timestamp", "list", "count", "header", "average",
              "int", "hex", "returned"}
    /\ at = "int" => kind = "int"
    /\ at = "hex" => kind = "hex"
    /\ kind \in {"int", "hex"} => at \in {kind, "returned"}
    /\ ok \in BOOLEAN
    /\ overflowed \in BOOLEAN

Counters ==
    /\ count \in Int32
    /\ i \in 0..MaxInt
    /\ total \in Int32
    /\ i = 0 \/ i <= count
    /\ i = 0 => total = 0
    /\ at \in {"count", "header"} => i = 0
    /\ at \in {"header", "average"} => count # 0

StoredOnce == IF at = "returned" /\ ok THEN val \in Stored ELSE val = nullopt

IInv == Views /\ Ways /\ Counters /\ StoredOnce

LEMMA InitIInv == Init => IInv
<1> SUFFICES ASSUME Init PROVE IInv
  OBVIOUS
<1>1. Views
  <2>1. input \in Seq(Char) /\ rest = input /\ last = input /\ timestamp = nullopt
    BY DEF Init
  <2>2. IsLeftOf(rest, input) /\ IsLeftOf(last, input)
    BY <2>1, LeftOfItself
  <2> QED
    BY <2>1, <2>2 DEF Views
<1>2. kind \in Kind /\ at = First[kind] /\ ok = FALSE /\ overflowed = FALSE
  BY DEF Init
<1>3. \/ kind \in {"fixed", "timestamped", "last", "averaged"}
         /\ at \in {"number", "timestamp", "list", "count"}
      \/ kind = "int" /\ at = "int"
      \/ kind = "hex" /\ at = "hex"
  BY <1>2, FieldAssumption DEF First
<1>4. Ways
  BY <1>2, <1>3 DEF Ways
<1>5. Counters
  <2>1. count = 0 /\ i = 0 /\ total = 0
    BY DEF Init
  <2>2. at \notin {"header", "average"}
    BY <1>3
  <2>3. 0 \in Int32 /\ 0 \in 0..MaxInt
    BY NumberAssumption DEF Int32
  <2> QED
    BY <2>1, <2>2, <2>3 DEF Counters
<1>6. StoredOnce
  BY DEF Init, StoredOnce
<1> QED
  BY <1>1, <1>4, <1>5, <1>6 DEF IInv

LEMMA ViewsAreText ==
    ASSUME Views
    PROVE  rest \in Seq(Char) /\ last \in Seq(Char) /\ input \in Seq(Char)
BY LeftOfSeq DEF Views

\* A parser of rest leaves a part of input.
LEMMA LeftOfInput ==
    ASSUME Views, NEW t, IsLeftOf(t, rest)
    PROVE  IsLeftOf(t, input)
BY LeftOfLeft DEF Views

\* A step that goes on stores no value.
LEMMA GoesOn ==
    ASSUME StoredOnce, at # "returned", val' = val, ~(at' = "returned" /\ ok')
    PROVE  StoredOnce'
BY DEF StoredOnce

LEMMA ParseFixedStep ==
    ASSUME IInv, ParseFixed
    PROVE  IInv' /\ at' # at
<1> USE DEF IInv
<1>1. PICK res \in Number(rest) :
        /\ Return(res)
        /\ val' = IF res.ok THEN res.out ELSE val
        /\ overflowed' = (overflowed \/ res.overflows)
  BY DEF ParseFixed
<1>2. at = "number" /\ UNCHANGED <<kind, input, last, count, i, total, timestamp>>
  BY DEF ParseFixed
<1>3. NumberResult(res, rest)
  BY ViewsAreText, NumberIsResult
<1>4. IsLeftOf(res.rest, input)
  BY <1>3, LeftOfInput DEF NumberResult
<1>5. at' = "returned" /\ ok' = res.ok /\ rest' = res.rest
  BY <1>1 DEF Return
<1>6. Views'
  BY <1>2, <1>4, <1>5 DEF Views
<1>7. Ways'
  <2>1. ok' \in BOOLEAN /\ overflowed' \in BOOLEAN
    BY <1>1, <1>3, <1>5 DEF NumberResult, Ways
  <2> QED
    BY <1>2, <1>5, <2>1 DEF Ways
<1>8. Counters'
  BY <1>2, <1>5 DEF Counters
<1>9. StoredOnce'
  <2>1. kind \notin {"int", "hex"} /\ val = nullopt
    BY <1>2 DEF Ways, StoredOnce
  <2>2. Stored' = Int32
    BY <1>2, <2>1 DEF Stored
  <2> QED
    BY <1>1, <1>3, <1>5, <2>1, <2>2 DEF StoredOnce, NumberResult
<1> QED
  BY <1>2, <1>5, <1>6, <1>7, <1>8, <1>9

LEMMA ParseTimestampStep ==
    ASSUME IInv, ParseTimestamp
    PROVE  IInv' /\ at' # at
<1> USE DEF IInv
<1> DEFINE res == ParseString(rest, TimestampLength, TimestampLength)
<1>1. /\ at = "timestamp"
      /\ UNCHANGED <<kind, input, last, count, i, total, val, overflowed>>
      /\ IF res.ok
         THEN timestamp' = res.out /\ rest' = res.rest /\ Goto("number")
         ELSE Fail /\ UNCHANGED <<rest, timestamp>>
  BY DEF ParseTimestamp
<1>2. StringResult(res, rest)
  BY ViewsAreText, ParseStringResult, FieldAssumption
<1>3. res.ok => Len(res.out) = TimestampLength
  <2>1. res.ok => Len(res.out) \in TimestampLength..TimestampLength
    BY ViewsAreText, ParseStringResult, FieldAssumption
  <2> QED
    BY <2>1, FieldAssumption
<1>4. IsLeftOf(res.rest, input)
  BY <1>2, LeftOfInput DEF StringResult
<1> HIDE DEF res
<1>5. at' \in {"number", "returned"} /\ ok' = FALSE
  BY <1>1 DEF Goto, Fail
<1>6. Views'
  BY <1>1, <1>2, <1>3, <1>4 DEF Views, StringResult
<1>7. Ways'
  BY <1>1, <1>5 DEF Ways
<1>8. Counters'
  BY <1>1, <1>5 DEF Counters
<1>9. StoredOnce'
  BY <1>1, <1>5, GoesOn
<1> QED
  BY <1>1, <1>5, <1>6, <1>7, <1>8, <1>9

LEMMA NextOfListStep ==
    ASSUME IInv, NextOfList
    PROVE  IInv' /\ (at' = at => Len(rest') < Len(rest))
<1> USE DEF IInv
<1> DEFINE res == ParseString(rest, 1, MaxLength)
<1>1. /\ at = "list"
      /\ last' = rest
      /\ UNCHANGED <<kind, input, count, i, total, val, timestamp, overflowed>>
      /\ IF res.ok THEN rest' = res.rest /\ Goto("list") ELSE Fail /\ UNCHANGED rest
  BY DEF NextOfList
<1>2. StringResult(res, rest)
  BY ViewsAreText, ParseStringResult, FieldAssumption
<1>3. IsLeftOf(res.rest, input)
  BY <1>2, LeftOfInput DEF StringResult
<1> HIDE DEF res
<1>4. /\ at' \in {"list", "returned"}
      /\ ok' = FALSE
      /\ at' = at => Len(rest') < Len(rest)
  BY <1>1, <1>2 DEF Goto, Fail, StringResult
<1>5. Views'
  BY <1>1, <1>3 DEF Views
<1>6. Ways'
  BY <1>1, <1>4 DEF Ways
<1>7. Counters'
  BY <1>1, <1>4 DEF Counters
<1>8. StoredOnce'
  BY <1>1, <1>4, GoesOn
<1> QED
  BY <1>4, <1>5, <1>6, <1>7, <1>8

LEMMA EndOfListStep ==
    ASSUME IInv, EndOfList
    PROVE  IInv' /\ at' # at
<1> USE DEF IInv
<1>1. /\ at = "list" /\ at' = "number" /\ ok' = FALSE
      /\ rest' = last
      /\ UNCHANGED <<kind, input, last, count, i, total, val, timestamp, overflowed>>
  BY DEF EndOfList, Goto
<1>2. Views'
  BY <1>1 DEF Views
<1>3. Ways'
  BY <1>1 DEF Ways
<1>4. Counters'
  BY <1>1 DEF Counters
<1>5. StoredOnce'
  BY <1>1, GoesOn
<1> QED
  BY <1>1, <1>2, <1>3, <1>4, <1>5

LEMMA ParseIntStep ==
    ASSUME IInv, ParseInt
    PROVE  IInv' /\ at' # at
<1> USE DEF IInv
<1>1. PICK res \in ParseNum(0, IntUnit, rest) :
        /\ Return(res)
        /\ val' = IF res.ok THEN Narrow(res.out) ELSE val
        /\ overflowed' = res.overflows
  BY DEF ParseInt
<1>2. at = "int" /\ UNCHANGED <<kind, input, last, count, i, total, timestamp>>
  BY DEF ParseInt
<1>3. NumberResult(res, rest)
  BY ViewsAreText, ParseNumResult
<1>4. IsLeftOf(res.rest, input)
  BY <1>3, LeftOfInput DEF NumberResult
<1>5. at' = "returned" /\ ok' = res.ok /\ rest' = res.rest
  BY <1>1 DEF Return
<1>6. Views'
  BY <1>2, <1>4, <1>5 DEF Views
<1>7. Ways'
  <2>1. ok' \in BOOLEAN /\ overflowed' \in BOOLEAN
    BY <1>1, <1>3, <1>5 DEF NumberResult
  <2> QED
    BY <1>2, <1>5, <2>1 DEF Ways
<1>8. Counters'
  BY <1>2, <1>5 DEF Counters
<1>9. StoredOnce'
  <2>1. kind = "int" /\ val = nullopt
    BY <1>2 DEF Ways, StoredOnce
  <2>2. Stored' = 0..(IntRange - 1)
    BY <1>2, <2>1 DEF Stored
  <2>3. Narrow(res.out) \in 0..(IntRange - 1)
    BY <1>3, NarrowFits DEF NumberResult
  <2> QED
    BY <1>1, <1>5, <2>1, <2>2, <2>3 DEF StoredOnce
<1> QED
  BY <1>2, <1>5, <1>6, <1>7, <1>8, <1>9

LEMMA ParseHexStep ==
    ASSUME IInv, ParseHex
    PROVE  IInv' /\ at' # at
<1> USE DEF IInv
<1> DEFINE res == ParseString(rest, 0, MaxIdLength)
<1>1. /\ at = "hex"
      /\ Return(res)
      /\ val' = IF res.ok THEN Decoded(res.out) ELSE val
      /\ UNCHANGED <<kind, input, last, count, i, total, timestamp, overflowed>>
  BY DEF ParseHex
<1>2. StringResult(res, rest)
  BY ViewsAreText, ParseStringResult, FieldAssumption
<1>3. IsLeftOf(res.rest, input)
  BY <1>2, LeftOfInput DEF StringResult
<1> HIDE DEF res
<1>4. at' = "returned" /\ ok' = res.ok /\ rest' = res.rest
  BY <1>1 DEF Return
<1>5. Views'
  BY <1>1, <1>3, <1>4 DEF Views
<1>6. Ways'
  BY <1>1, <1>2, <1>4 DEF Ways, StringResult
<1>7. Counters'
  BY <1>1, <1>4 DEF Counters
<1>8. StoredOnce'
  <2>1. kind = "hex" /\ val = nullopt
    BY <1>1 DEF Ways, StoredOnce
  <2>2. Stored' = Seq(Char)
    BY <1>1, <2>1 DEF Stored
  <2>3. res.ok => Decoded(res.out) \in Seq(Char)
    BY <1>2, DecodedIsText DEF StringResult
  <2> QED
    BY <1>1, <1>4, <2>1, <2>2, <2>3 DEF StoredOnce
<1> QED
  BY <1>1, <1>4, <1>5, <1>6, <1>7, <1>8

-------------------------------------------------------------------------------
(* The steps of AveragedFixedField *)

LEMMA ZeroIsInt32 == 0 \in Int32
BY NumberAssumption DEF Int32

LEMMA ParseCountStep ==
    ASSUME IInv, ParseCount
    PROVE  IInv' /\ at' # at
<1> USE DEF IInv
<1>1. PICK res \in ParseNum(0, {}, rest) :
        /\ overflowed' = res.overflows
        /\ count' = IF res.ok THEN res.out ELSE count
        /\ IF ~res.ok
           THEN Fail /\ UNCHANGED <<rest, val>>
           ELSE IF res.out = 0
           THEN Return([ok |-> TRUE, rest |-> <<>>]) /\ val' = 0
           ELSE Goto("header") /\ rest' = res.rest /\ UNCHANGED val
  BY DEF ParseCount
<1>2. at = "count" /\ UNCHANGED <<kind, input, last, i, total, timestamp>>
  BY DEF ParseCount
<1>3. NumberResult(res, rest)
  BY ViewsAreText, ParseNumResult
<1>4. /\ IsLeftOf(res.rest, input)
      /\ res.out \in Int32
      /\ res.overflows \in BOOLEAN
  BY <1>3, LeftOfInput DEF NumberResult
<1>5. kind \notin {"int", "hex"} /\ val = nullopt /\ i = 0 /\ count' \in Int32
  BY <1>1, <1>2, <1>4 DEF Ways, StoredOnce, Counters
<1>6. CASE ~res.ok
  <2>1. at' = "returned" /\ ok' = FALSE /\ UNCHANGED <<rest, val, count>>
    BY <1>1, <1>6 DEF Fail
  <2>2. Views'
    BY <1>2, <2>1 DEF Views
  <2>3. Ways'
    BY <1>1, <1>2, <1>4, <2>1 DEF Ways
  <2>4. Counters'
    BY <1>2, <2>1 DEF Counters
  <2>5. StoredOnce'
    BY <1>2, <2>1, GoesOn
  <2> QED
    BY <1>2, <2>1, <2>2, <2>3, <2>4, <2>5
<1>7. CASE res.ok /\ res.out = 0
  <2>1. at' = "returned" /\ ok' = TRUE /\ rest' = <<>> /\ val' = 0
    BY <1>1, <1>7 DEF Return
  <2>2. Views'
    <3>1. Rest(input, Len(input)) = <<>> /\ Len(input) \in 0..Len(input)
      <4>1. Rest(input, Len(input)) \in Seq(Char) /\ Len(Rest(input, Len(input))) = 0
        BY ViewsAreText, RestOfSeq
      <4> QED
        BY <4>1, ViewsAreText
    <3>2. IsLeftOf(<<>>, input)
      BY <3>1 DEF IsLeftOf
    <3> QED
      BY <1>2, <2>1, <3>2 DEF Views
  <2>3. Ways'
    BY <1>1, <1>2, <1>4, <2>1 DEF Ways
  <2>4. Counters'
    BY <1>2, <1>5, <2>1 DEF Counters
  <2>5. StoredOnce'
    <3>1. Stored' = Int32
      BY <1>2, <1>5 DEF Stored
    <3> QED
      BY <2>1, <3>1, ZeroIsInt32 DEF StoredOnce
  <2> QED
    BY <1>2, <2>1, <2>2, <2>3, <2>4, <2>5
<1>8. CASE res.ok /\ res.out # 0
  <2>1. at' = "header" /\ ok' = FALSE /\ rest' = res.rest /\ val' = val /\ count' # 0
    BY <1>1, <1>8 DEF Goto
  <2>2. Views'
    BY <1>2, <1>4, <2>1 DEF Views
  <2>3. Ways'
    BY <1>1, <1>2, <1>4, <1>5, <2>1 DEF Ways
  <2>4. Counters'
    BY <1>2, <1>5, <2>1 DEF Counters
  <2>5. StoredOnce'
    BY <1>2, <2>1, GoesOn
  <2> QED
    BY <1>2, <2>1, <2>2, <2>3, <2>4, <2>5
<1> QED
  BY <1>6, <1>7, <1>8

LEMMA ParseHeaderStep ==
    ASSUME IInv, ParseHeader
    PROVE  IInv' /\ at' # at
<1> USE DEF IInv
<1> DEFINE res == SkipTwo(rest)
<1>1. /\ at = "header"
      /\ UNCHANGED <<kind, input, last, count, i, total, val, timestamp, overflowed>>
      /\ IF res.ok THEN rest' = res.rest /\ Goto("average") ELSE Fail /\ UNCHANGED rest
  BY DEF ParseHeader
<1>2. StringResult(res, rest)
  BY ViewsAreText, SkipTwoResult
<1>3. IsLeftOf(res.rest, input)
  BY <1>2, LeftOfInput DEF StringResult
<1> HIDE DEF res
<1>4. at' \in {"average", "returned"} /\ ok' = FALSE
  BY <1>1 DEF Goto, Fail
<1>5. Views'
  BY <1>1, <1>3 DEF Views
<1>6. Ways'
  BY <1>1, <1>4 DEF Ways
<1>7. Counters'
  BY <1>1, <1>4 DEF Counters
<1>8. StoredOnce'
  BY <1>1, <1>4, GoesOn
<1> QED
  BY <1>1, <1>4, <1>5, <1>6, <1>7, <1>8

LEMMA AddValueStep ==
    ASSUME IInv, AddValue
    PROVE  IInv' /\ (at' = at => Len(rest') < Len(rest))
<1> USE DEF IInv
<1> DEFINE skipped == SkipTwo(rest)
<1>1. /\ at = "average"
      /\ i < count
      /\ UNCHANGED <<kind, input, last, count, val, timestamp>>
  BY DEF AddValue
<1>2. StringResult(skipped, rest)
  BY ViewsAreText, SkipTwoResult
<1>3. skipped.rest \in Seq(Char)
  BY <1>2, ViewsAreText, LeftOfSeq DEF StringResult
<1>4. \/ ~skipped.ok /\ Fail /\ UNCHANGED <<rest, i, total, overflowed>>
      \/ /\ skipped.ok
         /\ \E res \in Number(skipped.rest) :
                /\ \E sum \in Int32Results(total + res.out) :
                    total' = IF res.ok THEN sum ELSE total
                /\ overflowed' =
                    \/ overflowed
                    \/ res.overflows
                    \/ res.ok /\ total + res.out \notin Int32
                /\ IF res.ok
                   THEN rest' = res.rest /\ i' = i + 1 /\ Goto("average")
                   ELSE Fail /\ UNCHANGED <<rest, i>>
  BY DEF AddValue
<1> HIDE DEF skipped
\* A string or the number is missing.
<1>5. ASSUME Fail, UNCHANGED <<rest, i, total>>, overflowed' \in BOOLEAN
      PROVE  IInv' /\ (at' = at => Len(rest') < Len(rest))
  <2>1. at' = "returned" /\ ok' = FALSE
    BY <1>5 DEF Fail
  <2>2. Views'
    BY <1>1, <1>5 DEF Views
  <2>3. Ways'
    BY <1>1, <1>5, <2>1 DEF Ways
  <2>4. Counters'
    BY <1>1, <1>5, <2>1 DEF Counters
  <2>5. StoredOnce'
    BY <1>1, <2>1, GoesOn
  <2> QED
    BY <1>1, <2>1, <2>2, <2>3, <2>4, <2>5
<1>6. CASE ~skipped.ok
  BY <1>4, <1>5, <1>6 DEF Ways
<1>7. CASE skipped.ok
  <2>1. PICK res \in Number(skipped.rest) :
          /\ \E sum \in Int32Results(total + res.out) :
              total' = IF res.ok THEN sum ELSE total
          /\ overflowed' =
              \/ overflowed
              \/ res.overflows
              \/ res.ok /\ total + res.out \notin Int32
          /\ IF res.ok
             THEN rest' = res.rest /\ i' = i + 1 /\ Goto("average")
             ELSE Fail /\ UNCHANGED <<rest, i>>
    BY <1>4, <1>7
  <2>2. NumberResult(res, skipped.rest)
    BY <1>3, NumberIsResult
  <2>3. overflowed' \in BOOLEAN
    BY <2>1
  <2>4. CASE ~res.ok
    BY <1>5, <2>1, <2>3, <2>4
  <2>5. CASE res.ok
    <3>1. /\ at' = "average" /\ ok' = FALSE
          /\ rest' = res.rest
          /\ i' = i + 1
      BY <2>1, <2>5 DEF Goto
    <3>2. total' \in Int32
      BY <2>1, <2>5, ResultsAreInt32
    <3>3. IsLeftOf(res.rest, rest)
      BY <1>2, <2>2, ViewsAreText, LeftOfLeft DEF StringResult, NumberResult
    <3>4. Views'
      BY <1>1, <3>1, <3>3, LeftOfInput DEF Views
    <3>5. Ways'
      BY <1>1, <2>3, <3>1 DEF Ways
    <3>6. Counters'
      <4>1. /\ i \in Nat /\ count \in Int /\ count <= MaxInt /\ MaxInt \in Nat
            /\ count \in Int32
        BY NumberAssumption DEF Counters, Int32
      <4>2. i + 1 \in 0..MaxInt /\ i + 1 <= count /\ i + 1 # 0
        BY <1>1, <4>1
      <4> QED
        BY <1>1, <3>1, <3>2, <4>1, <4>2 DEF Counters
    <3>7. StoredOnce'
      BY <1>1, <3>1, GoesOn
    <3>8. Len(rest') < Len(rest)
      <4>1. Len(res.rest) < Len(skipped.rest) /\ Len(skipped.rest) < Len(rest)
        BY <1>2, <1>7, <2>2, <2>5 DEF StringResult, NumberResult
      <4>2. res.rest \in Seq(Char)
        BY <1>3, <2>2, LeftOfSeq DEF NumberResult
      <4>3. Len(res.rest) \in Nat /\ Len(skipped.rest) \in Nat /\ Len(rest) \in Nat
        BY <1>3, <4>2, ViewsAreText
      <4> QED
        BY <3>1, <4>1, <4>3
    <3> QED
      BY <3>4, <3>5, <3>6, <3>7, <3>8
  <2> QED
    BY <2>4, <2>5
<1> QED
  BY <1>6, <1>7

LEMMA StoreAverageStep ==
    ASSUME IInv, StoreAverage
    PROVE  IInv' /\ at' # at
<1> USE DEF IInv
<1>1. /\ at = "average"
      /\ val' = IF count < 0 THEN 0 ELSE Quotient(total, count)
      /\ at' = "returned" /\ ok' = TRUE /\ rest' = rest
      /\ UNCHANGED <<kind, input, last, count, i, total, timestamp, overflowed>>
  BY DEF StoreAverage, Return
<1>2. Views'
  BY <1>1 DEF Views
<1>3. Ways'
  BY <1>1 DEF Ways
<1>4. Counters'
  BY <1>1 DEF Counters
<1>5. StoredOnce'
  <2>1. val' \in Int32
    <3>1. CASE count < 0
      BY <1>1, <3>1, ZeroIsInt32
    <3>2. CASE ~(count < 0)
      <4>1. count \in Int32 /\ total \in Int32 /\ count # 0
        BY <1>1 DEF Counters
      <4>2. count > 0
        BY <3>2, <4>1, NumberAssumption DEF Int32
      <4> QED
        BY <1>1, <3>2, <4>1, <4>2, QuotientIsInt32
    <3> QED
      BY <3>1, <3>2
  <2>2. Stored' = Int32
    BY <1>1 DEF Ways, Stored
  <2> QED
    BY <1>1, <2>1, <2>2 DEF StoredOnce
<1> QED
  BY <1>1, <1>2, <1>3, <1>4, <1>5

-------------------------------------------------------------------------------
\* A step keeps the invariant, and one that comes back to its place has read on.
LEMMA NextStep ==
    ASSUME IInv, Next
    PROVE  IInv' /\ (at' = at => Len(rest') < Len(rest))
BY ParseFixedStep, ParseTimestampStep, NextOfListStep, EndOfListStep, ParseIntStep,
   ParseCountStep, ParseHeaderStep, AddValueStep, StoreAverageStep, ParseHexStep
   DEF Next

LEMMA StutterIInv ==
    ASSUME IInv, UNCHANGED vars
    PROVE  IInv'
BY DEF IInv, Views, Ways, Counters, StoredOnce, Stored, vars, locals

LEMMA NextIInv == IInv /\ [Next]_vars => IInv'
BY NextStep, StutterIInv

\* Between two turns of the loops of a parse, what is unread, the place in the code,
\* the counters and the value agree.
THEOREM Invariance == Spec => []IInv
<1> QED
  BY InitIInv, NextIInv, PTL DEF Spec

LEMMA IInvTypes == IInv => TypeOK
<1> SUFFICES ASSUME IInv PROVE TypeOK
  OBVIOUS
<1> USE DEF IInv
<1>1. {input, rest, last} \subseteq Seq(Char)
  BY ViewsAreText
<1>2. /\ kind = "int" => val = nullopt \/ val \in 0..(IntRange - 1)
      /\ kind = "hex" => val = nullopt \/ val \in Seq(Char)
      /\ kind \notin {"int", "hex"} => val = nullopt \/ val \in Int32
  BY DEF StoredOnce, Stored
<1> QED
  BY <1>1, <1>2 DEF TypeOK, Views, Ways, Counters

\* Every value that parse computes fits its type, whatever the text and whichever
\* operations overflow.
THEOREM TypeCorrect == Spec => []TypeOK
<1> QED
  BY Invariance, IInvTypes, PTL

\* No loop of a field turns without reading: a list of values and an average are
\* read in no more turns than the text has brackets, whatever count it gives
\* (fields.h:157, fields.h:209).
THEOREM EveryTurnReads == Spec => EveryTurnConsumes
<1>1. IInv /\ [Next]_vars => [at' = at => Len(rest') < Len(rest)]_vars
  BY NextStep
<1> QED
  BY <1>1, Invariance, PTL DEF Spec, EveryTurnConsumes

\* The view that a parse returns, and every one it goes on from, is a part of its
\* argument: parse_line, which reads on from it, stays within the line.
THEOREM ReadsWithinItsArgument ==
    Spec => [](IsLeftOf(rest, input) /\ IsLeftOf(last, input))
<1>1. IInv => IsLeftOf(rest, input) /\ IsLeftOf(last, input)
  BY DEF IInv, Views
<1> QED
  BY <1>1, Invariance, PTL

\* The division of an average (fields.h:223) is defined: the count is not zero,
\* and for a negative one the dividend is zero, so never the smallest int32_t.
THEOREM DivisionIsDefined ==
    Spec => [](at = "average" => count # 0 /\ (count < 0 => total = 0))
<1>1. IInv => (at = "average" => count # 0 /\ (count < 0 => total = 0))
  <2>1. SUFFICES ASSUME Counters, at = "average", count < 0 PROVE total = 0
    BY DEF IInv, Counters
  <2>2. i \in 0..MaxInt /\ count \in Int32 /\ (i = 0 \/ i <= count) /\ (i = 0 => total = 0)
    BY <2>1 DEF Counters
  <2>3. i \in Nat /\ count \in Int
    BY <2>2, NumberAssumption DEF Int32
  <2>4. i = 0
    BY <2>1, <2>2, <2>3
  <2> QED
    BY <2>2, <2>4
<1> QED
  BY <1>1, Invariance, PTL

\* A field has a value of its type exactly if its parse succeeded: one that fails
\* half way, in the list, the count or the values, leaves the value as it was (though
\* the timestamp of a TimestampedFixedField may be new by then, fields.h:144).
THEOREM StoresOnSuccess ==
    Spec => [](IF at = "returned" /\ ok THEN val \in Stored ELSE val = nullopt)
<1>1. IInv => IF at = "returned" /\ ok THEN val \in Stored ELSE val = nullopt
  BY DEF IInv, StoredOnce
<1> QED
  BY <1>1, Invariance, PTL

-------------------------------------------------------------------------------
(* Recursive functions *)

\* Induction up to N, for the members of a set.
LEMMA UpTo ==
    ASSUME NEW N \in Nat, NEW T, 0 \in T, \A n \in 1..N : n - 1 \in T => n \in T
    PROVE  0..N \subseteq T
<1> DEFINE U == {n \in 0..N : n \notin T}
<1> SUFFICES ASSUME U # {} PROVE FALSE
  OBVIOUS
<1>1. U \subseteq Nat
  OBVIOUS
<1>2. PICK m \in U : \A n \in U : m <= n
  BY <1>1, LeastElement
<1>3. m \in 1..N /\ m - 1 \in 0..N
  BY <1>2
<1>4. m - 1 \notin U
  BY <1>2, <1>3
<1> QED
  BY <1>2, <1>3, <1>4

\* step[n] makes the n-th value from the one before.
HasValues(N, S, first, step) ==
    \E f \in [0..N -> S] : f[0] = first /\ \A n \in 1..N : f[n] = step[n][f[n - 1]]

LEMMA RecursionExists ==
    ASSUME NEW N \in Nat, NEW S, NEW first \in S, NEW step \in [1..N -> [S -> S]]
    PROVE  HasValues(N, S, first, step)
<1> DEFINE IsF(f, k) == f[0] = first /\ \A n \in 1..k : f[n] = step[n][f[n - 1]]
           T == {k \in 0..N : \E f \in [0..k -> S] : IsF(f, k)}
<1>1. 0 \in T
  <2> DEFINE f == [n \in 0..0 |-> first]
  <2>1. f \in [0..0 -> S] /\ IsF(f, 0) /\ 0 \in 0..N
    OBVIOUS
  <2> HIDE DEF f, IsF
  <2> QED
    BY <2>1
<1>2. ASSUME NEW k \in 1..N, k - 1 \in T PROVE k \in T
  <2>1. PICK g \in [0..(k - 1) -> S] : IsF(g, k - 1)
    BY <1>2
  <2> DEFINE f == [n \in 0..k |-> IF n = k THEN step[k][g[k - 1]] ELSE g[n]]
  <2>2. f \in [0..k -> S]
    <3>1. k \in 1..N /\ k - 1 \in 0..(k - 1)
      OBVIOUS
    <3>2. step[k] \in [S -> S] /\ g[k - 1] \in S
      BY <2>1, <3>1
    <3>3. step[k][g[k - 1]] \in S
      BY <3>2
    <3>4. \A n \in 0..k : n # k => n \in 0..(k - 1)
      OBVIOUS
    <3> QED
      BY <2>1, <3>3, <3>4
  <2>3. IsF(f, k)
    <3>1. f[0] = first
      BY <2>1, <1>2
    <3>2. ASSUME NEW n \in 1..k PROVE f[n] = step[n][f[n - 1]]
      <4>1. n - 1 \in 0..k /\ n - 1 # k /\ f[n - 1] = g[n - 1]
        BY <1>2
      <4>2. CASE n = k
        BY <4>1, <4>2
      <4>3. CASE n # k
        <5>1. n \in 1..(k - 1) /\ f[n] = g[n]
          BY <4>3
        <5> QED
          BY <2>1, <4>1, <5>1
      <4> QED
        BY <4>2, <4>3
    <3> QED
      BY <3>1, <3>2
  <2>4. k \in 0..N
    BY <1>2
  <2> HIDE DEF f, IsF
  <2> QED
    BY <2>2, <2>3, <2>4
<1>3. N \in T
  <2>1. 0..N \subseteq T
    <3> HIDE DEF T
    <3> QED
      BY <1>1, <1>2, UpTo
  <2> HIDE DEF T
  <2> QED
    BY <2>1
<1> QED
  BY <1>3 DEF HasValues

IsNumber(digits, value) ==
    /\ value[0] = 0
    /\ \A n \in 1..Len(digits) : value[n] = 10 * value[n - 1] + digits[n]

LEMMA ValueIs ==
    ASSUME NEW d \in Seq(Nat)
    PROVE  \E value \in [0..Len(d) -> Nat] : IsNumber(d, value) /\ Value(d) = value[Len(d)]
<1> DEFINE N == Len(d)
           step == [n \in 1..N |-> [y \in Nat |-> 10 * y + d[n]]]
           V == CHOOSE v : v = [n \in 0..N |-> IF n = 0 THEN 0 ELSE 10 * v[n - 1] + d[n]]
<1>1. N \in Nat /\ \A n \in 1..N : d[n] \in Nat
  OBVIOUS
<1>2. step \in [1..N -> [Nat -> Nat]]
  BY <1>1
<1>3. PICK f \in [0..N -> Nat] : f[0] = 0 /\ \A n \in 1..N : f[n] = step[n][f[n - 1]]
  <2>1. 0 \in Nat /\ N \in Nat
    OBVIOUS
  <2> HIDE DEF step, N
  <2>2. HasValues(N, Nat, 0, step)
    BY <1>2, <2>1, RecursionExists
  <2> QED
    BY <2>2 DEF HasValues
<1>4. ASSUME NEW n \in 1..N PROVE f[n] = 10 * f[n - 1] + d[n]
  <2>1. n - 1 \in 0..N
    OBVIOUS
  <2>2. f[n - 1] \in Nat
    BY <1>3, <2>1
  <2> QED
    BY <1>3, <2>2
<1>5. f = [n \in 0..N |-> IF n = 0 THEN 0 ELSE 10 * f[n - 1] + d[n]]
  BY <1>3, <1>4
<1>6. V = [n \in 0..N |-> IF n = 0 THEN 0 ELSE 10 * V[n - 1] + d[n]]
  BY <1>5
<1>7. V[0] = 0 /\ \A n \in 1..N : V[n] = 10 * V[n - 1] + d[n]
  <2>1. N \in Nat
    BY <1>1
  <2> HIDE DEF V, N
  <2>2. 0 \in 0..N
    BY <2>1
  <2>3. V[0] = 0
    BY <1>6, <2>2
  <2>4. ASSUME NEW n \in 1..N PROVE V[n] = 10 * V[n - 1] + d[n]
    <3>1. n \in 0..N /\ n # 0
      BY <2>1
    <3> QED
      BY <1>6, <3>1
  <2> QED
    BY <2>3, <2>4
<1>8. Value(d) = V[N]
  BY DEF Value
<1> HIDE DEF V, N
<1>9. \A n \in 0..N : V[n] = f[n]
  <2> DEFINE T == {n \in 0..N : V[n] = f[n]}
  <2>1. 0 \in T
    BY <1>1, <1>3, <1>7
  <2>2. ASSUME NEW n \in 1..N, n - 1 \in T PROVE n \in T
    BY <1>4, <1>7, <2>2
  <2>3. 0..N \subseteq T
    <3> HIDE DEF T
    <3> QED
      BY <1>1, <2>1, <2>2, UpTo
  <2> QED
    BY <2>3
<1>10. Value(d) = f[N]
  BY <1>1, <1>8, <1>9
<1> QED
  BY <1>3, <1>4, <1>10 DEF IsNumber, N

LEMMA ValueIsNat ==
    ASSUME NEW d \in Seq(Nat)
    PROVE  Value(d) \in Nat
<1>1. PICK v \in [0..Len(d) -> Nat] : IsNumber(d, v) /\ Value(d) = v[Len(d)]
  BY ValueIs
<1> QED
  BY <1>1

\* Only zeros have the value zero.
LEMMA ValueOfZeros ==
    ASSUME NEW d \in Seq(Nat)
    PROVE  Value(d) = 0 <=> \A j \in 1..Len(d) : d[j] = 0
<1> DEFINE N == Len(d)
<1>1. PICK v \in [0..N -> Nat] : IsNumber(d, v) /\ Value(d) = v[N]
  BY ValueIs
<1>2. N \in Nat /\ \A n \in 1..N : d[n] \in Nat
  OBVIOUS
<1>3. v[0] = 0 /\ \A n \in 1..N : v[n] = 10 * v[n - 1] + d[n] /\ n - 1 \in 0..N
  BY <1>1 DEF IsNumber
<1>4. \A n \in 0..N : v[n] \in Nat
  BY <1>1
<1> HIDE DEF N
<1> DEFINE T == {n \in 0..N : v[n] = 0 <=> \A j \in 1..n : d[j] = 0}
<1>5. 0 \in T
  BY <1>2, <1>3
<1>6. ASSUME NEW n \in 1..N, n - 1 \in T PROVE n \in T
  <2>1. v[n] = 0 <=> v[n - 1] = 0 /\ d[n] = 0
    <3>1. v[n] = 10 * v[n - 1] + d[n] /\ n - 1 \in 0..N
      BY <1>3
    <3>2. v[n - 1] \in Nat
      BY <1>4, <3>1
    <3>3. d[n] \in Nat
      BY <1>2
    <3> QED
      BY <3>1, <3>2, <3>3
  <2>2. 1..n = (1..(n - 1)) \cup {n}
    BY <1>2
  <2> QED
    BY <1>6, <2>1, <2>2
<1>7. 0..N \subseteq T
  <2> HIDE DEF T
  <2> QED
    BY <1>2, <1>5, <1>6, UpTo
<1>8. N \in T
  BY <1>2, <1>7
<1> QED
  BY <1>1, <1>8 DEF N

\* More digits make no smaller number.
LEMMA ValueGrows ==
    ASSUME NEW d \in Seq(Nat), NEW e \in Seq(Nat)
    PROVE  Value(d) <= Value(d \o e)
<1> DEFINE N == Len(d)
           c == d \o e
           M == Len(c)
<1>1. PICK v \in [0..N -> Nat] : IsNumber(d, v) /\ Value(d) = v[N]
  BY ValueIs
<1>2. PICK w \in [0..M -> Nat] : IsNumber(c, w) /\ Value(c) = w[M]
  <2>1. c \in Seq(Nat)
    OBVIOUS
  <2> HIDE DEF c
  <2> QED
    BY <2>1, ValueIs
<1>3. N \in Nat /\ M \in Nat /\ N <= M
  OBVIOUS
<1>4. /\ v[0] = 0 /\ \A n \in 1..N : v[n] = 10 * v[n - 1] + d[n]
      /\ w[0] = 0 /\ \A n \in 1..M : w[n] = 10 * w[n - 1] + c[n]
  BY <1>1, <1>2 DEF IsNumber
<1>5. \A n \in 1..M : c[n] \in Nat /\ (n <= N => c[n] = d[n])
  OBVIOUS
<1>6. \A n \in 0..M : w[n] \in Nat
  BY <1>2
<1> HIDE DEF N, M, c
<1> DEFINE T == {n \in 0..N : w[n] = v[n]}
           U == {n \in 0..M : n >= N => w[n] >= w[N]}
<1>7. 0..N \subseteq T
  <2>1. 0 \in T
    BY <1>3, <1>4
  <2>2. ASSUME NEW n \in 1..N, n - 1 \in T PROVE n \in T
    <3>1. n \in 1..M
      BY <1>3
    <3> QED
      BY <1>3, <1>4, <1>5, <2>2, <3>1
  <2> HIDE DEF T
  <2> QED
    BY <1>3, <2>1, <2>2, UpTo
<1>8. 0..M \subseteq U
  <2>1. 0 \in U
    BY <1>3, <1>6
  <2>2. ASSUME NEW n \in 1..M, n - 1 \in U PROVE n \in U
    <3>1. n - 1 \in 0..M /\ n \in 0..M /\ N \in 0..M
      BY <1>3
    <3>2. w[n] \in Nat /\ w[n - 1] \in Nat /\ w[N] \in Nat
      BY <1>6, <3>1
    <3>3. w[n] >= w[n - 1]
      <4>1. w[n] = 10 * w[n - 1] + c[n] /\ c[n] \in Nat
        BY <1>4, <1>5
      <4> QED
        BY <3>2, <4>1
    <3>4. n - 1 >= N => w[n - 1] >= w[N]
      BY <2>2
    <3>5. n >= N => n = N \/ n - 1 >= N
      BY <1>3, <3>1
    <3>6. n >= N => w[n] >= w[N]
      BY <3>2, <3>3, <3>4, <3>5
    <3> QED
      BY <3>1, <3>6
  <2> HIDE DEF U
  <2> QED
    BY <1>3, <2>1, <2>2, UpTo
<1>9. w[N] = v[N] /\ w[M] >= w[N]
  <2>1. N \in T /\ M \in U
    BY <1>3, <1>7, <1>8
  <2> QED
    BY <1>3, <2>1
<1>10. w[N] \in Nat /\ w[M] \in Nat
  BY <1>3, <1>6
<1> QED
  BY <1>1, <1>2, <1>9, <1>10 DEF c

\* What a line consists of.
LEMMA AfterIs ==
    ASSUME NEW texts \in Seq(Seq(Char))
    PROVE  /\ \A k \in 0..Len(texts) : After(texts, k) \in Seq(Char)
           /\ After(texts, Len(texts)) = <<>>
           /\ \A k \in 0..(Len(texts) - 1) :
                After(texts, k) = Bracketed(texts[k + 1]) \o After(texts, k + 1)
<1> DEFINE N == Len(texts)
           Part(n) == Bracketed(texts[N - n + 1])
           step == [n \in 1..N |-> [s \in Seq(Char) |-> Part(n) \o s]]
           L == CHOOSE left :
                  left = [n \in 0..N |-> IF n = 0 THEN <<>> ELSE Part(n) \o left[n - 1]]
<1>1. N \in Nat
  OBVIOUS
<1>2. ASSUME NEW n \in 1..N PROVE Part(n) \in Seq(Char)
  <2>1. N - n + 1 \in 1..N
    BY <1>1
  <2>2. texts[N - n + 1] \in Seq(Char)
    BY <2>1
  <2>3. <<OpenBracket>> \in Seq(Char) /\ <<CloseBracket>> \in Seq(Char)
    BY LineAssumption
  <2> QED
    BY <2>2, <2>3 DEF Bracketed
<1> HIDE DEF Part
<1>3. step \in [1..N -> [Seq(Char) -> Seq(Char)]]
  BY <1>2
<1>4. PICK f \in [0..N -> Seq(Char)] : f[0] = <<>> /\ \A n \in 1..N : f[n] = step[n][f[n - 1]]
  <2>1. <<>> \in Seq(Char)
    OBVIOUS
  <2> HIDE DEF step, N
  <2>2. HasValues(N, Seq(Char), <<>>, step)
    BY <1>1, <1>3, <2>1, RecursionExists
  <2> QED
    BY <2>2 DEF HasValues
<1>5. ASSUME NEW n \in 1..N PROVE f[n] = Part(n) \o f[n - 1]
  <2>1. n - 1 \in 0..N
    BY <1>1
  <2>2. f[n - 1] \in Seq(Char)
    BY <1>4, <2>1
  <2> QED
    BY <1>4, <2>2
<1>6. f = [n \in 0..N |-> IF n = 0 THEN <<>> ELSE Part(n) \o f[n - 1]]
  BY <1>4, <1>5
<1>7. L = [n \in 0..N |-> IF n = 0 THEN <<>> ELSE Part(n) \o L[n - 1]]
  BY <1>6
<1>8. L[0] = <<>> /\ \A n \in 1..N : L[n] = Part(n) \o L[n - 1]
  <2> HIDE DEF L, N
  <2>1. L[0] = <<>>
    BY <1>1, <1>7
  <2>2. ASSUME NEW n \in 1..N PROVE L[n] = Part(n) \o L[n - 1]
    <3>1. n \in 0..N /\ n # 0
      BY <1>1
    <3> QED
      BY <1>7, <3>1, Zenon
  <2> QED
    BY <2>1, <2>2
<1>9. \A k : After(texts, k) = L[N - k]
  BY DEF After, Part
<1> HIDE DEF L, N
<1>10. 0..N \subseteq {n \in 0..N : L[n] \in Seq(Char)}
  <2> DEFINE T == {n \in 0..N : L[n] \in Seq(Char)}
  <2>1. 0 \in T
    <3>1. <<>> \in Seq(Char) /\ 0 \in 0..N
      BY <1>1
    <3> QED
      BY <1>8, <3>1
  <2>2. ASSUME NEW n \in 1..N, n - 1 \in T PROVE n \in T
    <3>1. Part(n) \in Seq(Char) /\ L[n - 1] \in Seq(Char) /\ n \in 0..N
      BY <1>1, <1>2, <2>2
    <3>2. Part(n) \o L[n - 1] \in Seq(Char)
      BY <3>1
    <3> QED
      BY <1>8, <3>1, <3>2
  <2> HIDE DEF T
  <2>3. 0..N \subseteq T
    BY <1>1, <2>1, <2>2, UpTo
  <2> QED
    BY <2>3 DEF T
<1>11. \A k \in 0..N : After(texts, k) \in Seq(Char)
  <2>1. \A k \in 0..N : N - k \in 0..N
    BY <1>1
  <2> QED
    BY <1>9, <1>10, <2>1
<1>12. After(texts, N) = <<>>
  BY <1>1, <1>8, <1>9
<1>13. ASSUME NEW k \in 0..(N - 1)
       PROVE  After(texts, k) = Bracketed(texts[k + 1]) \o After(texts, k + 1)
  <2>1. N - k \in 1..N /\ (N - k) - 1 = N - (k + 1) /\ N - (N - k) + 1 = k + 1
    BY <1>1
  <2>2. L[N - k] = Part(N - k) \o L[(N - k) - 1]
    BY <1>8, <2>1
  <2>3. Part(N - k) = Bracketed(texts[N - (N - k) + 1])
    BY DEF Part
  <2>4. After(texts, k) = Part(N - k) \o After(texts, k + 1)
    BY <1>9, <2>1, <2>2
  <2> QED
    BY <2>1, <2>3, <2>4
<1> QED
  BY <1>11, <1>12, <1>13 DEF N

\* The sum of the values of an average.
LEMMA TotalIs ==
    ASSUME NEW l, NEW n \in Nat, \A j \in 1..n : Worth(l.readings[ValuePlace(j)]) \in Int
    PROVE  /\ Total(l, n) \in Int
           /\ Total(l, 0) = 0
           /\ n > 0 => Total(l, n) = Total(l, n - 1) + Worth(l.readings[ValuePlace(n)])
<1> DEFINE W(j) == Worth(l.readings[ValuePlace(j)])
           A(m) == CHOOSE a : a = [j \in 0..m |-> IF j = 0 THEN 0 ELSE W(j) + a[j - 1]]
           step == [j \in 1..n |-> [y \in Int |-> W(j) + y]]
<1>1. \A j \in 1..n : W(j) \in Int
  OBVIOUS
<1>2. \A m : Total(l, m) = A(m)[m]
  BY DEF Total
<1> HIDE DEF W
<1>3. PICK f \in [0..n -> Int] : f[0] = 0 /\ \A j \in 1..n : f[j] = step[j][f[j - 1]]
  <2>1. step \in [1..n -> [Int -> Int]] /\ 0 \in Int
    BY <1>1
  <2> HIDE DEF step
  <2>2. HasValues(n, Int, 0, step)
    BY <2>1, RecursionExists
  <2> QED
    BY <2>2 DEF HasValues
<1>4. ASSUME NEW j \in 1..n PROVE f[j] = W(j) + f[j - 1]
  <2>1. j - 1 \in 0..n
    OBVIOUS
  <2>2. f[j - 1] \in Int
    BY <1>3, <2>1
  <2> QED
    BY <1>3, <2>2
<1>5. ASSUME NEW m \in 0..n PROVE A(m)[m] = f[m]
  <2> DEFINE a == A(m)
             g == [j \in 0..m |-> f[j]]
             T == {j \in 0..m : a[j] = f[j]}
  <2>1. g = [j \in 0..m |-> IF j = 0 THEN 0 ELSE W(j) + g[j - 1]]
    <3>1. ASSUME NEW j \in 0..m PROVE g[j] = IF j = 0 THEN 0 ELSE W(j) + g[j - 1]
      <4>1. CASE j = 0
        BY <1>3, <4>1
      <4>2. CASE j # 0
        <5>1. j \in 1..n /\ j - 1 \in 0..m
          BY <4>2
        <5> QED
          BY <1>4, <4>2, <5>1
      <4> QED
        BY <4>1, <4>2
    <3> QED
      BY <3>1
  <2>2. a = [j \in 0..m |-> IF j = 0 THEN 0 ELSE W(j) + a[j - 1]]
    <3> HIDE DEF g
    <3> QED
      BY <2>1
  <2> HIDE DEF a
  <2>3. 0 \in T
    BY <1>3, <2>2
  <2>4. ASSUME NEW j \in 1..m, j - 1 \in T PROVE j \in T
    <3>1. j \in 1..n /\ j \in 0..m
      OBVIOUS
    <3>2. a[j] = W(j) + a[j - 1]
      BY <2>2, <3>1
    <3> QED
      BY <1>4, <2>4, <3>1, <3>2
  <2> HIDE DEF T
  <2>5. 0..m \subseteq T
    <3>1. m \in Nat
      OBVIOUS
    <3> QED
      BY <2>3, <2>4, <3>1, UpTo
  <2> QED
    BY <2>5 DEF T, a
<1> HIDE DEF A
<1>6. Total(l, 0) = 0 /\ Total(l, n) = f[n]
  BY <1>2, <1>3, <1>5
<1>7. n > 0 => Total(l, n - 1) = f[n - 1] /\ n \in 1..n
  BY <1>2, <1>5
<1>8. f[n] \in Int /\ (n > 0 => f[n - 1] \in Int)
  BY <1>3
<1>9. n > 0 => f[n] = W(n) + f[n - 1] /\ W(n) \in Int
  BY <1>1, <1>4
<1> QED
  BY <1>6, <1>7, <1>8, <1>9 DEF W

-------------------------------------------------------------------------------
(* What the parsers make of the text in a bracket *)

Text == Seq(Char \ {CloseBracket})

LEMMA BeforeCloseIs ==
    ASSUME NEW s \in Seq(Char), NEW n \in Nat, n < Len(s),
           \A j \in 1..n : s[j] # CloseBracket, s[n + 1] = CloseBracket
    PROVE  BeforeClose(s) = n
<1> DEFINE IsBefore(k) == /\ \A j \in 1..k : s[j] # CloseBracket
                          /\ k < Len(s) => s[k + 1] = CloseBracket
<1>1. Len(s) \in Nat /\ n \in 0..Len(s) /\ IsBefore(n)
  OBVIOUS
<1>2. ASSUME NEW k \in 0..Len(s), IsBefore(k) PROVE k = n
  <2>1. CASE k < n
    <3>1. k + 1 \in 1..n /\ k < Len(s)
      BY <1>1, <2>1
    <3> QED
      BY <1>2, <3>1
  <2>2. CASE n < k
    <3>1. n + 1 \in 1..k
      BY <1>1, <2>2
    <3> QED
      BY <1>2, <3>1
  <2> QED
    BY <1>1, <2>1, <2>2
<1>3. BeforeClose(s) = CHOOSE k \in 0..Len(s) : IsBefore(k)
  BY Zenon DEF BeforeClose
<1> HIDE DEF IsBefore
<1> QED
  BY <1>1, <1>2, <1>3

LEMMA BracketedIs ==
    ASSUME NEW text \in Text, NEW t \in Seq(Char)
    PROVE  LET s == Bracketed(text) \o t
               n == Len(text)
           IN  /\ n \in Nat /\ text \in Seq(Char)
               /\ s \in Seq(Char)
               /\ Len(s) = n + 2 + Len(t)
               /\ s[1] = OpenBracket
               /\ \A j \in 1..n : s[j + 1] = text[j] /\ text[j] # CloseBracket
               /\ s[n + 2] = CloseBracket
               /\ \A j \in 1..Len(t) : s[n + 2 + j] = t[j]
               /\ Rest(s, n + 2) = t
<1> DEFINE b == Bracketed(text)
           s == b \o t
           n == Len(text)
<1>1. n \in Nat /\ text \in Seq(Char) /\ \A j \in 1..n : text[j] # CloseBracket
  BY DEF Text
<1>2. <<OpenBracket>> \in Seq(Char) /\ <<CloseBracket>> \in Seq(Char)
  BY LineAssumption
<1> DEFINE o == <<OpenBracket>> \o text
<1>3. /\ o \in Seq(Char) /\ Len(o) = n + 1 /\ o[1] = OpenBracket
      /\ \A j \in 1..n : o[j + 1] = text[j]
  BY <1>1, <1>2
<1>4. b = o \o <<CloseBracket>>
  BY <1>1, <1>2 DEF Bracketed
<1> HIDE DEF o
<1>5. /\ b \in Seq(Char) /\ Len(b) = n + 2
      /\ \A j \in 1..(n + 1) : b[j] = o[j]
      /\ b[n + 2] = CloseBracket
  BY <1>1, <1>2, <1>3, <1>4
<1> HIDE DEF b, n
<1>6. /\ s \in Seq(Char) /\ Len(s) = n + 2 + Len(t)
      /\ \A j \in 1..(n + 2) : s[j] = b[j]
      /\ \A j \in 1..Len(t) : s[n + 2 + j] = t[j]
  <2>1. Len(t) \in Nat /\ n + 2 \in Nat
    BY <1>1
  <2>2. /\ s \in Seq(Char) /\ Len(s) = n + 2 + Len(t)
        /\ \A j \in 1..(n + 2 + Len(t)) : s[j] = IF j <= n + 2 THEN b[j] ELSE t[j - (n + 2)]
    <3>1. s \in Seq(Char) /\ Len(s) = Len(b) + Len(t)
      BY <1>5, ConcatProperties
    <3>2. \A j \in 1..(Len(b) + Len(t)) : s[j] = IF j <= Len(b) THEN b[j] ELSE t[j - Len(b)]
      BY <1>5, ConcatProperties
    <3> HIDE DEF s
    <3> QED
      BY <1>5, <3>1, <3>2
  <2>3. ASSUME NEW j \in 1..Len(t) PROVE s[n + 2 + j] = t[j]
    <3>1. n + 2 + j \in 1..(n + 2 + Len(t)) /\ ~(n + 2 + j <= n + 2) /\ (n + 2 + j) - (n + 2) = j
      BY <2>1
    <3> QED
      BY <2>2, <3>1
  <2>4. \A j \in 1..(n + 2) : s[j] = b[j]
    BY <2>1, <2>2
  <2> QED
    BY <2>2, <2>3, <2>4
<1> HIDE DEF s
<1>7. s[1] = OpenBracket /\ s[n + 2] = CloseBracket
  <2>1. 1 \in 1..(n + 2) /\ 1 \in 1..(n + 1) /\ n + 2 \in 1..(n + 2)
    BY <1>1
  <2> QED
    BY <1>3, <1>5, <1>6, <2>1
<1>8. \A j \in 1..n : s[j + 1] = text[j]
  <2>1. \A j \in 1..n : j + 1 \in 1..(n + 2) /\ j + 1 \in 1..(n + 1)
    BY <1>1
  <2> QED
    BY <1>3, <1>5, <1>6, <2>1
<1>9. Rest(s, n + 2) = t
  <2>1. n + 2 \in 0..Len(s) /\ Len(s) - (n + 2) = Len(t)
    BY <1>1, <1>6
  <2>2. /\ Rest(s, n + 2) \in Seq(Char)
        /\ Len(Rest(s, n + 2)) = Len(t)
        /\ \A j \in 1..Len(t) : Rest(s, n + 2)[j] = s[n + 2 + j]
    BY <1>6, <2>1, RestOfSeq
  <2>3. \A j \in 1..Len(t) : Rest(s, n + 2)[j] = t[j]
    BY <1>6, <2>2
  <2> QED
    BY <2>2, <2>3, SeqEqual
<1> QED
  BY <1>1, <1>6, <1>7, <1>8, <1>9 DEF s, b, n

\* parse_string takes the text, if it is as long as it must be.
LEMMA StringIs ==
    ASSUME NEW text \in Text, NEW t \in Seq(Char), t = <<>> \/ t[1] = OpenBracket,
           NEW min \in Nat, NEW max \in Nat
    PROVE  ParseString(Bracketed(text) \o t, min, max) =
               IF Len(text) \in min..max
               THEN [ok |-> TRUE, out |-> text, rest |-> t]
               ELSE Failed(Bracketed(text) \o t)
<1> DEFINE s == Bracketed(text) \o t
           n == Len(text)
           first == BeforeClose(s)
           close == IF first + 1 < Len(s) /\ s[first + 2] = CloseBracket
                    THEN first + 1
                    ELSE first
<1>1. /\ n \in Nat /\ text \in Seq(Char)
      /\ s \in Seq(Char)
      /\ Len(s) = n + 2 + Len(t)
      /\ s[1] = OpenBracket
      /\ \A j \in 1..n : s[j + 1] = text[j] /\ text[j] # CloseBracket
      /\ s[n + 2] = CloseBracket
      /\ \A j \in 1..Len(t) : s[n + 2 + j] = t[j]
      /\ Rest(s, n + 2) = t
  BY BracketedIs
<1>2. ParseString(s, min, max) =
        IF /\ s # <<>>
           /\ s[1] = OpenBracket
           /\ close # Len(s)
           /\ close - 1 \in min..max
        THEN [ok |-> TRUE, out |-> SubSeq(s, 2, close), rest |-> Rest(s, close + 1)]
        ELSE Failed(s)
  BY DEF ParseString
<1>3. Len(t) \in Nat /\ OpenBracket # CloseBracket
  BY LineAssumption
<1> HIDE DEF s, n
<1>4. first = n + 1
  <2>1. ASSUME NEW j \in 1..(n + 1) PROVE s[j] # CloseBracket
    <3>1. CASE j = 1
      BY <1>1, <1>3, <3>1
    <3>2. CASE j # 1
      <4>1. j - 1 \in 1..n /\ (j - 1) + 1 = j
        BY <1>1, <3>2
      <4>2. s[(j - 1) + 1] = text[j - 1] /\ text[j - 1] # CloseBracket
        BY <1>1, <4>1
      <4> QED
        BY <4>1, <4>2
    <3> QED
      BY <3>1, <3>2
  <2>2. n + 1 \in Nat /\ n + 1 < Len(s) /\ (n + 1) + 1 = n + 2
    BY <1>1, <1>3
  <2> QED
    BY <1>1, <2>1, <2>2, BeforeCloseIs
<1> HIDE DEF first
<1>5. close = n + 1
  <2>1. ~(first + 1 < Len(s) /\ s[first + 2] = CloseBracket)
    <3>1. SUFFICES ASSUME first + 1 < Len(s) PROVE s[first + 2] # CloseBracket
      OBVIOUS
    <3>2. 1 \in 1..Len(t) /\ t # <<>> /\ first + 2 = n + 2 + 1
      BY <1>1, <1>3, <1>4, <3>1
    <3> QED
      BY <1>1, <1>3, <3>2
  <2> QED
    BY <1>4, <2>1
<1> HIDE DEF close
<1>6. s # <<>> /\ close # Len(s) /\ close - 1 = n /\ close + 1 = n + 2
  BY <1>1, <1>3, <1>5
<1>7. SubSeq(s, 2, close) = text
  <2> DEFINE u == SubSeq(s, 2, close)
  <2>1. u \in Seq(Char) /\ Len(u) = n /\ \A j \in 1..n : u[j] = s[j + 1]
    BY <1>1, <1>3, <1>5
  <2>2. \A j \in 1..n : u[j] = text[j]
    BY <1>1, <2>1
  <2>3. Len(text) = n
    BY DEF n
  <2> HIDE DEF u
  <2>4. u = text
    BY <1>1, <2>1, <2>2, <2>3, SeqEqual
  <2> QED
    BY <2>4 DEF u
<1>8. ParseString(s, min, max) =
        IF n \in min..max THEN [ok |-> TRUE, out |-> text, rest |-> t] ELSE Failed(s)
  BY <1>1, <1>2, <1>6, <1>7, Zenon
<1> QED
  BY <1>8 DEF s, n

-------------------------------------------------------------------------------
(* What parse_num makes of a reading *)

\* Where the parts of a reading are in its text: the digits after the sign, the point
\* and the decimals after the digits, the unit after them.
Sign(r) == IF r.neg THEN 1 ELSE 0
Fraction(r) == IF r.frac = <<>> THEN 0 ELSE 1 + Len(r.frac)

LEMMA InnerIs ==
    ASSUME NEW r, IsReading(r)
    PROVE  LET x == Inner(r)
               q == Sign(r) + Len(r.whole)
               e == q + Fraction(r)
           IN  /\ Len(x) = e + Len(r.unit)
               /\ r.neg => x[1] = Minus
               /\ \A j \in 1..Len(r.whole) : x[Sign(r) + j] = r.whole[j]
               /\ r.frac # <<>> =>
                    /\ x[q + 1] = Point
                    /\ \A j \in 1..Len(r.frac) : x[q + 1 + j] = r.frac[j]
               /\ \A j \in 1..Len(r.unit) : x[e + j] = r.unit[j]
<1> DEFINE S == Char \cup DOMAIN Digit \cup {Minus, Point}
           a == IF r.neg THEN <<Minus>> ELSE <<>>
           b == a \o r.whole
           c == IF r.frac = <<>> THEN <<>> ELSE <<Point>> \o r.frac
           d == b \o c
           x == d \o r.unit
           q == Sign(r) + Len(r.whole)
           e == q + Fraction(r)
<1>1. r.whole \in Seq(S) /\ r.frac \in Seq(S) /\ r.unit \in Seq(S) /\ r.neg \in BOOLEAN
  <2>1. DOMAIN Digit \subseteq S /\ Char \ {CloseBracket} \subseteq S
    OBVIOUS
  <2>2. /\ r.whole \in Seq(DOMAIN Digit) /\ r.frac \in Seq(DOMAIN Digit)
        /\ r.unit \in Seq(Char \ {CloseBracket}) /\ r.neg \in BOOLEAN
    BY DEF IsReading
  <2> HIDE DEF S
  <2> QED
    BY <2>1, <2>2
<1>2. Minus \in S /\ Point \in S
  OBVIOUS
<1>3. Inner(r) = x
  BY DEF Inner
<1> HIDE DEF S
<1>4. /\ a \in Seq(S) /\ Len(a) = Sign(r) /\ Sign(r) \in Nat
      /\ r.neg => a[1] = Minus /\ Sign(r) = 1
  BY <1>1, <1>2 DEF Sign
<1>5. /\ c \in Seq(S) /\ Len(c) = Fraction(r) /\ Fraction(r) \in Nat
      /\ r.frac # <<>> => /\ c[1] = Point /\ Fraction(r) = 1 + Len(r.frac)
                          /\ \A j \in 1..Len(r.frac) : c[1 + j] = r.frac[j]
  <2>1. CASE r.frac = <<>>
    BY <2>1 DEF Fraction
  <2>2. CASE r.frac # <<>>
    <3>1. c = <<Point>> \o r.frac /\ <<Point>> \in Seq(S) /\ Len(r.frac) \in Nat
      BY <1>1, <1>2, <2>2
    <3> HIDE DEF c
    <3>2. c \in Seq(S) /\ Len(c) = 1 + Len(r.frac) /\ c[1] = Point
      BY <1>1, <3>1
    <3>3. \A j \in 1..Len(r.frac) : c[1 + j] = r.frac[j]
      BY <1>1, <3>1
    <3> QED
      BY <2>2, <3>1, <3>2, <3>3 DEF Fraction
  <2> QED
    BY <2>1, <2>2
<1> HIDE DEF a, c
<1>6. Len(r.whole) \in Nat /\ Len(r.unit) \in Nat /\ Len(r.frac) \in Nat
  BY <1>1
<1>7. /\ b \in Seq(S) /\ Len(b) = q /\ q \in Nat
      /\ \A j \in 1..q : b[j] = IF j <= Sign(r) THEN a[j] ELSE r.whole[j - Sign(r)]
  <2>1. b \in Seq(S) /\ Len(b) = Len(a) + Len(r.whole)
    BY <1>1, <1>4, ConcatProperties
  <2>2. \A j \in 1..(Len(a) + Len(r.whole)) : b[j] = IF j <= Len(a) THEN a[j] ELSE r.whole[j - Len(a)]
    BY <1>1, <1>4, ConcatProperties
  <2> HIDE DEF b
  <2> QED
    BY <1>4, <1>6, <2>1, <2>2
<1> HIDE DEF b, q
<1>8. /\ d \in Seq(S) /\ Len(d) = e /\ e \in Nat
      /\ \A j \in 1..e : d[j] = IF j <= q THEN b[j] ELSE c[j - q]
  <2>1. d \in Seq(S) /\ Len(d) = Len(b) + Len(c)
    BY <1>5, <1>7, ConcatProperties
  <2>2. \A j \in 1..(Len(b) + Len(c)) : d[j] = IF j <= Len(b) THEN b[j] ELSE c[j - Len(b)]
    BY <1>5, <1>7, ConcatProperties
  <2> HIDE DEF d
  <2> QED
    BY <1>5, <1>7, <2>1, <2>2
<1>9. e = q + Fraction(r)
  OBVIOUS
<1> HIDE DEF d, e
<1>10. /\ Len(x) = e + Len(r.unit)
       /\ \A j \in 1..(e + Len(r.unit)) : x[j] = IF j <= e THEN d[j] ELSE r.unit[j - e]
  BY <1>1, <1>6, <1>8, ConcatProperties
<1> HIDE DEF x
<1>11. r.neg => x[1] = Minus
  <2>1. SUFFICES ASSUME r.neg PROVE x[1] = Minus
    OBVIOUS
  <2>2. 1 \in 1..q /\ 1 \in 1..e /\ 1 \in 1..(e + Len(r.unit)) /\ 1 <= q /\ 1 <= e /\ 1 <= Sign(r)
    BY <1>4, <1>5, <1>6, <1>9, <2>1 DEF q
  <2>3. x[1] = d[1] /\ d[1] = b[1] /\ b[1] = a[1]
    BY <1>7, <1>8, <1>10, <2>2
  <2> QED
    BY <1>4, <2>1, <2>3
<1>12. ASSUME NEW j \in 1..Len(r.whole) PROVE x[Sign(r) + j] = r.whole[j]
  <2> DEFINE k == Sign(r) + j
  <2>1. /\ k \in 1..q /\ k \in 1..e /\ k \in 1..(e + Len(r.unit)) /\ k <= q /\ k <= e
        /\ ~(k <= Sign(r)) /\ k - Sign(r) = j
    <3>1. Sign(r) \in Nat /\ q = Sign(r) + Len(r.whole)
      BY <1>4 DEF q
    <3>2. Fraction(r) \in Nat
      BY <1>5
    <3>3. k \in Nat /\ k >= 1 /\ k <= q /\ q \in Nat /\ ~(k <= Sign(r)) /\ k - Sign(r) = j
      BY <1>6, <3>1
    <3> HIDE DEF k
    <3>4. k <= e /\ e \in Nat
      BY <1>9, <3>2, <3>3
    <3> QED
      BY <1>6, <3>3, <3>4
  <2> HIDE DEF k
  <2>2. x[k] = d[k] /\ d[k] = b[k] /\ b[k] = r.whole[j]
    BY <1>7, <1>8, <1>10, <2>1
  <2> QED
    BY <2>2 DEF k
<1>13. ASSUME r.frac # <<>>, NEW n \in 0..Len(r.frac)
       PROVE  x[q + 1 + n] = c[1 + n]
  <2> DEFINE k == q + 1 + n
  <2>1. /\ k \in 1..e /\ k \in 1..(e + Len(r.unit)) /\ k <= e
        /\ ~(k <= q) /\ k - q = 1 + n
    <3>1. Fraction(r) = 1 + Len(r.frac)
      BY <1>13 DEF Fraction
    <3>2. q \in Nat /\ n \in Nat /\ n <= Len(r.frac)
      BY <1>6, <1>7
    <3>3. k \in Nat /\ k >= 1 /\ ~(k <= q) /\ k - q = 1 + n
      BY <3>2
    <3>4. k <= q + Fraction(r) /\ e = q + Fraction(r) /\ e \in Nat
      BY <1>6, <1>9, <3>1, <3>2
    <3> HIDE DEF k
    <3> QED
      BY <1>6, <3>3, <3>4
  <2> HIDE DEF k
  <2>2. x[k] = d[k] /\ d[k] = c[1 + n]
    BY <1>8, <1>10, <2>1
  <2> QED
    BY <2>2 DEF k
<1>14. r.frac # <<>> => /\ x[q + 1] = Point
                        /\ \A j \in 1..Len(r.frac) : x[q + 1 + j] = r.frac[j]
  <2>1. SUFFICES ASSUME r.frac # <<>>
                 PROVE  /\ x[q + 1] = Point
                        /\ \A j \in 1..Len(r.frac) : x[q + 1 + j] = r.frac[j]
    OBVIOUS
  <2>2. x[q + 1 + 0] = c[1 + 0] /\ q + 1 + 0 = q + 1 /\ c[1 + 0] = Point
    BY <1>5, <1>6, <1>7, <1>13, <2>1
  <2>3. \A j \in 1..Len(r.frac) : x[q + 1 + j] = c[1 + j] /\ c[1 + j] = r.frac[j]
    BY <1>5, <1>6, <1>13, <2>1
  <2> QED
    BY <2>2, <2>3
<1>15. ASSUME NEW j \in 1..Len(r.unit) PROVE x[e + j] = r.unit[j]
  <2>1. e + j \in 1..(e + Len(r.unit)) /\ ~(e + j <= e) /\ (e + j) - e = j
    BY <1>6, <1>8
  <2> QED
    BY <1>10, <2>1
<1> QED
  BY <1>3, <1>10, <1>11, <1>12, <1>14, <1>15 DEF x, q, e

\* s begins with the reading in its brackets and goes on with t.
Written(s, r, t) ==
    LET q == Sign(r) + Len(r.whole) + 1
        e == q + Fraction(r)
        n == e + Len(r.unit)
    IN  /\ s \in Seq(Char) /\ t \in Seq(Char)
        /\ Len(s) = n + 1 + Len(t)
        /\ s[1] = OpenBracket
        /\ r.neg => s[2] = Minus
        /\ \A j \in 1..Len(r.whole) : s[Sign(r) + 1 + j] = r.whole[j]
        /\ r.frac # <<>> =>
            /\ s[q + 1] = Point
            /\ \A j \in 1..Len(r.frac) : s[q + 1 + j] = r.frac[j]
        /\ \A j \in 1..Len(r.unit) : s[e + j] = r.unit[j]
        /\ s[n + 1] = CloseBracket
        /\ \A j \in 2..n : s[j] # CloseBracket
        /\ Rest(s, n + 1) = t

LEMMA ReadingTypes ==
    ASSUME NEW r, IsReading(r)
    PROVE  /\ Len(r.whole) \in Nat /\ Len(r.frac) \in Nat /\ Len(r.unit) \in Nat
           /\ Sign(r) \in 0..1 /\ (Sign(r) = 1 <=> r.neg)
           /\ Fraction(r) \in Nat
           /\ r.frac = <<>> => Len(r.frac) = 0 /\ Fraction(r) = 0
           /\ r.frac # <<>> => Len(r.frac) > 0 /\ Fraction(r) = 1 + Len(r.frac)
           /\ r.unit = <<>> <=> Len(r.unit) = 0
           /\ \A j \in 1..Len(r.whole) : r.whole[j] \in DOMAIN Digit
           /\ \A j \in 1..Len(r.frac) : r.frac[j] \in DOMAIN Digit
           /\ \A j \in 1..Len(r.unit) : r.unit[j] # CloseBracket
           /\ r.unit # <<>> => r.unit[1] = Star
<1>1. /\ r.whole \in Seq(DOMAIN Digit) /\ r.frac \in Seq(DOMAIN Digit)
      /\ r.unit \in Seq(Char \ {CloseBracket}) /\ r.neg \in BOOLEAN
      /\ r.unit = <<>> \/ r.unit[1] = Star
  BY DEF IsReading, None
<1>2. Len(r.whole) \in Nat /\ Len(r.frac) \in Nat /\ Len(r.unit) \in Nat
  BY <1>1
<1>3. /\ r.frac = <<>> <=> Len(r.frac) = 0
      /\ r.unit = <<>> <=> Len(r.unit) = 0
  BY <1>1
<1> QED
  BY <1>1, <1>2, <1>3 DEF Sign, Fraction

LEMMA ReadingIsWritten ==
    ASSUME NEW r, IsReading(r), Inner(r) \in Text, NEW t \in Seq(Char)
    PROVE  Written(Bracketed(Inner(r)) \o t, r, t)
<1> DEFINE x == Inner(r)
           s == Bracketed(x) \o t
           m == Sign(r)
           w == Len(r.whole)
           f == Len(r.frac)
           u == Len(r.unit)
           q == m + w + 1
           e == q + Fraction(r)
           n == e + u
<1>1. /\ w \in Nat /\ f \in Nat /\ u \in Nat /\ m \in Nat /\ Fraction(r) \in Nat
      /\ r.neg => m = 1
      /\ r.frac # <<>> => Fraction(r) = 1 + f
  BY ReadingTypes
<1>2. /\ Len(x) = m + w + Fraction(r) + u
      /\ r.neg => x[1] = Minus
      /\ \A j \in 1..w : x[m + j] = r.whole[j]
      /\ r.frac # <<>> =>
           /\ x[m + w + 1] = Point
           /\ \A j \in 1..f : x[m + w + 1 + j] = r.frac[j]
      /\ \A j \in 1..u : x[m + w + Fraction(r) + j] = r.unit[j]
  BY InnerIs, Zenon
<1>3. /\ Len(x) \in Nat
      /\ s \in Seq(Char)
      /\ Len(s) = Len(x) + 2 + Len(t)
      /\ s[1] = OpenBracket
      /\ \A j \in 1..Len(x) : s[j + 1] = x[j] /\ x[j] # CloseBracket
      /\ s[Len(x) + 2] = CloseBracket
      /\ Rest(s, Len(x) + 2) = t
  BY BracketedIs
<1> HIDE DEF x, s, m, w, f, u
<1>4. n = Len(x) + 1 /\ n + 1 = Len(x) + 2
  BY <1>1, <1>2
<1>5. Len(s) = n + 1 + Len(t) /\ s[n + 1] = CloseBracket /\ Rest(s, n + 1) = t
  BY <1>3, <1>4
<1>6. ASSUME NEW j \in 2..n PROVE s[j] # CloseBracket
  <2>1. j - 1 \in 1..Len(x) /\ (j - 1) + 1 = j
    BY <1>3, <1>4
  <2>2. s[(j - 1) + 1] = x[j - 1] /\ x[j - 1] # CloseBracket
    BY <1>3, <2>1
  <2> QED
    BY <2>1, <2>2
<1>7. r.neg => s[2] = Minus
  <2>1. r.neg => 1 \in 1..Len(x)
    BY <1>1, <1>2, <1>3
  <2>2. r.neg => s[1 + 1] = x[1]
    BY <1>3, <2>1
  <2> QED
    BY <1>2, <2>2
<1>8. ASSUME NEW j \in 1..w PROVE s[m + 1 + j] = r.whole[j]
  <2>1. m + j \in 1..Len(x) /\ (m + j) + 1 = m + 1 + j
    BY <1>1, <1>2
  <2>2. s[(m + j) + 1] = x[m + j]
    BY <1>3, <2>1
  <2> QED
    BY <1>2, <2>1, <2>2
<1>9. r.frac # <<>> => s[q + 1] = Point
  <2>1. SUFFICES ASSUME r.frac # <<>> PROVE s[q + 1] = Point
    OBVIOUS
  <2>2. m + w + 1 \in 1..Len(x) /\ (m + w + 1) + 1 = q + 1
    BY <1>1, <1>2, <2>1
  <2>3. s[(m + w + 1) + 1] = x[m + w + 1]
    BY <1>3, <2>2
  <2> QED
    BY <1>2, <2>1, <2>2, <2>3
<1>10. ASSUME r.frac # <<>>, NEW j \in 1..f PROVE s[q + 1 + j] = r.frac[j]
  <2>1. m + w + 1 + j \in 1..Len(x) /\ (m + w + 1 + j) + 1 = q + 1 + j
    BY <1>1, <1>2, <1>10
  <2>2. s[(m + w + 1 + j) + 1] = x[m + w + 1 + j]
    BY <1>3, <2>1
  <2> QED
    BY <1>2, <1>10, <2>1, <2>2
<1>11. ASSUME NEW j \in 1..u PROVE s[e + j] = r.unit[j]
  <2>1. m + w + Fraction(r) + j \in 1..Len(x) /\ (m + w + Fraction(r) + j) + 1 = e + j
    BY <1>1, <1>2
  <2>2. s[(m + w + Fraction(r) + j) + 1] = x[m + w + Fraction(r) + j]
    BY <1>3, <2>1
  <2> QED
    BY <1>2, <2>1, <2>2
<1> HIDE DEF q, e, n
<1>12. /\ s \in Seq(Char) /\ t \in Seq(Char)
       /\ Len(s) = n + 1 + Len(t)
       /\ s[1] = OpenBracket
       /\ r.neg => s[2] = Minus
       /\ \A j \in 1..w : s[m + 1 + j] = r.whole[j]
       /\ r.frac # <<>> =>
           /\ s[q + 1] = Point
           /\ \A j \in 1..f : s[q + 1 + j] = r.frac[j]
       /\ \A j \in 1..u : s[e + j] = r.unit[j]
       /\ s[n + 1] = CloseBracket
       /\ \A j \in 2..n : s[j] # CloseBracket
       /\ Rest(s, n + 1) = t
  BY <1>3, <1>5, <1>6, <1>7, <1>8, <1>9, <1>10, <1>11
<1>13. Written(s, r, t)
  BY <1>12, Zenon DEF Written, m, w, f, u, q, e, n
<1> QED
  BY <1>13 DEF s, x

\* The digits end where the next character is none, or where there are enough.
LEMMA DigitsFromIs ==
    ASSUME NEW s \in Seq(Char), NEW p \in 0..Len(s), NEW max \in Nat,
           NEW n \in 0..(Len(s) - p), n <= max,
           \A j \in (p + 1)..(p + n) : s[j] \in DOMAIN Digit,
           n < max => p + n < Len(s) /\ s[p + n + 1] \notin DOMAIN Digit
    PROVE  DigitsFrom(s, p, max) = n
<1> DEFINE IsCount(k) ==
        /\ k <= max
        /\ \A j \in (p + 1)..(p + k) : s[j] \in DOMAIN Digit
        /\ (k < max /\ p + k < Len(s)) => s[p + k + 1] \notin DOMAIN Digit
<1>1. Len(s) \in Nat
  OBVIOUS
<1>2. IsCount(n)
  OBVIOUS
<1>3. ASSUME NEW k \in 0..(Len(s) - p), IsCount(k) PROVE k = n
  <2>1. CASE k < n
    <3>1. k < max /\ p + k < Len(s) /\ p + k + 1 \in (p + 1)..(p + n)
      BY <1>1, <2>1
    <3> QED
      BY <1>3, <3>1
  <2>2. CASE n < k
    <3>1. n < max /\ p + n + 1 \in (p + 1)..(p + k)
      BY <1>1, <1>3, <2>2
    <3> QED
      BY <1>3, <3>1
  <2> QED
    BY <1>1, <2>1, <2>2
<1>4. DigitsFrom(s, p, max) = CHOOSE k \in 0..(Len(s) - p) : IsCount(k)
  BY Zenon DEF DigitsFrom
<1> HIDE DEF IsCount
<1>5. \E k \in 0..(Len(s) - p) : IsCount(k)
  BY <1>2
<1> QED
  BY <1>3, <1>4, <1>5, Zenon

\* How many decimals parse_num reads if it reads at most d, where it stops reading,
\* and what it takes the number for.
ReadDecimals(r, d) == IF d < Len(r.frac) THEN d ELSE Len(r.frac)

Stop(r, d) ==
    LET q == Sign(r) + Len(r.whole) + 1
    IN  IF d > 0 /\ r.frac # <<>> THEN q + 1 + ReadDecimals(r, d) ELSE q

Exact(r, d) ==
    Value(DigitsOf(r.whole) \o DigitsOf(SubSeq(r.frac, 1, ReadDecimals(r, d)))
            \o Zeros(d - ReadDecimals(r, d)))

\* Whether it takes the reading.
Accepts(r, d, unit, value) ==
    \/ Len(r.frac) <= d /\ HasUnit(r, unit)
    \/ /\ unit # {} /\ value = 0
       /\ IF Len(r.frac) <= d THEN r.unit = <<>> ELSE d > 0

\* Where it stops there is a sign, or a further decimal.
LEMMA StopIs ==
    ASSUME NEW r, IsReading(r), NEW s, NEW t, Written(s, r, t), NEW d \in Nat
    PROVE  LET q == Sign(r) + Len(r.whole) + 1
               e == q + Fraction(r)
               p == Stop(r, d)
           IN  /\ p \in Nat /\ p < Len(s) /\ p <= e + Len(r.unit)
               /\ Len(r.frac) <= d =>
                    p = e /\ s[p + 1] = IF r.unit = <<>> THEN CloseBracket ELSE Star
               /\ Len(r.frac) > d =>
                    p < e /\ IF d = 0 THEN s[p + 1] = Point ELSE s[p + 1] \in DOMAIN Digit
<1> DEFINE m == Sign(r)
           w == Len(r.whole)
           f == Len(r.frac)
           u == Len(r.unit)
           q == m + w + 1
           e == q + Fraction(r)
           p == Stop(r, d)
<1>1. /\ w \in Nat /\ f \in Nat /\ u \in Nat /\ m \in 0..1
      /\ r.frac = <<>> => f = 0 /\ Fraction(r) = 0
      /\ r.frac # <<>> => f > 0 /\ Fraction(r) = 1 + f
      /\ r.unit = <<>> <=> u = 0
      /\ \A j \in 1..f : r.frac[j] \in DOMAIN Digit
      /\ r.unit # <<>> => r.unit[1] = Star
  BY ReadingTypes
<1>2. /\ Len(s) = e + u + 1 + Len(t) /\ Len(t) \in Nat
      /\ r.frac # <<>> =>
           /\ s[q + 1] = Point
           /\ \A j \in 1..f : s[q + 1 + j] = r.frac[j]
      /\ \A j \in 1..u : s[e + j] = r.unit[j]
      /\ s[e + u + 1] = CloseBracket
  BY DEF Written
<1>3. p = IF d > 0 /\ r.frac # <<>> THEN q + 1 + ReadDecimals(r, d) ELSE q
  BY DEF Stop
<1> HIDE DEF p, e, m, w, f, u
<1>4. e = q + Fraction(r)
  BY DEF e
<1> HIDE DEF q
<1>5. q \in Nat /\ e \in Nat
  BY <1>1, <1>4 DEF q, e
<1>6. s[e + 1] = IF r.unit = <<>> THEN CloseBracket ELSE Star
  <2>1. CASE r.unit = <<>>
    <3>1. e + u + 1 = e + 1
      BY <1>1, <1>5, <2>1
    <3> QED
      BY <1>2, <2>1, <3>1
  <2>2. CASE r.unit # <<>>
    <3>1. 1 \in 1..u
      BY <1>1, <2>2
    <3> QED
      BY <1>1, <1>2, <2>2, <3>1
  <2> QED
    BY <2>1, <2>2
<1>7. CASE f <= d
  <2>1. p = e
    <3>1. ReadDecimals(r, d) = f
      <4>1. ~(d < f)
        BY <1>1, <1>7
      <4> QED
        BY <4>1 DEF ReadDecimals, f
    <3>2. CASE r.frac = <<>>
      BY <1>1, <1>3, <1>4, <1>5, <3>2
    <3>3. CASE r.frac # <<>>
      <4>1. d > 0 /\ Fraction(r) = 1 + f
        BY <1>1, <1>7, <3>3
      <4>2. p = q + 1 + f
        BY <1>3, <3>1, <3>3, <4>1
      <4> QED
        BY <1>1, <1>4, <1>5, <4>1, <4>2
    <3> QED
      BY <3>2, <3>3
  <2>2. p \in Nat /\ p < Len(s) /\ p <= e + u
    BY <1>1, <1>2, <1>5, <2>1
  <2> QED
    BY <1>1, <1>6, <1>7, <2>1, <2>2 DEF p, e, q, m, w, f, u
<1>8. CASE f > d
  <2>1. r.frac # <<>> /\ e = q + 1 + f
    BY <1>1, <1>4, <1>5, <1>8
  <2>2. CASE d = 0
    <3>1. p = q /\ p < e /\ s[p + 1] = Point
      BY <1>1, <1>2, <1>3, <1>5, <2>1, <2>2
    <3>2. p \in Nat /\ p < Len(s) /\ p <= e + u
      BY <1>1, <1>2, <1>5, <3>1
    <3> QED
      BY <1>1, <1>8, <2>2, <3>1, <3>2 DEF p, e, q, m, w, f, u
  <2>3. CASE d # 0
    <3>1. p = q + 1 + d
      BY <1>3, <1>8, <2>1, <2>3 DEF ReadDecimals, f
    <3>2. p < e /\ d + 1 \in 1..f /\ p + 1 = q + 1 + (d + 1)
      BY <1>1, <1>5, <1>8, <2>1, <3>1
    <3>3. s[q + 1 + (d + 1)] \in DOMAIN Digit
      BY <1>1, <1>2, <2>1, <3>2
    <3>4. s[p + 1] \in DOMAIN Digit
      BY <3>2, <3>3
    <3>5. p \in Nat /\ p < Len(s) /\ p <= e + u
      BY <1>1, <1>2, <1>5, <3>1, <3>2
    <3> QED
      BY <1>1, <1>8, <2>3, <3>2, <3>4, <3>5 DEF p, e, q, m, w, f, u
  <2> QED
    BY <2>2, <2>3
<1> QED
  BY <1>1, <1>7, <1>8

\* The ')' of the reading is where parse_num looks for it, if it takes the reading.
LEMMA CloseIs ==
    ASSUME NEW r, IsReading(r), NEW s, NEW t, Written(s, r, t), NEW d \in Nat,
           NEW unit, CloseBracket \notin unit, NEW value
    PROVE  LET n == Sign(r) + Len(r.whole) + 1 + Fraction(r) + Len(r.unit)
               c == AfterUnit(s, Stop(r, d), value, unit)
           IN  /\ c \in Nat
               /\ (c < Len(s) /\ s[c + 1] = CloseBracket) <=> Accepts(r, d, unit, value)
               /\ Accepts(r, d, unit, value) => c = n
<1> DEFINE f == Len(r.frac)
           u == Len(r.unit)
           e == Sign(r) + Len(r.whole) + 1 + Fraction(r)
           n == e + u
           p == Stop(r, d)
           c == AfterUnit(s, p, value, unit)
<1>1. /\ f \in Nat /\ u \in Nat /\ e \in Nat /\ e > 0
      /\ r.unit = <<>> <=> u = 0
  <2>1. /\ Len(r.whole) \in Nat /\ f \in Nat /\ u \in Nat /\ Sign(r) \in 0..1
        /\ Fraction(r) \in Nat
        /\ r.unit = <<>> <=> u = 0
    BY ReadingTypes
  <2> QED
    BY <2>1
<1>2. /\ s \in Seq(Char) /\ Len(s) \in Nat /\ Len(t) \in Nat /\ Len(s) = n + 1 + Len(t)
      /\ \A j \in 1..u : s[e + j] = r.unit[j]
      /\ s[n + 1] = CloseBracket
      /\ \A j \in 2..n : s[j] # CloseBracket
  BY DEF Written
<1>3. /\ p \in Nat /\ p < Len(s) /\ p <= n
      /\ f <= d => p = e /\ s[p + 1] = IF r.unit = <<>> THEN CloseBracket ELSE Star
      /\ f > d => p < e /\ IF d = 0 THEN s[p + 1] = Point ELSE s[p + 1] \in DOMAIN Digit
  BY StopIs
<1>4. p > 0
  <2>1. Len(r.whole) \in Nat /\ f \in Nat /\ Sign(r) \in Nat
    BY ReadingTypes
  <2>2. ReadDecimals(r, d) \in Nat
    BY <2>1 DEF ReadDecimals
  <2> HIDE DEF f, p
  <2>3. p \in {Sign(r) + Len(r.whole) + 1, Sign(r) + Len(r.whole) + 1 + 1 + ReadDecimals(r, d)}
    BY DEF p, Stop
  <2> QED
    BY <2>1, <2>2, <2>3
<1>5. /\ Star # CloseBracket /\ Point # CloseBracket /\ Point # Star
      /\ CloseBracket \notin DOMAIN Digit /\ Star \notin DOMAIN Digit /\ Point \notin DOMAIN Digit
  BY LineAssumption, NumberAssumption
<1>6. c \in Nat
  BY <1>2, <1>3, AfterUnitIsLater
<1>7. Accepts(r, d, unit, value) <=>
        \/ f <= d /\ HasUnit(r, unit)
        \/ unit # {} /\ value = 0 /\ IF f <= d THEN r.unit = <<>> ELSE d > 0
  BY DEF Accepts
<1>8. MayLackUnit(s, p, value) <=> value = 0 /\ IF f <= d THEN r.unit = <<>> ELSE d > 0
  <2>1. MayLackUnit(s, p, value) <=> value = 0 /\ s[p + 1] \notin {Star, Point}
    BY <1>3 DEF MayLackUnit
  <2>2. s[p + 1] \notin {Star, Point} <=> IF f <= d THEN r.unit = <<>> ELSE d > 0
    BY <1>1, <1>3, <1>5
  <2> QED
    BY <2>1, <2>2
<1>9. c = IF unit = {}
          THEN p
          ELSE IF MayLackUnit(s, p, value)
          THEN p + BeforeClose(Rest(s, p))
          ELSE IF p + 1 < Len(s) /\ s[p + 1] = Star /\ s[p + 2] \in unit
          THEN p + 2
          ELSE Len(s)
  BY Zenon DEF AfterUnit
<1> HIDE DEF c, p, e, f, u
\* The unit is empty.
<1>10. CASE unit = {}
  <2>1. c = p /\ c < Len(s)
    BY <1>3, <1>9, <1>10
  <2>2. HasUnit(r, unit) <=> r.unit = <<>>
    BY <1>10 DEF HasUnit, None
  <2>3. s[c + 1] = CloseBracket <=> f <= d /\ r.unit = <<>>
    BY <1>1, <1>3, <1>5, <2>1
  <2>4. f <= d /\ r.unit = <<>> => c = n
    BY <1>1, <1>3, <2>1
  <2> QED
    BY <1>6, <1>7, <1>10, <2>1, <2>2, <2>3, <2>4 DEF c, p, e, f, u
\* It may be missing.
<1>11. CASE unit # {} /\ MayLackUnit(s, p, value)
  <2> DEFINE v == Rest(s, p)
             k == n - p
  <2>1. /\ v \in Seq(Char) /\ Len(v) = Len(s) - p
        /\ \A j \in 1..(Len(s) - p) : v[j] = s[p + j]
    BY <1>2, <1>3, RestOfSeq
  <2>2. k \in Nat /\ k < Len(v)
    BY <1>1, <1>2, <1>3, <2>1
  <2>3. ASSUME NEW j \in 1..k PROVE v[j] # CloseBracket
    <3>1. j \in 1..(Len(s) - p) /\ p + j \in 2..n
      BY <1>1, <1>2, <1>3, <1>4
    <3> QED
      BY <1>2, <2>1, <3>1
  <2>4. v[k + 1] = CloseBracket
    <3>1. k + 1 \in 1..(Len(s) - p) /\ p + (k + 1) = n + 1
      BY <1>1, <1>2, <1>3
    <3> QED
      BY <1>2, <2>1, <3>1
  <2> HIDE DEF v, k
  <2>5. BeforeClose(v) = k
    BY <2>1, <2>2, <2>3, <2>4, BeforeCloseIs
  <2>6. c = n
    <3>1. c = p + k
      BY <1>9, <1>11, <2>5 DEF v
    <3> QED
      BY <1>1, <1>3, <3>1 DEF k
  <2>7. c < Len(s) /\ s[c + 1] = CloseBracket
    BY <1>1, <1>2, <2>6
  <2>8. Accepts(r, d, unit, value)
    BY <1>7, <1>8, <1>11
  <2> QED
    BY <1>6, <2>6, <2>7, <2>8 DEF c, p, e, f, u
\* It may not.
<1>12. CASE unit # {} /\ ~MayLackUnit(s, p, value)
  <2>1. Accepts(r, d, unit, value) <=> f <= d /\ u = 2 /\ r.unit[2] \in unit
    BY <1>7, <1>8, <1>12 DEF HasUnit, u
  <2> DEFINE IsUnit == p + 1 < Len(s) /\ s[p + 1] = Star /\ s[p + 2] \in unit
  <2>2. c = IF IsUnit THEN p + 2 ELSE Len(s)
    BY <1>9, <1>12
  <2>3. ASSUME f <= d, u = 2, r.unit[2] \in unit
        PROVE  c = n /\ c < Len(s) /\ s[c + 1] = CloseBracket
    <3>1. p = e /\ r.unit # <<>> /\ s[p + 1] = Star
      BY <1>1, <1>3, <2>3
    <3>2. s[p + 2] = r.unit[2]
      BY <1>2, <2>3, <3>1
    <3>3. p + 1 < Len(s)
      BY <1>1, <1>2, <2>3, <3>1
    <3>4. c = n
      BY <2>2, <2>3, <3>1, <3>2, <3>3
    <3> QED
      BY <1>1, <1>2, <3>4
  <2>4. ASSUME c < Len(s), s[c + 1] = CloseBracket
        PROVE  f <= d /\ u = 2 /\ r.unit[2] \in unit
    <3>1. IsUnit /\ c = p + 2
      BY <1>2, <2>2, <2>4
    <3>2. f <= d /\ p = e /\ r.unit # <<>>
      BY <1>1, <1>3, <1>5, <3>1
    <3>3. u # 0 /\ u # 1
      <4>1. SUFFICES ASSUME u = 1 PROVE FALSE
        BY <1>1, <3>2
      <4>2. p + 2 = n + 1
        BY <1>1, <3>2, <4>1
      <4> QED
        BY <1>2, <3>1, <4>2
    <3>4. ~(u > 2)
      <4>1. SUFFICES ASSUME u > 2 PROVE FALSE
        OBVIOUS
      <4>2. c + 1 \in 2..n
        BY <1>1, <1>3, <3>1, <3>2, <4>1
      <4> QED
        BY <1>2, <2>4, <4>2
    <3>5. u = 2
      BY <1>1, <3>3, <3>4
    <3>6. s[p + 2] = r.unit[2]
      BY <1>2, <3>2, <3>5
    <3> QED
      BY <3>1, <3>2, <3>5, <3>6
  <2> QED
    BY <1>6, <2>1, <2>3, <2>4 DEF c, p, e, f, u
<1> QED
  BY <1>10, <1>11, <1>12

\* What parse_num returns for a reading, if its computations yield value.
Outcome(r, d, unit, value, s, t) ==
    [ok |-> Accepts(r, d, unit, value),
     out |-> IF ~Accepts(r, d, unit, value) THEN 0 ELSE IF r.neg THEN Negated(value) ELSE value,
     rest |-> IF Accepts(r, d, unit, value) THEN t ELSE s,
     overflows |-> Exact(r, d) > MaxInt]

LEMMA SameDigits ==
    ASSUME NEW s \in Seq(Char), NEW p \in Nat, NEW x \in Seq(DOMAIN Digit), NEW n \in Nat,
           n <= Len(x), \A j \in 1..n : s[p + j] = x[j]
    PROVE  SubSeq(s, p + 1, p + n) = SubSeq(x, 1, n)
<1> DEFINE a == SubSeq(s, p + 1, p + n)
           b == SubSeq(x, 1, n)
<1>0. Len(x) \in Nat
  OBVIOUS
<1>1. \A j \in (p + 1)..(p + n) : s[j] \in DOMAIN Digit
  <2>1. ASSUME NEW j \in (p + 1)..(p + n) PROVE s[j] \in DOMAIN Digit
    <3>1. j - p \in 1..n /\ p + (j - p) = j /\ j - p \in 1..Len(x)
      BY <1>0
    <3>2. s[p + (j - p)] = x[j - p] /\ x[j - p] \in DOMAIN Digit
      BY <3>1
    <3> QED
      BY <3>1, <3>2
  <2> QED
    BY <2>1
<1>2. p + 1 \in Int /\ p + n \in Int /\ (p + n) - (p + 1) + 1 = n
  OBVIOUS
<1>3. a \in Seq(DOMAIN Digit) /\ Len(a) = n /\ \A j \in 1..n : a[j] = s[(p + 1) + j - 1]
  <2>1. /\ a \in Seq(DOMAIN Digit)
        /\ Len(a) = IF p + 1 <= p + n THEN (p + n) - (p + 1) + 1 ELSE 0
        /\ \A j \in 1..((p + n) - (p + 1) + 1) : a[j] = s[(p + 1) + j - 1]
    <3> DEFINE S == DOMAIN Digit
               x1 == p + 1
               xn == p + n
    <3>1. \A j \in x1..xn : s[j] \in S
      BY <1>1
    <3>2. x1 \in Int /\ xn \in Int
      BY <1>2
    <3> HIDE DEF S, x1, xn
    <3>3. /\ SubSeq(s, x1, xn) \in Seq(S)
          /\ Len(SubSeq(s, x1, xn)) = IF x1 <= xn THEN xn - x1 + 1 ELSE 0
          /\ \A j \in 1..(xn - x1 + 1) : SubSeq(s, x1, xn)[j] = s[x1 + j - 1]
      BY <3>1, <3>2, SubSeqProperties
    <3> QED
      BY <3>3 DEF S, x1, xn
  <2> HIDE DEF a
  <2> QED
    BY <1>2, <2>1
<1>4. b \in Seq(DOMAIN Digit) /\ Len(b) = n /\ \A j \in 1..n : b[j] = x[j]
  BY <1>0
<1>5. \A j \in 1..n : a[j] = b[j]
  <2>1. \A j \in 1..n : (p + 1) + j - 1 = p + j
    OBVIOUS
  <2> QED
    BY <1>3, <1>4, <2>1
<1> HIDE DEF a, b
<1>6. a = b
  BY <1>3, <1>4, <1>5, SeqEqual
<1> QED
  BY <1>6 DEF a, b

\* parse_num
LEMMA NumberIs ==
    ASSUME NEW r, IsReading(r), NEW s, NEW t, Written(s, r, t), NEW d \in Nat,
           NEW unit, CloseBracket \notin unit,
           NEW res \in ParseNum(d, unit, s)
    PROVE  \E value \in Int32Results(Exact(r, d)) : res = Outcome(r, d, unit, value, s, t)
<1> DEFINE start == IF Len(s) > 1 /\ s[2] = Minus THEN 2 ELSE 1
           point == start + DigitsFrom(s, start, Len(s))
           isNumber == AtEnd(s, point) \/ s[point + 1] = Point
           hasPoint == d > 0 /\ point < Len(s) /\ s[point + 1] = Point
           read == IF hasPoint THEN DigitsFrom(s, point + 1, d) ELSE 0
           stop == IF hasPoint THEN point + 1 + read ELSE point
           isDecimal == hasPoint => read = d \/ AtEnd(s, stop)
           scale == IF isNumber /\ isDecimal THEN d - read ELSE 0
           exact == Value(DigitsOf(SubSeq(s, start + 1, point))
                      \o DigitsOf(SubSeq(s, stop - read + 1, stop)) \o Zeros(scale))
           Close(value) == AfterUnit(s, stop, value, unit)
           Taken(value) ==
               /\ s[1] = OpenBracket
               /\ isNumber /\ isDecimal
               /\ Close(value) < Len(s)
               /\ s[Close(value) + 1] = CloseBracket
           Result(value) ==
               [ok |-> Taken(value),
                out |-> IF ~Taken(value) THEN 0
                        ELSE IF start = 2 THEN Negated(value) ELSE value,
                rest |-> IF Taken(value) THEN Rest(s, Close(value) + 1) ELSE s,
                overflows |-> s[1] = OpenBracket /\ exact > MaxInt]
           m == Sign(r)
           w == Len(r.whole)
           f == Len(r.frac)
           u == Len(r.unit)
           q == m + w + 1
           e == q + Fraction(r)
           n == e + u
<1>1. /\ w \in Nat /\ f \in Nat /\ u \in Nat /\ m \in 0..1 /\ (m = 1 <=> r.neg)
      /\ r.frac = <<>> => f = 0 /\ Fraction(r) = 0
      /\ r.frac # <<>> => f > 0 /\ Fraction(r) = 1 + f
      /\ r.unit = <<>> <=> u = 0
      /\ \A j \in 1..w : r.whole[j] \in DOMAIN Digit
      /\ \A j \in 1..f : r.frac[j] \in DOMAIN Digit
      /\ r.unit # <<>> => r.unit[1] = Star
      /\ Fraction(r) \in Nat
      /\ r.neg \in BOOLEAN /\ r.whole \in Seq(DOMAIN Digit) /\ r.frac \in Seq(DOMAIN Digit)
  BY ReadingTypes DEF IsReading
<1>2. /\ s \in Seq(Char) /\ t \in Seq(Char)
      /\ Len(s) = n + 1 + Len(t)
      /\ s[1] = OpenBracket
      /\ r.neg => s[2] = Minus
      /\ \A j \in 1..w : s[m + 1 + j] = r.whole[j]
      /\ r.frac # <<>> =>
          /\ s[q + 1] = Point
          /\ \A j \in 1..f : s[q + 1 + j] = r.frac[j]
      /\ \A j \in 1..u : s[e + j] = r.unit[j]
      /\ s[n + 1] = CloseBracket
      /\ Rest(s, n + 1) = t
  BY DEF Written
<1>3. /\ Minus \notin {Point, Star, CloseBracket} \cup DOMAIN Digit
      /\ {Point, Star, CloseBracket} \cap DOMAIN Digit = {}
      /\ Point # CloseBracket /\ Star # CloseBracket /\ Point # Star
  BY LineAssumption, NumberAssumption
<1> HIDE DEF m, w, f, u, e, n
<1>4. e = q + Fraction(r) /\ n = e + u /\ q = m + w + 1
  BY DEF e, n
<1> HIDE DEF q
<1>5. q \in Nat /\ e \in Nat /\ n \in Nat /\ Len(t) \in Nat /\ Len(s) \in Nat /\ Len(s) > 1
      /\ q < Len(s) /\ e < Len(s)
  <2>1. m \in Nat /\ w \in Nat /\ u \in Nat /\ Fraction(r) \in Nat
    BY <1>1
  <2>2. Len(s) = n + 1 + Len(t) /\ Len(t) \in Nat
    BY <1>2
  <2>3. q \in Nat /\ q >= 1 /\ q <= e
    BY <1>4, <2>1
  <2>4. e \in Nat /\ e <= n /\ n \in Nat
    BY <1>4, <2>1, <2>3
  <2> QED
    BY <2>2, <2>3, <2>4
\* What follows the digits.
<1>6. /\ r.frac # <<>> => s[q + 1] = Point
      /\ r.frac = <<>> => s[q + 1] = IF r.unit = <<>> THEN CloseBracket ELSE Star
  <2>1. ASSUME r.frac = <<>>, r.unit = <<>> PROVE s[q + 1] = CloseBracket
    BY <1>1, <1>2, <1>4, <1>5, <2>1
  <2>2. ASSUME r.frac = <<>>, r.unit # <<>> PROVE s[q + 1] = Star
    <3>1. 1 \in 1..u /\ e = q
      BY <1>1, <1>4, <1>5, <2>2
    <3> QED
      BY <1>1, <1>2, <2>2, <3>1
  <2> QED
    BY <1>2, <2>1, <2>2
<1>7. s[q + 1] \in {Point, Star, CloseBracket} /\ s[q + 1] \notin DOMAIN Digit
      /\ (s[q + 1] = Point <=> r.frac # <<>>)
  BY <1>3, <1>6
<1>8. start = m + 1
  <2>1. CASE r.neg
    BY <1>1, <1>2, <1>5, <2>1
  <2>2. CASE ~r.neg
    <3>1. m = 0
      BY <1>1, <2>2
    <3>2. s[2] # Minus
      <4>1. CASE w = 0
        <5>1. q + 1 = 2
          BY <1>4, <3>1, <4>1
        <5> QED
          BY <1>3, <1>7, <5>1
      <4>2. CASE w # 0
        <5>1. 1 \in 1..w /\ m + 1 + 1 = 2
          BY <1>1, <3>1, <4>2
        <5>2. s[2] = r.whole[1] /\ r.whole[1] \in DOMAIN Digit
          BY <1>1, <1>2, <5>1
        <5> QED
          BY <1>3, <5>2
      <4> QED
        BY <4>1, <4>2
    <3> QED
      BY <3>1, <3>2
  <2> QED
    BY <1>1, <2>1, <2>2
<1> HIDE DEF start
<1>9. point = q
  <2>1. \A j \in (start + 1)..(start + w) : s[j] \in DOMAIN Digit
    <3>1. ASSUME NEW j \in (start + 1)..(start + w) PROVE s[j] \in DOMAIN Digit
      <4>1. j - start \in 1..w /\ m + 1 + (j - start) = j
        BY <1>1, <1>8
      <4> QED
        BY <1>1, <1>2, <4>1
    <3> QED
      BY <3>1
  <2>2. m \in Nat /\ w \in Nat
    BY <1>1
  <2>3. /\ start + w = q /\ start + w < Len(s) /\ start + w + 1 = q + 1
        /\ start \in 0..Len(s) /\ w \in 0..(Len(s) - start) /\ w <= Len(s)
    BY <1>4, <1>5, <1>8, <2>2
  <2>4. DigitsFrom(s, start, Len(s)) = w
    BY <1>2, <1>5, <1>7, <2>1, <2>2, <2>3, DigitsFromIs
  <2> QED
    BY <2>3, <2>4
<1> HIDE DEF point
<1>10. q < Len(s)
  BY <1>5
<1>11. hasPoint <=> d > 0 /\ r.frac # <<>>
  BY <1>7, <1>9, <1>10
<1>12. isNumber
  BY <1>7, <1>9 DEF AtEnd
<1> HIDE DEF hasPoint, isNumber
<1>13. /\ Stop(r, d) = (IF d > 0 /\ r.frac # <<>> THEN q + 1 + ReadDecimals(r, d) ELSE q)
       /\ ReadDecimals(r, d) = IF d < f THEN d ELSE f
  BY <1>4 DEF Stop, ReadDecimals, m, w, f
<1>14. /\ Stop(r, d) \in Nat
       /\ f <= d =>
            Stop(r, d) = e /\ s[Stop(r, d) + 1] = IF r.unit = <<>> THEN CloseBracket ELSE Star
  <2> HIDE DEF Stop
  <2> QED
    BY StopIs, <1>4 DEF m, w, f, u
<1>15. read = ReadDecimals(r, d)
  <2>1. CASE hasPoint
    <3> DEFINE k == ReadDecimals(r, d)
    <3>1. k \in Nat /\ k <= d /\ k <= f /\ r.frac # <<>> /\ (k < d => k = f /\ f <= d)
      BY <1>1, <1>11, <1>13, <2>1
    <3>2. \A j \in (q + 1 + 1)..(q + 1 + k) : s[j] \in DOMAIN Digit
      <4>1. ASSUME NEW j \in (q + 1 + 1)..(q + 1 + k) PROVE s[j] \in DOMAIN Digit
        <5>1. j - (q + 1) \in 1..f /\ q + 1 + (j - (q + 1)) = j
          BY <1>1, <1>5, <3>1
        <5> QED
          BY <1>1, <1>2, <3>1, <5>1
      <4> QED
        BY <4>1
    <3>0. f \in Nat /\ Fraction(r) = 1 + f
      BY <1>1, <3>1
    <3>3. q + 1 \in 0..Len(s) /\ k \in 0..(Len(s) - (q + 1))
      BY <1>4, <1>5, <3>0, <3>1
    <3>4. k < d => q + 1 + k < Len(s) /\ s[q + 1 + k + 1] \notin DOMAIN Digit
      <4>1. SUFFICES ASSUME k < d
                     PROVE  q + 1 + k < Len(s) /\ s[q + 1 + k + 1] \notin DOMAIN Digit
        OBVIOUS
      <4>2. q + 1 + k = e /\ e < Len(s)
        BY <1>4, <1>5, <3>0, <3>1, <4>1
      <4>3. s[e + 1] \in {CloseBracket, Star}
        BY <1>14, <3>1, <4>1
      <4> QED
        BY <1>3, <4>2, <4>3
    <3> HIDE DEF k
    <3>5. DigitsFrom(s, q + 1, d) = k
      BY <1>2, <3>1, <3>2, <3>3, <3>4, DigitsFromIs
    <3> QED
      BY <1>9, <2>1, <3>5 DEF k
  <2>2. CASE ~hasPoint
    BY <1>1, <1>11, <1>13, <2>2
  <2> QED
    BY <2>1, <2>2
<1> HIDE DEF read
<1>16. stop = Stop(r, d)
  BY <1>9, <1>11, <1>13, <1>15
<1>17. isDecimal
  <2>1. SUFFICES ASSUME hasPoint, read # d PROVE AtEnd(s, stop)
    OBVIOUS
  <2>2. f <= d
    BY <1>1, <1>13, <1>15, <2>1
  <2> QED
    BY <1>14, <1>16, <2>2 DEF AtEnd
<1> HIDE DEF stop, isDecimal
<1>18. exact = Exact(r, d)
  <2> DEFINE k == ReadDecimals(r, d)
  <2>1. k \in Nat /\ k <= f
    BY <1>1, <1>13
  <2>2. SubSeq(s, start + 1, point) = r.whole
    <3>1. start \in Nat /\ start + w = point /\ \A j \in 1..w : s[start + j] = r.whole[j]
      BY <1>1, <1>2, <1>4, <1>8, <1>9
    <3>2. SubSeq(s, start + 1, start + w) = SubSeq(r.whole, 1, w)
      BY <1>1, <1>2, <3>1, SameDigits DEF w
    <3>3. SubSeq(r.whole, 1, w) = r.whole
      BY <1>1, SubSeqFull DEF w
    <3> QED
      BY <3>1, <3>2, <3>3
  <2>3. SubSeq(s, stop - read + 1, stop) = SubSeq(r.frac, 1, k)
    <3>1. stop - k \in Nat /\ (stop - k) + k = stop
      BY <1>5, <1>1, <1>13, <1>16, <2>1
    <3>2. \A j \in 1..k : s[(stop - k) + j] = r.frac[j]
      <4>1. SUFFICES ASSUME NEW j \in 1..k PROVE s[(stop - k) + j] = r.frac[j]
        OBVIOUS
      <4>2. d > 0 /\ r.frac # <<>>
        BY <1>1, <1>13
      <4>3. stop - k = q + 1 /\ j \in 1..f
        BY <1>1, <1>5, <1>13, <1>16, <2>1, <4>2
      <4> QED
        BY <1>2, <4>2, <4>3
    <3> DEFINE p == stop - k
    <3> HIDE DEF k, p
    <3>5. /\ s \in Seq(Char) /\ r.frac \in Seq(DOMAIN Digit) /\ k \in Nat /\ k <= Len(r.frac)
          /\ p \in Nat /\ \A j \in 1..k : s[p + j] = r.frac[j]
      BY <1>1, <1>2, <2>1, <3>1, <3>2 DEF f, p
    <3>6. SubSeq(s, p + 1, p + k) = SubSeq(r.frac, 1, k)
      BY <3>5, SameDigits
    <3>3. SubSeq(s, (stop - k) + 1, (stop - k) + k) = SubSeq(r.frac, 1, k)
      BY <3>6 DEF p
    <3>4. stop - read + 1 = (stop - k) + 1
      BY <1>15 DEF k
    <3> QED
      BY <3>1, <3>3, <3>4
  <2>4. scale = d - k
    BY <1>12, <1>15, <1>17
  <2> HIDE DEF k, scale
  <2>5. exact = Value(DigitsOf(r.whole) \o DigitsOf(SubSeq(r.frac, 1, k)) \o Zeros(d - k))
    BY <2>2, <2>3, <2>4, Zenon
  <2> QED
    BY <2>5 DEF Exact, k
<1> HIDE DEF exact
<1>19. \A value : Taken(value) = Accepts(r, d, unit, value)
  <2>1. SUFFICES ASSUME NEW value PROVE Taken(value) = Accepts(r, d, unit, value)
    OBVIOUS
  <2>2. (Close(value) < Len(s) /\ s[Close(value) + 1] = CloseBracket)
            <=> Accepts(r, d, unit, value)
    BY <1>16, CloseIs, Zenon
  <2> HIDE DEF Close
  <2> QED
    BY <1>2, <1>12, <1>17, <2>2 DEF Accepts
<1>20. \A value : Accepts(r, d, unit, value) => Rest(s, Close(value) + 1) = t
  <2>1. SUFFICES ASSUME NEW value, Accepts(r, d, unit, value)
                 PROVE  Rest(s, Close(value) + 1) = t
    OBVIOUS
  <2>2. Close(value) = Sign(r) + Len(r.whole) + 1 + Fraction(r) + Len(r.unit)
    BY <1>16, <2>1, CloseIs, Zenon
  <2>3. n = Sign(r) + Len(r.whole) + 1 + Fraction(r) + Len(r.unit)
    BY <1>4 DEF m, w, u
  <2> QED
    BY <1>2, <2>2, <2>3
<1> HIDE DEF Close
<1>21. start = 2 <=> r.neg
  BY <1>1, <1>8
<1>22. PICK value \in Int32Results(exact) : res = Result(value)
  <2>1. s # <<>>
    BY <1>2, <1>5
  <2>2. ParseNum(d, unit, s) = {Result(value) : value \in Int32Results(exact)}
    BY <2>1, Zenon
    DEF ParseNum, start, point, isNumber, hasPoint, read, stop, isDecimal, exact, Close
  <2> HIDE DEF Result
  <2> QED
    BY <2>2
<1> HIDE DEF Taken
<1>23. Result(value) = Outcome(r, d, unit, value, s, t)
  <2>1. Taken(value) = Accepts(r, d, unit, value)
    BY <1>19
  <2>2. Accepts(r, d, unit, value) => Rest(s, Close(value) + 1) = t
    BY <1>20
  <2> QED
    BY <1>2, <1>18, <1>21, <2>1, <2>2 DEF Outcome
<1> HIDE DEF Result
<1> QED
  BY <1>18, <1>22, <1>23

LEMMA DigitsAre ==
    ASSUME NEW x \in Seq(DOMAIN Digit)
    PROVE  /\ DigitsOf(x) \in Seq(Nat)
           /\ Len(DigitsOf(x)) = Len(x)
           /\ \A j \in 1..Len(x) : DigitsOf(x)[j] = Digit[x[j]]
<1>1. Len(x) \in Nat /\ \A j \in 1..Len(x) : Digit[x[j]] \in Nat
  BY NumberAssumption
<1> QED
  BY <1>1 DEF DigitsOf

LEMMA ZerosAre ==
    ASSUME NEW n \in Nat
    PROVE  Zeros(n) \in Seq(Nat) /\ Len(Zeros(n)) = n /\ \A j \in 1..n : Zeros(n)[j] = 0
BY DEF Zeros

\* The digits of a reading in units of the last decimal.
Padded(r) == [j \in 1..Decimals |-> IF j \in DOMAIN r.frac THEN Digit[r.frac[j]] ELSE 0]

LEMMA PaddedIs ==
    ASSUME NEW r, IsReading(r)
    PROVE  /\ Padded(r) \in Seq(Nat) /\ Len(Padded(r)) = Decimals
           /\ \A j \in 1..Decimals :
                Padded(r)[j] = IF j <= Len(r.frac) THEN Digit[r.frac[j]] ELSE 0
           /\ DigitsOf(SubSeq(r.frac, 1, ReadDecimals(r, Decimals)))
                \o Zeros(Decimals - ReadDecimals(r, Decimals)) = Padded(r)
<1> DEFINE k == ReadDecimals(r, Decimals)
           x == SubSeq(r.frac, 1, k)
           a == DigitsOf(x)
           z == Zeros(Decimals - k)
           b == a \o z
           c == Padded(r)
<1>1. r.frac \in Seq(DOMAIN Digit) /\ Len(r.frac) \in Nat /\ Decimals \in Nat
  BY FieldAssumption, ReadingTypes DEF IsReading
<1>2. k \in Nat /\ k <= Len(r.frac) /\ k <= Decimals /\ (k < Decimals => k = Len(r.frac))
  BY <1>1 DEF ReadDecimals
<1>3. x \in Seq(DOMAIN Digit) /\ Len(x) = k /\ \A j \in 1..k : x[j] = r.frac[j]
  <2> HIDE DEF k
  <2> QED
    BY <1>1, <1>2
<1>4. /\ c \in Seq(Nat) /\ Len(c) = Decimals
      /\ \A j \in 1..Decimals : c[j] = IF j <= Len(r.frac) THEN Digit[r.frac[j]] ELSE 0
  <2>1. DOMAIN r.frac = 1..Len(r.frac)
    BY <1>1
  <2>2. \A j \in 1..Decimals : c[j] = IF j <= Len(r.frac) THEN Digit[r.frac[j]] ELSE 0
    BY <1>1, <2>1 DEF Padded
  <2>3. \A j \in 1..Decimals : c[j] \in Nat
    <3>1. ASSUME NEW j \in 1..Decimals PROVE c[j] \in Nat
      <4>1. j <= Len(r.frac) => r.frac[j] \in DOMAIN Digit
        BY <1>1
      <4> QED
        BY <2>2, <4>1, NumberAssumption
    <3> QED
      BY <3>1
  <2>4. c = [j \in 1..Decimals |-> c[j]]
    BY DEF Padded
  <2> HIDE DEF c
  <2>5. c \in [1..Decimals -> Nat]
    BY <2>3, <2>4
  <2> QED
    BY <1>1, <2>2, <2>5
<1> HIDE DEF k, x
<1>5. a \in Seq(Nat) /\ Len(a) = k /\ \A j \in 1..k : a[j] = Digit[r.frac[j]]
  BY <1>3, DigitsAre
<1>6. z \in Seq(Nat) /\ Len(z) = Decimals - k /\ \A j \in 1..(Decimals - k) : z[j] = 0
  <2>1. Decimals - k \in Nat
    BY <1>1, <1>2
  <2> QED
    BY <2>1, ZerosAre
<1> HIDE DEF a, z, c
<1>7. /\ b \in Seq(Nat) /\ Len(b) = Len(a) + Len(z)
      /\ \A j \in 1..(Len(a) + Len(z)) : b[j] = IF j <= Len(a) THEN a[j] ELSE z[j - Len(a)]
  BY <1>5, <1>6, ConcatProperties
<1> HIDE DEF b
<1>8. Len(b) = Decimals
  BY <1>1, <1>2, <1>5, <1>6, <1>7
<1>9. ASSUME NEW j \in 1..Decimals PROVE b[j] = c[j]
  <2>1. b[j] = IF j <= k THEN a[j] ELSE z[j - k]
    BY <1>1, <1>2, <1>5, <1>6, <1>7
  <2>2. CASE j <= k
    <3>1. j \in 1..k /\ j <= Len(r.frac)
      BY <1>1, <1>2, <2>2
    <3> QED
      BY <1>4, <1>5, <2>1, <2>2, <3>1
  <2>3. CASE ~(j <= k)
    <3>1. j - k \in 1..(Decimals - k) /\ ~(j <= Len(r.frac))
      BY <1>1, <1>2, <2>3
    <3> QED
      BY <1>4, <1>6, <2>1, <2>3, <3>1
  <2> QED
    BY <2>2, <2>3
<1>10. b = c
  BY <1>4, <1>7, <1>8, <1>9, SeqEqual
<1> QED
  BY <1>4, <1>10 DEF b, a, z, x, k, c

\* What parse_num computes is the value of the reading, in its units.
LEMMA Meaning ==
    ASSUME NEW r, IsReading(r)
    PROVE  /\ Whole(r) \in Nat /\ Thousandths(r) \in Nat /\ Whole(r) <= Thousandths(r)
           /\ Exact(r, 0) = Whole(r)
           /\ Exact(r, Decimals) = Thousandths(r)
           /\ IsZero(r) => Whole(r) = 0 /\ Thousandths(r) = 0
           /\ r.frac = <<>> /\ Whole(r) = 0 => IsZero(r)
           /\ Len(r.frac) <= Decimals /\ Thousandths(r) = 0 => IsZero(r)
<1> DEFINE w == DigitsOf(r.whole)
           p == Padded(r)
<1>1. /\ r.whole \in Seq(DOMAIN Digit) /\ r.frac \in Seq(DOMAIN Digit)
      /\ Len(r.whole) \in Nat /\ Len(r.frac) \in Nat /\ Decimals \in Nat
  BY FieldAssumption, ReadingTypes DEF IsReading
<1>2. /\ w \in Seq(Nat) /\ Len(w) = Len(r.whole)
      /\ \A j \in 1..Len(r.whole) : w[j] = Digit[r.whole[j]]
  BY <1>1, DigitsAre
<1>3. /\ p \in Seq(Nat) /\ Len(p) = Decimals
      /\ \A j \in 1..Decimals : p[j] = IF j <= Len(r.frac) THEN Digit[r.frac[j]] ELSE 0
  BY PaddedIs
<1>4. Whole(r) = Value(w) /\ Thousandths(r) = Value(w \o p)
  BY DEF Whole, Thousandths, Padded
<1>5. Exact(r, Decimals) = Thousandths(r)
  <2> DEFINE k == ReadDecimals(r, Decimals)
             a == DigitsOf(SubSeq(r.frac, 1, k))
             z == Zeros(Decimals - k)
  <2>1. k \in Nat /\ k <= Len(r.frac) /\ k <= Decimals
    BY <1>1 DEF ReadDecimals
  <2> HIDE DEF k
  <2>2. a \in Seq(Nat)
    <3>1. SubSeq(r.frac, 1, k) \in Seq(DOMAIN Digit)
      BY <1>1, <2>1
    <3> QED
      BY <3>1, DigitsAre
  <2>3. z \in Seq(Nat)
    <3>1. Decimals - k \in Nat
      BY <1>1, <2>1
    <3> QED
      BY <3>1, ZerosAre
  <2>4. a \o z = p
    BY PaddedIs DEF k
  <2>5. Exact(r, Decimals) = Value(w \o a \o z)
    BY DEF Exact, k
  <2> HIDE DEF w, a, z, p
  <2>6. (w \o a) \o z = w \o (a \o z)
    BY <1>2, <2>2, <2>3
  <2> QED
    BY <1>4, <2>4, <2>5, <2>6
<1>6. Exact(r, 0) = Whole(r)
  <2>1. ReadDecimals(r, 0) = 0
    BY <1>1 DEF ReadDecimals
  <2>2. SubSeq(r.frac, 1, 0) = <<>>
    BY SubSeqEmpty
  <2>3. DigitsOf(<<>>) = <<>> /\ Zeros(0) = <<>> /\ 0 - 0 = 0
    BY DEF DigitsOf, Zeros
  <2>4. Exact(r, 0) = Value(w \o <<>> \o <<>>)
    BY <2>1, <2>2, <2>3 DEF Exact
  <2> HIDE DEF w
  <2>5. w \o <<>> \o <<>> = w
    BY <1>2
  <2> QED
    BY <1>4, <2>4, <2>5
<1> HIDE DEF w, p
<1>7. Whole(r) \in Nat /\ Thousandths(r) \in Nat /\ Whole(r) <= Thousandths(r)
  <2>1. w \o p \in Seq(Nat)
    BY <1>2, <1>3
  <2> QED
    BY <1>2, <1>3, <1>4, <2>1, ValueIsNat, ValueGrows
<1>8. Whole(r) = 0 <=> \A j \in 1..Len(r.whole) : Digit[r.whole[j]] = 0
  BY <1>2, <1>4, ValueOfZeros
<1>9. Thousandths(r) = 0 <=>
        Whole(r) = 0 /\ \A j \in 1..Decimals : j <= Len(r.frac) => Digit[r.frac[j]] = 0
  <2> DEFINE x == w \o p
  <2>1. /\ x \in Seq(Nat) /\ Len(x) = Len(w) + Len(p)
        /\ \A j \in 1..(Len(w) + Len(p)) : x[j] = IF j <= Len(w) THEN w[j] ELSE p[j - Len(w)]
    <3>1. x \in Seq(Nat) /\ Len(x) = Len(w) + Len(p)
      BY <1>2, <1>3, ConcatProperties
    <3>3. w \in Seq(Nat) /\ p \in Seq(Nat)
      BY <1>2, <1>3
    <3>2. \A j \in 1..(Len(w) + Len(p)) : x[j] = IF j <= Len(w) THEN w[j] ELSE p[j - Len(w)]
      BY <3>3, ConcatProperties, Zenon
    <3> HIDE DEF x
    <3> QED
      BY <3>1, <3>2
  <2>2. Thousandths(r) = 0 <=> \A j \in 1..Len(x) : x[j] = 0
    BY <1>4, <2>1, ValueOfZeros
  <2> HIDE DEF x
  <2>3. ASSUME \A j \in 1..Len(x) : x[j] = 0
        PROVE  Whole(r) = 0 /\ \A j \in 1..Decimals : j <= Len(r.frac) => Digit[r.frac[j]] = 0
    <3>1. ASSUME NEW j \in 1..Len(r.whole) PROVE Digit[r.whole[j]] = 0
      <4>1. j \in 1..Len(x) /\ j <= Len(w) /\ j \in 1..(Len(w) + Len(p))
        BY <1>1, <1>2, <1>3, <2>1
      <4>2. x[j] = w[j]
        BY <2>1, <4>1
      <4> QED
        BY <1>2, <2>3, <4>1, <4>2
    <3>2. ASSUME NEW j \in 1..Decimals, j <= Len(r.frac) PROVE Digit[r.frac[j]] = 0
      <4> DEFINE k == Len(w) + j
      <4>1. /\ k \in 1..Len(x) /\ ~(k <= Len(w)) /\ k \in 1..(Len(w) + Len(p))
            /\ k - Len(w) = j
        BY <1>1, <1>2, <1>3, <2>1
      <4> HIDE DEF k
      <4>2. x[k] = p[j]
        BY <2>1, <4>1
      <4> QED
        BY <1>3, <2>3, <3>2, <4>1, <4>2
    <3> QED
      BY <1>8, <3>1, <3>2
  <2>4. ASSUME Whole(r) = 0, \A j \in 1..Decimals : j <= Len(r.frac) => Digit[r.frac[j]] = 0,
               NEW j \in 1..Len(x)
        PROVE  x[j] = 0
    <3>1. j \in 1..(Len(w) + Len(p))
      BY <2>1
    <3>2. x[j] = IF j <= Len(w) THEN w[j] ELSE p[j - Len(w)]
      BY <2>1, <3>1
    <3>3. CASE j <= Len(w)
      <4>1. j \in 1..Len(r.whole)
        BY <1>1, <1>2, <3>1, <3>3
      <4> QED
        BY <1>2, <1>8, <2>4, <3>2, <3>3, <4>1
    <3>4. CASE ~(j <= Len(w))
      <4>1. j - Len(w) \in 1..Decimals
        BY <1>1, <1>2, <1>3, <3>1, <3>4
      <4>2. p[j - Len(w)] = 0
        BY <1>3, <2>4, <4>1
      <4> QED
        BY <3>2, <3>4, <4>2
    <3> QED
      BY <3>3, <3>4
  <2> QED
    BY <2>2, <2>3, <2>4
<1>10. IsZero(r) <=> /\ \A j \in 1..Len(r.whole) : Digit[r.whole[j]] = 0
                     /\ \A j \in 1..Len(r.frac) : Digit[r.frac[j]] = 0
  <2>1. DOMAIN r.whole = 1..Len(r.whole) /\ DOMAIN r.frac = 1..Len(r.frac)
    BY <1>1
  <2> QED
    BY <2>1 DEF IsZero
<1>11. IsZero(r) => Whole(r) = 0 /\ Thousandths(r) = 0
  <2>1. \A j \in 1..Decimals : j <= Len(r.frac) => j \in 1..Len(r.frac)
    BY <1>1
  <2> QED
    BY <1>8, <1>9, <1>10, <2>1
<1>12. r.frac = <<>> /\ Whole(r) = 0 => IsZero(r)
  <2>1. r.frac = <<>> => Len(r.frac) = 0
    OBVIOUS
  <2> QED
    BY <1>8, <1>10, <2>1
<1>13. Len(r.frac) <= Decimals /\ Thousandths(r) = 0 => IsZero(r)
  <2>1. Len(r.frac) <= Decimals =>
          \A j \in 1..Len(r.frac) : j \in 1..Decimals /\ j <= Len(r.frac)
    BY <1>1
  <2> QED
    BY <1>8, <1>9, <1>10, <2>1
<1> QED
  BY <1>5, <1>6, <1>7, <1>11, <1>12, <1>13

LEMMA NegatedIs ==
    ASSUME NEW n \in Nat, n <= MaxInt
    PROVE  Negated(n) = -n
<1>1. MaxInt \in Nat /\ n # -MaxInt - 1
  BY NumberAssumption
<1> QED
  BY <1>1 DEF Negated

\* Without an overflow parse_num has one result.
LEMMA NumberIsExact ==
    ASSUME NEW r, IsReading(r), NEW s, NEW t, Written(s, r, t), NEW d \in Nat,
           NEW unit, CloseBracket \notin unit,
           NEW n \in Nat, n <= MaxInt, Exact(r, d) = n,
           NEW res \in ParseNum(d, unit, s)
    PROVE  /\ res.ok = Accepts(r, d, unit, n)
           /\ res.ok => res.out = Signed(r, n) /\ res.rest = t
           /\ ~res.overflows
<1>1. MaxInt \in Nat
  BY NumberAssumption
<1>2. Int32Results(n) = {n}
  BY <1>1 DEF Int32Results, Int32
<1>3. PICK value \in Int32Results(Exact(r, d)) : res = Outcome(r, d, unit, value, s, t)
  BY NumberIs
<1>4. res = Outcome(r, d, unit, n, s, t)
  BY <1>2, <1>3
<1>5. Negated(n) = -n
  BY NegatedIs
<1> DEFINE a == Accepts(r, d, unit, n)
           o == IF ~a THEN 0 ELSE IF r.neg THEN Negated(n) ELSE n
           f == IF a THEN t ELSE s
<1>6. res = [ok |-> a, out |-> o, rest |-> f, overflows |-> Exact(r, d) > MaxInt]
  BY <1>4 DEF Outcome
<1>7. a => o = Signed(r, n) /\ f = t
  BY <1>5 DEF Signed
<1>8. ~(Exact(r, d) > MaxInt)
  BY <1>1
<1> HIDE DEF a, o, f
<1>9. res.ok = a /\ res.out = o /\ res.rest = f /\ res.overflows = (Exact(r, d) > MaxInt)
  BY <1>6
<1> QED
  BY <1>7, <1>8, <1>9 DEF a

\* The first number of a FixedField.
LEMMA FixedNumberIs ==
    ASSUME NEW r, IsReading(r), NEW s, NEW t, Written(s, r, t), Fits(r),
           NEW res \in Number(s)
    PROVE  /\ res.ok <=> IsFixed(r)
           /\ res.ok => res.out = Worth(r) /\ res.rest = t
           /\ Thousandths(r) <= MaxInt => ~res.overflows
<1> DEFINE float == ParseNum(Decimals, FloatUnit, s)
           int == ParseNum(0, IntUnit, s)
           overflows == \E f \in float : f.overflows
<1>1. /\ Decimals \in Nat /\ Decimals > 0 /\ MaxInt \in Nat
      /\ CloseBracket \notin FloatUnit /\ CloseBracket \notin IntUnit
      /\ IntUnit = {} => FloatUnit = {}
  BY FieldAssumption, LineAssumption, NumberAssumption
<1>2. /\ Whole(r) \in Nat /\ Thousandths(r) \in Nat /\ Whole(r) <= Thousandths(r)
      /\ Exact(r, 0) = Whole(r) /\ Exact(r, Decimals) = Thousandths(r)
      /\ IsZero(r) => Whole(r) = 0 /\ Thousandths(r) = 0
      /\ r.frac = <<>> /\ Whole(r) = 0 => IsZero(r)
      /\ Len(r.frac) <= Decimals /\ Thousandths(r) = 0 => IsZero(r)
  BY Meaning
<1>3. \/ res \in float /\ res.ok
      \/ /\ ~(\A f \in float : f.ok)
         /\ \E n \in int : res = [n EXCEPT !.overflows = @ \/ overflows]
  BY DEF Number, ParseFloatOrInt
<1>4. /\ Len(r.frac) \in Nat /\ (r.frac = <<>> => Len(r.frac) = 0)
      /\ (Len(r.frac) = 0 => r.frac = <<>>)
      /\ (r.unit = <<>> <=> Len(r.unit) = 0)
  BY ReadingTypes
<1>5. ASSUME NEW n \in int, Whole(r) <= MaxInt, res = [n EXCEPT !.overflows = @ \/ overflows]
      PROVE  /\ res.ok = Accepts(r, 0, IntUnit, Whole(r))
             /\ res.ok => res.out = Signed(r, Whole(r)) /\ res.rest = t
             /\ ~overflows => ~res.overflows
  <2>1. /\ n.ok = Accepts(r, 0, IntUnit, Whole(r))
        /\ n.ok => n.out = Signed(r, Whole(r)) /\ n.rest = t
        /\ ~n.overflows
    BY <1>1, <1>2, <1>5, NumberIsExact
  <2>2. \E v : n = Outcome(r, 0, IntUnit, v, s, t)
    BY <1>1, NumberIs
  <2>3. /\ res.ok = n.ok /\ res.out = n.out /\ res.rest = n.rest
        /\ res.overflows = (n.overflows \/ overflows)
    BY <1>5, <2>2 DEF Outcome
  <2> QED
    BY <2>1, <2>3
<1>6. ASSUME Thousandths(r) <= MaxInt, NEW f \in float
      PROVE  /\ f.ok = Accepts(r, Decimals, FloatUnit, Thousandths(r))
             /\ f.ok => f.out = Signed(r, Thousandths(r)) /\ f.rest = t
             /\ ~f.overflows
  BY <1>1, <1>2, <1>6, NumberIsExact
<1> HIDE DEF float, int
<1>7. Thousandths(r) <= MaxInt => ~overflows
  BY <1>6
<1> HIDE DEF overflows
<1>8. CASE IsInteger(r)
  <2>1. Whole(r) <= MaxInt /\ IsFixed(r) /\ Worth(r) = Signed(r, Whole(r))
    BY <1>8 DEF Fits, IsFixed, Worth
  <2>2. ASSUME NEW value PROVE ~Accepts(r, Decimals, FloatUnit, value)
    <3>1. ~HasUnit(r, FloatUnit) /\ HasUnit(r, IntUnit) /\ r.frac = <<>>
      BY <1>8 DEF IsInteger
    <3>2. ~(FloatUnit # {} /\ r.unit = <<>>)
      BY <1>1, <1>4, <3>1 DEF HasUnit
    <3> QED
      BY <1>1, <1>4, <3>1, <3>2 DEF Accepts
  <2>3. ASSUME NEW f \in float PROVE ~f.ok
    <3>1. \E v : f = Outcome(r, Decimals, FloatUnit, v, s, t)
      BY <1>1, <2>3, NumberIs DEF float
    <3> QED
      BY <2>2, <3>1 DEF Outcome
  <2>4. PICK n \in int : res = [n EXCEPT !.overflows = @ \/ overflows]
    BY <1>3, <2>3
  <2>5. Accepts(r, 0, IntUnit, Whole(r))
    BY <1>4, <1>8 DEF Accepts, IsInteger
  <2> QED
    BY <1>5, <1>7, <2>1, <2>4, <2>5
<1>9. CASE ~IsInteger(r)
  <2>1. /\ Thousandths(r) <= MaxInt /\ Worth(r) = Signed(r, Thousandths(r))
        /\ Len(r.frac) <= Decimals \/ (IsZero(r) /\ r.unit = None)
    BY <1>9 DEF Fits, Worth
  <2>2. Accepts(r, Decimals, FloatUnit, Thousandths(r)) <=> IsFixed(r)
    <3>1. IsFixed(r) <=> \/ HasUnit(r, FloatUnit) /\ Len(r.frac) <= Decimals
                         \/ IsZero(r) /\ r.unit = None /\ FloatUnit # {}
      BY <1>9 DEF IsFixed
    <3> QED
      BY <1>1, <1>2, <1>4, <2>1, <3>1 DEF Accepts, None
  <2>3. CASE IsFixed(r)
    <3>1. res \in float
      BY <1>3, <1>6, <2>1, <2>2, <2>3
    <3> QED
      BY <1>6, <2>1, <2>2, <2>3, <3>1
  <2>4. CASE ~IsFixed(r)
    <3>1. PICK n \in int : res = [n EXCEPT !.overflows = @ \/ overflows]
      BY <1>3, <1>6, <2>1, <2>2, <2>4
    <3>2. Whole(r) <= MaxInt
      BY <1>1, <1>2, <2>1
    <3>3. ~Accepts(r, 0, IntUnit, Whole(r))
      <4>1. ASSUME r.frac = <<>>, HasUnit(r, IntUnit) PROVE FALSE
        BY <1>1, <1>4, <1>9, <2>4, <4>1 DEF IsInteger, IsFixed
      <4>2. ASSUME r.frac = <<>>, r.unit = <<>>, Whole(r) = 0 PROVE FALSE
        BY <1>1, <1>2, <1>4, <2>4, <4>2 DEF IsFixed, HasUnit, None
      <4> QED
        BY <1>4, <4>1, <4>2 DEF Accepts
    <3> QED
      BY <1>5, <1>7, <2>1, <2>4, <3>1, <3>2, <3>3
  <2> QED
    BY <2>3, <2>4
<1> QED
  BY <1>8, <1>9

LEMMA WorthIsInt ==
    ASSUME NEW r, IsReading(r)
    PROVE  Worth(r) \in Int
BY Meaning DEF Worth, Signed

\* A number without decimals.
LEMMA IntNumberIs ==
    ASSUME NEW r, IsReading(r), NEW s, NEW t, Written(s, r, t),
           r.frac = <<>>, Whole(r) <= MaxInt,
           NEW unit, CloseBracket \notin unit, NEW res \in ParseNum(0, unit, s)
    PROVE  /\ res.ok <=> HasUnit(r, unit) \/ (IsZero(r) /\ r.unit = None)
           /\ res.ok => res.out = Signed(r, Whole(r)) /\ res.rest = t
           /\ ~res.overflows
<1>1. /\ Whole(r) \in Nat /\ Exact(r, 0) = Whole(r)
      /\ IsZero(r) <=> Whole(r) = 0
  BY Meaning
<1>2. /\ res.ok = Accepts(r, 0, unit, Whole(r))
      /\ res.ok => res.out = Signed(r, Whole(r)) /\ res.rest = t
      /\ ~res.overflows
  BY <1>1, NumberIsExact
<1>3. Len(r.frac) = 0
  BY ReadingTypes
<1>4. Accepts(r, 0, unit, Whole(r)) <=> HasUnit(r, unit) \/ (IsZero(r) /\ r.unit = None)
  BY <1>1, <1>3 DEF Accepts, HasUnit, None
<1> QED
  BY <1>2, <1>4

\* Of nothing there is nothing to read.
LEMMA NothingIsRead ==
    ASSUME NEW d \in Nat, NEW unit, NEW min \in Nat, NEW max \in Nat
    PROVE  /\ \A res \in ParseNum(d, unit, <<>>) : ~res.ok /\ ~res.overflows
           /\ \A res \in Number(<<>>) : ~res.ok
           /\ ~ParseString(<<>>, min, max).ok
<1>1. ASSUME NEW n \in Nat, NEW u
      PROVE  ParseNum(n, u, <<>>) =
                {[ok |-> FALSE, out |-> 0, rest |-> <<>>, overflows |-> FALSE]}
  BY DEF ParseNum
<1>2. \A res \in Number(<<>>) : ~res.ok
  <2> DEFINE x == [ok |-> FALSE, out |-> 0, rest |-> <<>>, overflows |-> FALSE]
  <2>1. ParseNum(Decimals, FloatUnit, <<>>) = {x} /\ ParseNum(0, IntUnit, <<>>) = {x}
    BY <1>1, FieldAssumption
  <2>2. ~x.ok /\ ~x.overflows /\ ~(\E res \in {x} : res.overflows)
    OBVIOUS
  <2>3. Number(<<>>) = {[res EXCEPT !.overflows = @ \/ \E f \in {x} : f.overflows] : res \in {x}}
    <3>1. {res \in {x} : res.ok} = {} /\ ~(\A res \in {x} : res.ok)
      BY <2>2
    <3> HIDE DEF x
    <3> QED
      BY <2>1, <3>1 DEF Number, ParseFloatOrInt
  <2> QED
    BY <2>3
<1>3. ~ParseString(<<>>, min, max).ok
  BY DEF ParseString, Failed
<1> QED
  BY <1>1, <1>2, <1>3

-------------------------------------------------------------------------------
(* What the parsers make of a line *)

\* l stands for a line that is rendered from its texts.
LEMMA LineIs ==
    ASSUME NEW l \in Lines
    PROVE  LET T == l.texts
           IN  /\ Len(T) \in Nat /\ DOMAIN T = 1..Len(T)
               /\ \A k \in 0..Len(T) : After(T, k) \in Seq(Char)
               /\ After(T, Len(T)) = <<>>
               /\ \A k \in 0..Len(T) : After(T, k) = <<>> \/ After(T, k)[1] = OpenBracket
               /\ \A k \in 1..Len(T) :
                    /\ T[k] \in Text /\ T[k] \in Seq(Char) /\ Len(T[k]) \in Nat
                    /\ After(T, k - 1) = Bracketed(T[k]) \o After(T, k)
                    /\ After(T, k - 1) # <<>>
<1> DEFINE T == l.texts
<1>1. T \in Seq(Text)
  BY LineAssumption DEF IsLine, Text
<1>2. Len(T) \in Nat /\ DOMAIN T = 1..Len(T) /\ \A k \in 1..Len(T) : T[k] \in Text
  BY <1>1
<1>3. \A x \in Text : x \in Seq(Char) /\ Len(x) \in Nat
  BY DEF Text
<1>4. T \in Seq(Seq(Char))
  BY <1>1, <1>3
<1> HIDE DEF T
<1>5. /\ \A k \in 0..Len(T) : After(T, k) \in Seq(Char)
      /\ After(T, Len(T)) = <<>>
      /\ \A k \in 0..(Len(T) - 1) : After(T, k) = Bracketed(T[k + 1]) \o After(T, k + 1)
  BY <1>4, AfterIs
<1>6. ASSUME NEW k \in 1..Len(T)
      PROVE  /\ After(T, k - 1) = Bracketed(T[k]) \o After(T, k)
             /\ After(T, k - 1)[1] = OpenBracket
             /\ After(T, k - 1) # <<>>
  <2>1. k - 1 \in 0..(Len(T) - 1) /\ (k - 1) + 1 = k /\ k \in 0..Len(T) /\ Len(T[k]) \in Nat
    BY <1>2, <1>3
  <2>2. After(T, k - 1) = Bracketed(T[k]) \o After(T, k)
    BY <1>5, <2>1
  <2> DEFINE s == Bracketed(T[k]) \o After(T, k)
  <2>3. /\ s \in Seq(Char) /\ Len(s) = Len(T[k]) + 2 + Len(After(T, k))
        /\ s[1] = OpenBracket
    BY <1>2, <1>5, <2>1, BracketedIs
  <2>4. Len(After(T, k)) \in Nat
    BY <1>5, <2>1
  <2> HIDE DEF s
  <2>5. Len(s) > 0
    BY <2>1, <2>3, <2>4
  <2>6. s # <<>>
    BY <2>5
  <2> QED
    BY <2>2, <2>3, <2>6 DEF s
<1>7. ASSUME NEW k \in 0..Len(T) PROVE After(T, k) = <<>> \/ After(T, k)[1] = OpenBracket
  <2>1. k = Len(T) \/ (k + 1 \in 1..Len(T) /\ (k + 1) - 1 = k)
    <3>1. Len(T) \in Nat /\ k \in 0..Len(T)
      BY <1>2
    <3> QED
      BY <3>1
  <2> QED
    BY <1>5, <1>6, <2>1
<1> QED
  BY <1>2, <1>3, <1>5, <1>6, <1>7 DEF T

LEMMA ReadingIs ==
    ASSUME NEW l \in Lines, NEW k \in DOMAIN l.readings
    PROVE  /\ k \in 1..Len(l.texts) /\ IsReading(l.readings[k])
           /\ Written(After(l.texts, k - 1), l.readings[k], After(l.texts, k))
<1> DEFINE T == l.texts
           r == l.readings[k]
<1>1. k \in 1..Len(T) /\ IsReading(r) /\ T[k] = Inner(r)
  BY LineIs, LineAssumption DEF IsLine
<1>2. T[k] \in Text /\ After(T, k - 1) = Bracketed(T[k]) \o After(T, k)
  BY <1>1, LineIs
<1>3. After(T, k) \in Seq(Char)
  <2>1. k \in 0..Len(T)
    BY <1>1, LineIs
  <2> QED
    BY <2>1, LineIs
<1> HIDE DEF T, r
<1>4. Written(After(T, k - 1), r, After(T, k))
  BY <1>1, <1>2, <1>3, ReadingIsWritten
<1> QED
  BY <1>1, <1>4 DEF T, r

\* The k-th text as a string.
LEMMA StringAt ==
    ASSUME NEW l \in Lines, NEW k \in 1..Len(l.texts), NEW min \in Nat, NEW max \in Nat
    PROVE  LET res == ParseString(After(l.texts, k - 1), min, max)
           IN  /\ res.ok <=> Len(l.texts[k]) \in min..max
               /\ res.ok => res.out = l.texts[k] /\ res.rest = After(l.texts, k)
<1> DEFINE text == l.texts[k]
           t == After(l.texts, k)
           s == After(l.texts, k - 1)
<1>1. k \in 0..Len(l.texts)
  BY LineIs
<1>2. text \in Text /\ s = Bracketed(text) \o t
  BY LineIs
<1>3. t \in Seq(Char) /\ (t = <<>> \/ t[1] = OpenBracket)
  BY <1>1, LineIs
<1> HIDE DEF text, t, s
<1>4. ParseString(s, min, max) =
        IF Len(text) \in min..max THEN [ok |-> TRUE, out |-> text, rest |-> t] ELSE Failed(s)
  BY <1>2, <1>3, StringIs
<1>5. ~Failed(s).ok
  BY DEF Failed
<1> QED
  BY <1>4, <1>5 DEF text, t, s

LEMMA FirstStringAt ==
    ASSUME NEW l \in Lines, Len(l.texts) # 0, NEW min \in Nat, NEW max \in Nat
    PROVE  LET res == ParseString(After(l.texts, 0), min, max)
           IN  /\ res.ok <=> Len(l.texts[1]) \in min..max
               /\ res.ok => res.out = l.texts[1] /\ res.rest = After(l.texts, 1)
<1>1. 1 \in 1..Len(l.texts) /\ 1 - 1 = 0
  BY LineIs
<1> QED
  BY <1>1, StringAt

LEMMA ListStringAt ==
    ASSUME NEW l \in Lines, NEW k \in 1..Len(l.texts)
    PROVE  LET res == ParseString(After(l.texts, k - 1), 1, MaxLength)
           IN  /\ res.ok <=> Len(l.texts[k]) \in 1..MaxLength
               /\ res.ok => res.out = l.texts[k] /\ res.rest = After(l.texts, k)
<1>1. 1 \in Nat /\ MaxLength \in Nat
  BY FieldAssumption
<1> DEFINE max == MaxLength
<1>2. max \in Nat
  BY <1>1
<1> HIDE DEF max
<1>3. LET res == ParseString(After(l.texts, k - 1), 1, max)
      IN  /\ res.ok <=> Len(l.texts[k]) \in 1..max
          /\ res.ok => res.out = l.texts[k] /\ res.rest = After(l.texts, k)
  BY <1>1, <1>2, StringAt
<1> QED
  BY <1>3 DEF max

LEMMA SkipTwoAt ==
    ASSUME NEW l \in Lines, NEW k \in 1..(Len(l.texts) + 1)
    PROVE  LET res == SkipTwo(After(l.texts, k - 1))
           IN  /\ res.ok <=> AreStrings(l.texts, k)
               /\ res.ok => res.rest = After(l.texts, k + 1)
<1> DEFINE T == l.texts
           first == ParseString(After(T, k - 1), 1, MaxLength)
           second == ParseString(first.rest, 1, MaxLength)
<1>1. Len(T) \in Nat /\ MaxLength \in Nat /\ After(T, Len(T)) = <<>>
  BY FieldAssumption, LineIs
<1>2. SkipTwo(After(T, k - 1)) = IF first.ok THEN second ELSE first
  BY DEF SkipTwo
<1>3. CASE k = Len(T) + 1
  <2>1. k - 1 = Len(T) /\ ~(k + 1 <= Len(T))
    BY <1>1, <1>3
  <2>2. ~first.ok
    BY <1>1, <2>1, NothingIsRead
  <2> QED
    BY <1>2, <2>1, <2>2 DEF AreStrings
<1>4. CASE k # Len(T) + 1
  <2>1. k \in 1..Len(T)
    BY <1>1, <1>4
  <2>2. /\ first.ok <=> Len(T[k]) \in 1..MaxLength
        /\ first.ok => first.rest = After(T, k)
    BY <2>1, ListStringAt
  <2>3. CASE k = Len(T)
    <3>1. first.ok => ~second.ok
      BY <1>1, <2>2, <2>3, NothingIsRead
    <3>2. ~AreStrings(T, k)
      BY <1>1, <2>3 DEF AreStrings
    <3> QED
      BY <1>2, <3>1, <3>2
  <2>4. CASE k # Len(T)
    <3>1. k + 1 \in 1..Len(T) /\ (k + 1) - 1 = k
      BY <1>1, <2>1, <2>4
    <3> DEFINE next == ParseString(After(T, k), 1, MaxLength)
    <3>2. /\ next.ok <=> Len(T[k + 1]) \in 1..MaxLength
          /\ next.ok => next.rest = After(T, k + 1)
      <4> HIDE DEF first, second
      <4>1. ParseString(After(T, (k + 1) - 1), 1, MaxLength) = next
        BY <3>1
      <4> DEFINE found == ParseString(After(T, (k + 1) - 1), 1, MaxLength)
      <4>3. /\ found.ok <=> Len(T[k + 1]) \in 1..MaxLength
            /\ found.ok => found.rest = After(T, k + 1)
        BY <3>1, ListStringAt
      <4> QED
        BY <4>1, <4>3, Zenon

    <3>3. first.ok => second = next
      BY <2>2
    <3>4. k + 1 <= Len(T)
      BY <3>1
    <3> HIDE DEF first, second, next
    <3> QED
      BY <1>2, <2>2, <3>2, <3>3, <3>4 DEF AreStrings
  <2> QED
    BY <2>3, <2>4
<1> QED
  BY <1>3, <1>4

LEMMA FixedAt ==
    ASSUME NEW l \in Lines, NEW k \in DOMAIN l.readings, Fits(l.readings[k]),
           NEW res \in Number(After(l.texts, k - 1))
    PROVE  /\ res.ok <=> IsFixed(l.readings[k])
           /\ res.ok => res.out = Worth(l.readings[k]) /\ res.rest = After(l.texts, k)
           /\ Thousandths(l.readings[k]) <= MaxInt => ~res.overflows
BY ReadingIs, FixedNumberIs

LEMMA IntAt ==
    ASSUME NEW l \in Lines, NEW k \in DOMAIN l.readings,
           l.readings[k].frac = <<>>, Whole(l.readings[k]) <= MaxInt,
           NEW unit, CloseBracket \notin unit,
           NEW res \in ParseNum(0, unit, After(l.texts, k - 1))
    PROVE  LET r == l.readings[k]
           IN  /\ res.ok <=> HasUnit(r, unit) \/ (IsZero(r) /\ r.unit = None)
               /\ res.ok => res.out = Signed(r, Whole(r)) /\ res.rest = After(l.texts, k)
               /\ ~res.overflows
BY ReadingIs, IntNumberIs

-------------------------------------------------------------------------------
(* What a FixedField and a TimestampedFixedField find *)

\* The action that comes next is told by at.
LEMMA Dispatch ==
    ASSUME Next
    PROVE  /\ at # "returned" /\ kind' = kind
           /\ at = "number" => ParseFixed
           /\ at = "timestamp" => ParseTimestamp
           /\ at = "list" => NextOfList \/ EndOfList
           /\ at = "int" => ParseInt
           /\ at = "hex" => ParseHex
           /\ at = "count" => ParseCount
           /\ at = "header" => ParseHeader
           /\ at = "average" => AddValue \/ StoreAverage
<1>1. /\ ParseFixed => at = "number" /\ kind' = kind
      /\ ParseTimestamp => at = "timestamp" /\ kind' = kind
      /\ NextOfList \/ EndOfList => at = "list" /\ kind' = kind
      /\ ParseInt => at = "int" /\ kind' = kind
  BY DEF ParseFixed, ParseTimestamp, NextOfList, EndOfList, ParseInt
<1>2. /\ ParseHex => at = "hex" /\ kind' = kind
      /\ ParseCount => at = "count" /\ kind' = kind
      /\ ParseHeader => at = "header" /\ kind' = kind
      /\ AddValue \/ StoreAverage => at = "average" /\ kind' = kind
  BY DEF ParseHex, ParseCount, ParseHeader, AddValue, StoreAverage
<1> QED
  BY <1>1, <1>2 DEF Next

\* The place of the number of a line, and whether what must come before it does.
Place == IF kind = "fixed" THEN 1 ELSE 2
Stamped == kind = "timestamped" => Len(line.texts[1]) = TimestampLength

\* A reading whose value fits in thousandths, too, is read without an overflow.
ReadingDoesNotOverflow ==
    at = "returned" /\ kind \in {"fixed", "timestamped"} =>
        LET place == IF kind = "fixed" THEN 1 ELSE 2
            r == line.readings[place]
        IN  place \in DOMAIN line.readings /\ Fits(r) /\ Thousandths(r) <= MaxInt => ~overflowed

FixedInv ==
    kind \in {"fixed", "timestamped"} =>
        \/ /\ at = "timestamp" /\ kind = "timestamped"
           /\ rest = After(line.texts, 0) /\ ~overflowed
        \/ /\ at = "number"
           /\ rest = After(line.texts, Place - 1) /\ ~overflowed
           /\ Stamped
           /\ kind = "timestamped" => timestamp = line.texts[1]
        \/ at = "returned" /\ ReadingIsExact /\ ReadingDoesNotOverflow

LEMMA FixedInit ==
    ASSUME LineInit
    PROVE  FixedInv
<1>1. /\ kind \in Kind /\ at = First[kind] /\ ~overflowed
      /\ rest = After(line.texts, 0)
  BY DEF LineInit, Init
<1>2. Place = 1 => Place - 1 = 0
  OBVIOUS
<1>3. /\ kind = "fixed" => at = "number" /\ Place = 1
      /\ kind = "timestamped" => at = "timestamp"
  BY <1>1, FieldAssumption DEF First, Place
<1> QED
  BY <1>1, <1>2, <1>3 DEF FixedInv, Stamped

LEMMA FixedStep ==
    ASSUME line \in Lines, FixedInv, Next, UNCHANGED line
    PROVE  FixedInv'
<1>1. SUFFICES ASSUME kind \in {"fixed", "timestamped"} PROVE FixedInv'
  BY Dispatch DEF FixedInv
<1>2. kind' = kind /\ at # "returned"
  BY Dispatch
<1> DEFINE place == IF kind = "fixed" THEN 1 ELSE 2
           r == line.readings[place]
<1>3. CASE at = "timestamp"
  <2> DEFINE res == ParseString(rest, TimestampLength, TimestampLength)
  <2>1. /\ kind = "timestamped" /\ rest = After(line.texts, 0) /\ ~overflowed
    BY <1>1, <1>3 DEF FixedInv
  <2>2. /\ UNCHANGED overflowed
        /\ IF res.ok
           THEN timestamp' = res.out /\ rest' = res.rest /\ at' = "number"
           ELSE at' = "returned" /\ ~ok'
    BY <1>3, Dispatch DEF ParseTimestamp, Goto, Fail
  <2>3. Len(line.texts) \in Nat /\ TimestampLength \in Nat
    BY LineIs, FieldAssumption
  <2>4. CASE Len(line.texts) = 0
    <3>1. rest = <<>>
      BY <2>1, <2>4, LineIs
    <3>2. ~res.ok
      BY <2>3, <3>1, NothingIsRead
    <3>3. place \notin DOMAIN line.readings
      <4>1. ~(2 \in 1..Len(line.texts))
        BY <2>4
      <4> QED
        BY <2>1, <4>1, ReadingIs
    <3> QED
      BY <1>2, <2>1, <2>2, <3>2, <3>3
      DEF FixedInv, ReadingIsExact, ReadingDoesNotOverflow
  <2>5. CASE Len(line.texts) # 0
    <3>1. 1 \in 1..Len(line.texts) /\ 1 - 1 = 0
      BY <2>3, <2>5
    <3>2. /\ res.ok <=> Len(line.texts[1]) \in TimestampLength..TimestampLength
          /\ res.ok => res.out = line.texts[1] /\ res.rest = After(line.texts, 1)
      BY <2>1, <2>3, <2>5, FirstStringAt

    <3>3. res.ok <=> Len(line.texts[1]) = TimestampLength
      <4>1. Len(line.texts[1]) \in Nat
        BY <3>1, LineIs
      <4> HIDE DEF res
      <4> QED
        BY <2>3, <3>2, <4>1
    <3> HIDE DEF res
    <3>4. CASE res.ok
      <4>1. Place' = 2 /\ 2 - 1 = 1
        BY <1>2, <2>1 DEF Place
      <4> QED
        BY <1>2, <2>1, <2>2, <3>2, <3>3, <3>4, <4>1 DEF FixedInv, Stamped
    <3>5. CASE ~res.ok
      <4>1. at' = "returned" /\ ~ok' /\ ~overflowed'
        BY <2>1, <2>2, <3>5
      <4>2. ReadingIsExact'
        BY <1>2, <2>1, <3>3, <3>5, <4>1 DEF ReadingIsExact
      <4>3. ReadingDoesNotOverflow'
        BY <4>1 DEF ReadingDoesNotOverflow
      <4> QED
        BY <4>1, <4>2, <4>3 DEF FixedInv
    <3> QED
      BY <3>4, <3>5
  <2> QED
    BY <2>4, <2>5
<1>4. CASE at = "number"
  <2>1. /\ rest = After(line.texts, place - 1) /\ ~overflowed
        /\ Stamped
        /\ kind = "timestamped" => timestamp = line.texts[1]
    BY <1>1, <1>4 DEF FixedInv, Place
  <2>2. PICK res \in Number(rest) :
            /\ ok' = res.ok /\ rest' = res.rest
            /\ val' = IF res.ok THEN res.out ELSE val
            /\ overflowed' = (overflowed \/ res.overflows)
    BY <1>4, Dispatch DEF ParseFixed, Return
  <2>3. at' = "returned" /\ timestamp' = timestamp
    BY <1>4, Dispatch DEF ParseFixed, Return
  <2>4. ASSUME place \in DOMAIN line.readings, Fits(r)
        PROVE  /\ res.ok <=> IsFixed(r)
               /\ res.ok => res.out = Worth(r) /\ res.rest = After(line.texts, place)
               /\ Thousandths(r) <= MaxInt => ~res.overflows
    BY <2>1, <2>2, <2>4, FixedAt
  <2>5. ReadingIsExact'
    <3> SUFFICES ASSUME place \in DOMAIN line.readings, Fits(r)
                 PROVE  /\ ok' <=> IsFixed(r) /\ Stamped
                        /\ ok' => val' = Worth(r) /\ rest' = After(line.texts, place)
                        /\ ok' /\ kind = "timestamped" => timestamp' = line.texts[1]
      BY <1>2, <2>3 DEF ReadingIsExact, Stamped
    <3> QED
      BY <2>1, <2>2, <2>3, <2>4
  <2>6. ReadingDoesNotOverflow'
    <3> SUFFICES ASSUME place \in DOMAIN line.readings, Fits(r), Thousandths(r) <= MaxInt
                 PROVE  ~overflowed'
      BY <1>2, <2>3 DEF ReadingDoesNotOverflow
    <3> QED
      BY <2>1, <2>2, <2>4
  <2> QED
    BY <2>3, <2>5, <2>6 DEF FixedInv
<1> QED
  BY <1>1, <1>2, <1>3, <1>4 DEF FixedInv

LEMMA FixedStutter ==
    ASSUME FixedInv, UNCHANGED lineVars
    PROVE  FixedInv'
BY DEF FixedInv, Place, Stamped, ReadingIsExact, ReadingDoesNotOverflow, lineVars, vars, locals

\* A FixedField and a TimestampedFixedField have the value of the reading of the line
\* that the meter wrote, in whichever of its two units, and refuse readings in others
\* (fields.h:114-147).
THEOREM ReadingsAreExact == LineSpec => []ReadingIsExact
<1>1. LineInit => line \in Lines /\ FixedInv
  BY FixedInit DEF LineInit
<1>2. (line \in Lines /\ FixedInv) /\ [LineNext]_lineVars => (line \in Lines /\ FixedInv)'
  <2>1. UNCHANGED lineVars => UNCHANGED line
    BY DEF lineVars
  <2> QED
    BY <2>1, FixedStep, FixedStutter DEF LineNext
<1>3. line \in Lines /\ FixedInv => ReadingIsExact
  BY DEF FixedInv, ReadingIsExact
<1> QED
  BY <1>1, <1>2, <1>3, PTL DEF LineSpec

\* None of it overflows if the value fits in thousandths: parse_num does not compute
\* more than it returns (parser.h:96-115).
THEOREM ReadingsDoNotOverflow == LineSpec => []ReadingDoesNotOverflow
<1>1. LineInit => line \in Lines /\ FixedInv
  BY FixedInit DEF LineInit
<1>2. (line \in Lines /\ FixedInv) /\ [LineNext]_lineVars => (line \in Lines /\ FixedInv)'
  <2>1. UNCHANGED lineVars => UNCHANGED line
    BY DEF lineVars
  <2> QED
    BY <2>1, FixedStep, FixedStutter DEF LineNext
<1>3. line \in Lines /\ FixedInv => ReadingDoesNotOverflow
  BY DEF FixedInv, ReadingDoesNotOverflow
<1> QED
  BY <1>1, <1>2, <1>3, PTL DEF LineSpec

-------------------------------------------------------------------------------
(* What an IntField finds *)

\* A product is not between two multiples.
LEMMA MultipleIsZero ==
    ASSUME NEW m \in Nat \ {0}, NEW k \in Int, m * k \in 0..(m - 1)
    PROVE  k = 0
<1>1. CASE k > 0
  <2>1. m * k >= m
    <3>1. m * k = m + m * (k - 1) /\ k - 1 \in Nat
      BY <1>1
    <3>2. m * (k - 1) \in Nat
      BY <3>1
    <3> QED
      BY <3>1, <3>2
  <2> QED
    BY <2>1
<1>2. CASE k < 0
  <2>1. m * k <= -m
    <3>1. m * k = -m - m * (-k - 1) /\ -k - 1 \in Nat
      BY <1>2
    <3>2. m * (-k - 1) \in Nat
      BY <3>1
    <3> QED
      BY <3>1, <3>2
  <2> QED
    BY <2>1
<1> QED
  BY <1>1, <1>2

LEMMA NarrowIsCongruent ==
    ASSUME NEW n \in Int
    PROVE  Narrow(n) \in 0..(IntRange - 1) /\ (Narrow(n) - n) % IntRange = 0
<1> DEFINE m == IntRange
           d == Narrow(n) - n
<1>1. m \in Nat \ {0}
  BY FieldAssumption
<1> HIDE DEF m
<1>2. ASSUME NEW a \in Int
      PROVE  a = m * (a \div m) + (a % m) /\ a \div m \in Int /\ a % m \in 0..(m - 1)
  BY <1>1
<1>3. Narrow(n) = n % m
  BY DEF Narrow, m
<1>4. Narrow(n) \in 0..(m - 1) /\ d = -(m * (n \div m)) /\ d \in Int
  <2>1. n = m * (n \div m) + (n % m) /\ n \div m \in Int /\ n % m \in 0..(m - 1)
    BY <1>2
  <2>2. m * (n \div m) \in Int
    BY <1>1, <2>1
  <2> QED
    BY <1>1, <1>3, <2>1, <2>2
<1> HIDE DEF d
<1>5. d % m \in 0..(m - 1) /\ d % m = d - m * (d \div m) /\ d \div m \in Int /\ n \div m \in Int
  <2>1. d = m * (d \div m) + (d % m) /\ d \div m \in Int /\ d % m \in 0..(m - 1)
    BY <1>2, <1>4
  <2>2. n \div m \in Int
    BY <1>2
  <2>3. m * (d \div m) \in Int
    BY <1>1, <2>1
  <2> QED
    BY <1>1, <2>1, <2>2, <2>3
<1> DEFINE k == -(n \div m) - (d \div m)
<1>6. k \in Int /\ m * k = d % m
  BY <1>1, <1>4, <1>5
<1> HIDE DEF k
<1>7. k = 0
  BY <1>1, <1>5, <1>6, MultipleIsZero
<1>8. d % m = 0
  BY <1>1, <1>6, <1>7
<1> QED
  BY <1>4, <1>8 DEF d, m

IntInv ==
    kind = "int" =>
        \/ at = "int" /\ rest = After(line.texts, 0)
        \/ at = "returned" /\ IntIsCongruent

LEMMA IntInit ==
    ASSUME LineInit
    PROVE  IntInv
BY FieldAssumption DEF LineInit, Init, First, IntInv

LEMMA IntStep ==
    ASSUME line \in Lines, IntInv, Next, UNCHANGED line
    PROVE  IntInv'
<1>1. SUFFICES ASSUME kind = "int" PROVE IntInv'
  BY Dispatch DEF IntInv
<1> DEFINE r == line.readings[1]
<1>2. at = "int" /\ kind' = "int" /\ rest = After(line.texts, 0)
  BY <1>1, Dispatch DEF IntInv
<1>3. PICK res \in ParseNum(0, IntUnit, rest) :
        /\ at' = "returned" /\ ok' = res.ok /\ rest' = res.rest
        /\ val' = IF res.ok THEN Narrow(res.out) ELSE val
  BY <1>2, Dispatch DEF ParseInt, Return
<1>4. ASSUME 1 \in DOMAIN line.readings, r.frac = <<>>, Whole(r) <= MaxInt
      PROVE  /\ ok' <=> HasUnit(r, IntUnit) \/ (IsZero(r) /\ r.unit = None)
             /\ ok' => /\ val' \in 0..(IntRange - 1)
                       /\ (val' - Signed(r, Whole(r))) % IntRange = 0
                       /\ rest' = After(line.texts, 1)
  <2>1. IsReading(r) /\ CloseBracket \notin IntUnit /\ 1 - 1 = 0
    BY <1>4, ReadingIs, LineAssumption
  <2>2. /\ res.ok <=> HasUnit(r, IntUnit) \/ (IsZero(r) /\ r.unit = None)
        /\ res.ok => res.out = Signed(r, Whole(r)) /\ res.rest = After(line.texts, 1)
    BY <1>2, <1>4, <2>1, IntAt
  <2>3. Signed(r, Whole(r)) \in Int
    BY <2>1, Meaning DEF Signed
  <2> HIDE DEF r
  <2> QED
    BY <1>3, <2>2, <2>3, NarrowIsCongruent
<1>5. IntIsCongruent'
  BY <1>4 DEF IntIsCongruent
<1> QED
  BY <1>3, <1>5 DEF IntInv

LEMMA IntStutter ==
    ASSUME IntInv, UNCHANGED lineVars
    PROVE  IntInv'
BY DEF IntInv, IntIsCongruent, lineVars, vars, locals

\* An IntField has the value of its reading, modulo the range of its type
\* (fields.h:176).
THEOREM IntegersAreCongruent == LineSpec => []IntIsCongruent
<1>1. LineInit => line \in Lines /\ IntInv
  BY IntInit DEF LineInit
<1>2. (line \in Lines /\ IntInv) /\ [LineNext]_lineVars => (line \in Lines /\ IntInv)'
  <2>1. UNCHANGED lineVars => UNCHANGED line
    BY DEF lineVars
  <2> QED
    BY <2>1, IntStep, IntStutter DEF LineNext
<1>3. line \in Lines /\ IntInv => IntIsCongruent
  BY DEF IntInv, IntIsCongruent
<1> QED
  BY <1>1, <1>2, <1>3, PTL DEF LineSpec

-------------------------------------------------------------------------------
(* What a LastFixedField finds *)

\* The first k texts may be in a list.
AreListed(k) == \A j \in 1..k : Len(line.texts[j]) \in 1..MaxLength

LastInv ==
    kind = "last" =>
        \/ /\ at = "list"
           /\ \E k \in 0..Len(line.texts) :
                /\ rest = After(line.texts, k) /\ AreListed(k)
                /\ last = After(line.texts, IF k = 0 THEN 0 ELSE k - 1)
        \/ /\ at = "number"
           /\ AreListed(Len(line.texts))
           /\ rest = After(line.texts, IF line.texts = <<>> THEN 0 ELSE Len(line.texts) - 1)
        \/ at = "returned" /\ LastIsTaken

LEMMA LastInit ==
    ASSUME LineInit
    PROVE  LastInv
<1>1. SUFFICES ASSUME kind = "last" PROVE LastInv
  BY DEF LastInv
<1>2. /\ at = "list" /\ line \in Lines
      /\ rest = After(line.texts, 0) /\ last = After(line.texts, 0)
  BY <1>1, FieldAssumption DEF LineInit, Init, First
<1>3. 0 \in 0..Len(line.texts) /\ AreListed(0)
  BY <1>2, LineIs DEF AreListed
<1> QED
  BY <1>2, <1>3 DEF LastInv

LEMMA LastStep ==
    ASSUME line \in Lines, LastInv, Next, UNCHANGED line
    PROVE  LastInv'
<1>1. SUFFICES ASSUME kind = "last" PROVE LastInv'
  BY Dispatch DEF LastInv
<1> DEFINE T == line.texts
           n == Len(T)
           r == line.readings[n]
<1>2. kind' = "last" /\ at # "returned" /\ AreListed(0)
  BY <1>1, Dispatch DEF AreListed
<1>3. /\ n \in Nat /\ (T = <<>> <=> n = 0)
      /\ After(T, n) = <<>> /\ \A k \in 1..n : After(T, k - 1) # <<>>
  <2>1. T \in Seq(Seq(Char \ {CloseBracket}))
    BY LineAssumption DEF IsLine
  <2>2. T = <<>> <=> n = 0
    BY <2>1
  <2> QED
    BY <2>2, LineIs
<1> HIDE DEF n
<1>4. CASE at = "list"
  <2>1. PICK k \in 0..n : /\ rest = After(T, k) /\ AreListed(k)
                          /\ last = After(T, IF k = 0 THEN 0 ELSE k - 1)
    BY <1>1, <1>4 DEF LastInv, n
  <2>2. CASE NextOfList
    <3> DEFINE res == ParseString(rest, 1, MaxLength)
    <3>1. /\ rest # <<>> /\ last' = rest
          /\ IF res.ok
             THEN rest' = res.rest /\ at' = "list"
             ELSE at' = "returned" /\ ~ok'
      BY <2>2 DEF NextOfList, Goto, Fail
    <3>2. k + 1 \in 1..n /\ (k + 1) - 1 = k /\ k + 1 # 0
      <4>1. n \in Nat /\ k \in 0..n
        BY <1>3, <2>1
      <4>2. k # n
        BY <1>3, <2>1, <3>1
      <4> QED
        BY <4>1, <4>2
    <3>3. /\ res.ok <=> Len(T[k + 1]) \in 1..MaxLength
          /\ res.ok => res.rest = After(T, k + 1)
      <4> DEFINE found == ParseString(After(T, (k + 1) - 1), 1, MaxLength)
      <4>1. found = res
        BY <2>1, <3>2
      <4>2. /\ found.ok <=> Len(T[k + 1]) \in 1..MaxLength
            /\ found.ok => found.rest = After(T, k + 1)
        BY <3>2, ListStringAt DEF n
      <4> QED
        BY <4>1, <4>2, Zenon
    <3> HIDE DEF res
    <3>4. CASE res.ok
      <4>1. AreListed(k + 1)
        <5>1. \A j \in 1..(k + 1) : j \in 1..k \/ j = k + 1
          BY <1>3
        <5> QED
          BY <2>1, <3>3, <3>4, <5>1 DEF AreListed
      <4>2. k + 1 \in 0..n
        BY <3>2
      <4>3. AreListed(k + 1)'
        BY <4>1 DEF AreListed
      <4>4. last' = After(T, k) /\ rest' = After(T, k + 1) /\ at' = "list"
        BY <2>1, <3>1, <3>3, <3>4
      <4> QED
        BY <1>2, <3>2, <4>2, <4>3, <4>4 DEF LastInv, n
    <3>5. CASE ~res.ok
      <4>1. at' = "returned" /\ ~ok'
        BY <3>1, <3>5
      <4>2. ~(\A j \in 1..n : Len(T[j]) \in 1..MaxLength)
        BY <3>2, <3>3, <3>5
      <4>3. LastIsTaken'
        BY <4>1, <4>2 DEF LastIsTaken, n
      <4> QED
        BY <4>1, <4>3 DEF LastInv
    <3> QED
      BY <3>4, <3>5
  <2>3. CASE EndOfList
    <3>1. rest = <<>> /\ rest' = last /\ at' = "number"
      BY <2>3 DEF EndOfList, Goto
    <3>2. k = n
      <4>1. k # n => k + 1 \in 1..n /\ (k + 1) - 1 = k
        <5>1. n \in Nat /\ k \in 0..n
          BY <1>3, <2>1
        <5> QED
          BY <5>1
      <4> QED
        BY <1>3, <2>1, <3>1, <4>1
    <3>3. \A j \in 1..n : Len(T[j]) \in 1..MaxLength
      BY <2>1, <3>2 DEF AreListed
    <3>4. rest' = After(T, IF T = <<>> THEN 0 ELSE n - 1)
      BY <1>3, <2>1, <3>1, <3>2
    <3>5. AreListed(Len(line.texts))'
      BY <3>3 DEF AreListed, n
    <3> QED
      BY <3>1, <3>4, <3>5 DEF LastInv, n
  <2> QED
    BY <1>4, <2>2, <2>3, Dispatch
<1>5. CASE at = "number"
  <2>1. /\ \A k \in 1..n : Len(T[k]) \in 1..MaxLength
        /\ rest = After(T, IF n = 0 THEN 0 ELSE n - 1)
    BY <1>1, <1>3, <1>5 DEF LastInv, AreListed, n
  <2>2. PICK res \in Number(rest) :
            /\ at' = "returned" /\ ok' = res.ok /\ rest' = res.rest
            /\ val' = IF res.ok THEN res.out ELSE val
    BY <1>5, Dispatch DEF ParseFixed, Return
  <2>3. n = 0 => ~ok'
    <3>1. n = 0 => rest = <<>>
      BY <1>3, <2>1
    <3> QED
      BY <2>2, <3>1, NothingIsRead
  <2>4. ASSUME n \in DOMAIN line.readings, Fits(r)
        PROVE  /\ ok' <=> IsFixed(r)
               /\ ok' => val' = Worth(r) /\ rest' = <<>>
    <3>1. n # 0 /\ rest = After(T, n - 1)
      BY <2>1, <2>4, ReadingIs
    <3> QED
      BY <1>3, <2>2, <2>4, <3>1, FixedAt
  <2>5. LastIsTaken'
    BY <2>1, <2>3, <2>4 DEF LastIsTaken, n
  <2> QED
    BY <2>2, <2>5 DEF LastInv
<1> QED
  BY <1>1, <1>2, <1>4, <1>5 DEF LastInv

LEMMA LastStutter ==
    ASSUME LastInv, UNCHANGED lineVars
    PROVE  LastInv'
BY DEF LastInv, AreListed, LastIsTaken, lineVars, vars, locals

\* A LastFixedField has the value of the last reading of its line, however many there
\* are, and refuses a line with a text that is no string of the list (fields.h:153-166).
THEOREM LastReadingIsTaken == LineSpec => []LastIsTaken
<1>1. LineInit => line \in Lines /\ LastInv
  BY LastInit DEF LineInit
<1>2. (line \in Lines /\ LastInv) /\ [LineNext]_lineVars => (line \in Lines /\ LastInv)'
  <2>1. UNCHANGED lineVars => UNCHANGED line
    BY DEF lineVars
  <2> QED
    BY <2>1, LastStep, LastStutter DEF LineNext
<1>3. line \in Lines /\ LastInv => LastIsTaken
  BY DEF LastInv, LastIsTaken
<1> QED
  BY <1>1, <1>2, <1>3, PTL DEF LineSpec

-------------------------------------------------------------------------------
(* What a HexStringOrRegularStringField finds *)

LEMMA DecodedIs ==
    ASSUME NEW s \in Seq(Char)
    PROVE  IF \E id \in [1..(Len(s) \div 2) -> Char] : Encodes(s, id)
           THEN Encodes(s, Decoded(s))
           ELSE Decoded(s) = s
<1> DEFINE n == Len(s) \div 2
           Pair(k) == <<s[2 * k - 1], s[2 * k]>>
<1>1. Len(s) \in Nat /\ n \in Nat /\ (Len(s) % 2 = 0 <=> Len(s) = 2 * n)
  <2>1. Len(s) \in Nat
    OBVIOUS
  <2> QED
    BY <2>1
<1> HIDE DEF n
<1>2. CASE IsHexId(s)
  <2> DEFINE d == [k \in 1..n |-> Decode[Pair(k)]]
  <2>1. Len(s) = 2 * n /\ \A k \in 1..n : Pair(k) \in DOMAIN Decode
    BY <1>1, <1>2 DEF IsHexId, n
  <2>2. Decoded(s) = d
    BY <1>2 DEF Decoded, n
  <2>3. \A k \in 1..n : Decode[Pair(k)] \in Char
    BY <2>1, FieldAssumption
  <2>4. d \in Seq(Char) /\ Len(d) = n /\ DOMAIN d = 1..n
    BY <1>1, <2>3
  <2>5. \A k \in DOMAIN d : Pair(k) \in DOMAIN Decode /\ Decode[Pair(k)] = d[k]
    BY <2>1
  <2>6. Encodes(s, d)
    BY <2>1, <2>4, <2>5 DEF Encodes
  <2>7. d \in [1..n -> Char]
    BY <2>3
  <2> QED
    BY <2>2, <2>6, <2>7 DEF n
<1>3. CASE ~IsHexId(s)
  <2>1. ASSUME NEW id \in [1..n -> Char], Encodes(s, id) PROVE FALSE
    <3>1. Len(id) = n /\ DOMAIN id = 1..n
      BY <1>1
    <3>2. Len(s) = 2 * n /\ \A k \in 1..n : Pair(k) \in DOMAIN Decode
      BY <2>1, <3>1 DEF Encodes
    <3>3. \A k \in 1..n : s[2 * k - 1] \in HexDigit /\ s[2 * k] \in HexDigit
      <4>1. ASSUME NEW k \in 1..n PROVE Pair(k) \in HexDigit \X HexDigit
        BY <3>2, <4>1, LineAssumption
      <4> QED
        BY <4>1
    <3>4. ASSUME NEW j \in 1..Len(s) PROVE s[j] \in HexDigit
      <4>1. \E k \in 1..n : j = 2 * k - 1 \/ j = 2 * k
        <5>1. j \in Nat /\ j > 0 /\ j <= 2 * n
          BY <1>1, <3>2
        <5>2. CASE j % 2 = 0
          <6>1. j \div 2 \in 1..n /\ j = 2 * (j \div 2)
            BY <1>1, <5>1, <5>2
          <6> QED
            BY <6>1
        <5>3. CASE j % 2 # 0
          <6>1. (j + 1) \div 2 \in 1..n /\ j = 2 * ((j + 1) \div 2) - 1
            BY <1>1, <5>1, <5>3
          <6> QED
            BY <6>1
        <5> QED
          BY <5>2, <5>3
      <4> QED
        BY <3>3, <4>1
    <3> QED
      BY <1>1, <1>3, <3>2, <3>4 DEF IsHexId, n
  <2>2. Decoded(s) = s
    BY <1>3 DEF Decoded
  <2> QED
    BY <2>1, <2>2 DEF n
<1> QED
  BY <1>2, <1>3

HexInv ==
    kind = "hex" =>
        \/ at = "hex" /\ rest = After(line.texts, 0)
        \/ at = "returned" /\ HexIsDecoded

LEMMA HexInit ==
    ASSUME LineInit
    PROVE  HexInv
BY FieldAssumption DEF LineInit, Init, First, HexInv

LEMMA HexStep ==
    ASSUME line \in Lines, HexInv, Next, UNCHANGED line
    PROVE  HexInv'
<1>1. SUFFICES ASSUME kind = "hex" PROVE HexInv'
  BY Dispatch DEF HexInv
<1> DEFINE text == line.texts[1]
           res == ParseString(rest, 0, MaxIdLength)
<1>2. at = "hex" /\ kind' = "hex" /\ rest = After(line.texts, 0)
  BY <1>1, Dispatch DEF HexInv
<1>3. /\ at' = "returned" /\ ok' = res.ok /\ rest' = res.rest
      /\ val' = IF res.ok THEN Decoded(res.out) ELSE val
  BY <1>2, Dispatch DEF ParseHex, Return
<1>4. ASSUME line.texts # <<>>
      PROVE  /\ ok' <=> Len(text) <= MaxIdLength
             /\ ok' => rest' = After(line.texts, 1)
             /\ ok' => IF \E id \in [1..(Len(text) \div 2) -> Char] : Encodes(text, id)
                       THEN Encodes(text, val')
                       ELSE val' = text
  <2>1. Len(line.texts) # 0
    <3>1. line.texts \in Seq(Seq(Char \ {CloseBracket}))
      BY LineAssumption DEF IsLine
    <3> QED
      BY <1>4, <3>1
  <2>2. text \in Seq(Char) /\ Len(text) \in Nat
    <3>1. 1 \in 1..Len(line.texts)
      BY <2>1, LineIs
    <3> QED
      BY <3>1, LineIs
  <2>3. /\ res.ok <=> Len(text) \in 0..MaxIdLength
        /\ res.ok => res.out = text /\ res.rest = After(line.texts, 1)
    <3>1. 0 \in Nat /\ MaxIdLength \in Nat
      BY FieldAssumption
    <3> QED
      BY <1>2, <2>1, <3>1, FirstStringAt
  <2> HIDE DEF text, res
  <2>4. res.ok <=> Len(text) <= MaxIdLength
    BY <2>2, <2>3, FieldAssumption
  <2> QED
    BY <1>3, <2>2, <2>3, <2>4, DecodedIs
<1>5. HexIsDecoded'
  BY <1>4 DEF HexIsDecoded
<1> QED
  BY <1>3, <1>5 DEF HexInv

LEMMA HexStutter ==
    ASSUME HexInv, UNCHANGED lineVars
    PROVE  HexInv'
BY DEF HexInv, HexIsDecoded, lineVars, vars, locals

\* An id that is written in hexadecimal is stored as the id, any other text as it is
\* (fields.h:49-79).
THEOREM HexIdsAreDecoded == LineSpec => []HexIsDecoded
<1>1. LineInit => line \in Lines /\ HexInv
  BY HexInit DEF LineInit
<1>2. (line \in Lines /\ HexInv) /\ [LineNext]_lineVars => (line \in Lines /\ HexInv)'
  <2>1. UNCHANGED lineVars => UNCHANGED line
    BY DEF lineVars
  <2> QED
    BY <2>1, HexStep, HexStutter DEF LineNext
<1>3. line \in Lines /\ HexInv => HexIsDecoded
  BY DEF HexInv, HexIsDecoded
<1> QED
  BY <1>1, <1>2, <1>3, PTL DEF LineSpec

-------------------------------------------------------------------------------
(* What an AveragedFixedField finds *)

LEMMA QuotientRounds ==
    ASSUME NEW a \in Int, NEW b \in Nat, b > 0
    PROVE  LET q == Quotient(a, b)
           IN  /\ Abs(a) \in (b * Abs(q))..(b * Abs(q) + b - 1)
               /\ q # 0 => (q > 0 <=> a > 0)
<1> DEFINE q == Quotient(a, b)
<1>1. ASSUME NEW n \in Nat
      PROVE  /\ n \div b \in Nat /\ b * (n \div b) \in Nat
             /\ n \in (b * (n \div b))..(b * (n \div b) + b - 1)
             /\ n \div b # 0 => n > 0
  <2>1. n = b * (n \div b) + (n % b) /\ n % b \in 0..(b - 1) /\ n \div b \in Nat
    OBVIOUS
  <2>2. b * (n \div b) \in Nat
    BY <2>1
  <2>3. n = 0 => n \div b = 0
    OBVIOUS
  <2> QED
    BY <2>1, <2>2, <2>3
<1>2. CASE a >= 0
  <2>1. a \in Nat /\ Abs(a) = a /\ q = a \div b
    BY <1>2 DEF Abs, Quotient
  <2> HIDE DEF q
  <2>2. q \in Nat /\ Abs(q) = q
    BY <1>1, <2>1 DEF Abs
  <2> QED
    BY <1>1, <2>1, <2>2 DEF q
<1>3. CASE a < 0
  <2> DEFINE n == -a
             p == n \div b
  <2>1. n \in Nat /\ n > 0 /\ Abs(a) = n /\ q = -p
    BY <1>3 DEF Abs, Quotient
  <2>2. p \in Nat /\ n \in (b * p)..(b * p + b - 1)
    BY <1>1, <2>1
  <2> HIDE DEF p, q
  <2>3. Abs(q) = p /\ (q # 0 => q < 0)
    BY <2>1, <2>2 DEF Abs
  <2> QED
    BY <1>3, <2>1, <2>2, <2>3 DEF q
<1> QED
  BY <1>2, <1>3

\* The values up to the j-th have been added up, unless an addition overflowed.
Adds(j) ==
    /\ j = 0 \/ j <= Count(line)
    /\ AreStrings(line.texts, 2)
    /\ \A k \in 1..j : IsGood(line, k)
    /\ ~overflowed => total = Total(line, j)

AverageInv ==
    kind = "averaged" =>
        \/ at = "count" /\ rest = After(line.texts, 0) /\ i = 0 /\ total = 0
        \/ /\ at = "header" /\ i = 0 /\ total = 0
           /\ IsAverage(line) =>
                count = Count(line) /\ count # 0 /\ rest = After(line.texts, 1)
        \/ /\ at = "average" /\ i \in Nat
           /\ IsAverage(line) =>
                /\ count = Count(line) /\ count # 0
                /\ rest = After(line.texts, ValuePlace(i))
                /\ Adds(i)
        \/ at = "returned" /\ AverageOfCounted

LEMMA AverageInit ==
    ASSUME LineInit
    PROVE  AverageInv
BY FieldAssumption DEF LineInit, Init, First, AverageInv

\* What a line has of which an average can be taken.
LEMMA AverageIs ==
    ASSUME NEW l \in Lines, IsAverage(l)
    PROVE  /\ Count(l) \in Int
           /\ 1 \in 1..Len(l.texts)
           /\ Total(l, 0) = 0
           /\ \A j \in Nat :
                (\A k \in 1..(j + 1) : ValuePlace(k) <= Len(l.texts)) =>
                    /\ Total(l, j) \in Int
                    /\ Total(l, j + 1) = Total(l, j) + Worth(l.readings[ValuePlace(j + 1)])
<1>1. Count(l) \in Int
  <2>1. IsReading(l.readings[1])
    BY ReadingIs DEF IsAverage
  <2> QED
    BY <2>1, Meaning DEF Count, Signed
<1>2. 1 \in 1..Len(l.texts) /\ Len(l.texts) \in Nat
  BY ReadingIs, LineIs DEF IsAverage
<1>3. Total(l, 0) = 0
  <2>1. \A j \in 1..0 : Worth(l.readings[ValuePlace(j)]) \in Int
    OBVIOUS
  <2> QED
    BY <2>1, TotalIs
<1>4. ASSUME NEW k \in Nat, k > 0, ValuePlace(k) <= Len(l.texts)
      PROVE  Worth(l.readings[ValuePlace(k)]) \in Int
  <2>1. k \in 1..Len(l.texts)
    BY <1>2, <1>4 DEF ValuePlace
  <2>2. IsReading(l.readings[ValuePlace(k)])
    BY <1>4, <2>1, ReadingIs DEF IsAverage
  <2> QED
    BY <2>2, WorthIsInt
<1>5. ASSUME NEW j \in Nat, \A k \in 1..(j + 1) : ValuePlace(k) <= Len(l.texts)
      PROVE  /\ Total(l, j) \in Int
             /\ Total(l, j + 1) = Total(l, j) + Worth(l.readings[ValuePlace(j + 1)])
  <2>1. \A k \in 1..(j + 1) : Worth(l.readings[ValuePlace(k)]) \in Int
    BY <1>4, <1>5
  <2>2. \A k \in 1..j : Worth(l.readings[ValuePlace(k)]) \in Int
    BY <2>1
  <2>3. j + 1 \in Nat /\ j + 1 > 0 /\ (j + 1) - 1 = j
    OBVIOUS
  <2>4. Total(l, j) \in Int
    BY <2>2, TotalIs
  <2>5. Total(l, j + 1) = Total(l, (j + 1) - 1) + Worth(l.readings[ValuePlace(j + 1)])
    BY <2>1, <2>3, TotalIs
  <2> QED
    BY <2>3, <2>4, <2>5
<1> QED
  BY <1>1, <1>2, <1>3, <1>5

\* A number without a unit.
LEMMA CountAt ==
    ASSUME NEW l \in Lines, IsAverage(l), NEW res \in ParseNum(0, {}, After(l.texts, 0))
    PROVE  res.ok /\ res.out = Count(l) /\ res.rest = After(l.texts, 1)
<1> DEFINE r == l.readings[1]
<1>1. /\ 1 \in DOMAIN l.readings /\ r.frac = <<>> /\ Whole(r) <= MaxInt
      /\ HasUnit(r, {})
  BY DEF IsAverage, HasUnit
<1>2. IsReading(r) /\ Written(After(l.texts, 0), r, After(l.texts, 1))
  <2>1. 1 - 1 = 0
    OBVIOUS
  <2> QED
    BY <1>1, <2>1, ReadingIs
<1> DEFINE none == {}
<1>3. CloseBracket \notin none /\ res \in ParseNum(0, none, After(l.texts, 0))
  OBVIOUS
<1>4. HasUnit(r, none)
  BY <1>1
<1> HIDE DEF r, none
<1>5. res.ok /\ res.out = Signed(r, Whole(r)) /\ res.rest = After(l.texts, 1)
  BY <1>1, <1>2, <1>3, <1>4, IntNumberIs
<1> QED
  BY <1>5 DEF Count, r

LEMMA CountStep ==
    ASSUME line \in Lines, AverageInv, kind = "averaged", ParseCount, UNCHANGED line
    PROVE  AverageInv'
<1>1. /\ at = "count" /\ kind' = "averaged" /\ rest = After(line.texts, 0)
      /\ i' = 0 /\ total' = 0
  BY DEF ParseCount, AverageInv
<1>2. PICK res \in ParseNum(0, {}, rest) :
        /\ count' = IF res.ok THEN res.out ELSE count
        /\ IF ~res.ok
           THEN at' = "returned" /\ ~ok'
           ELSE IF res.out = 0
           THEN at' = "returned" /\ ok' /\ rest' = <<>> /\ val' = 0
           ELSE at' = "header" /\ rest' = res.rest
  BY DEF ParseCount, Fail, Return, Goto
<1>3. ASSUME IsAverage(line)
      PROVE  res.ok /\ res.out = Count(line) /\ res.rest = After(line.texts, 1)
  BY <1>1, <1>3, CountAt
<1>4. CASE ~res.ok
  <2>1. ~IsAverage(line) /\ at' = "returned"
    BY <1>2, <1>3, <1>4
  <2> QED
    BY <2>1 DEF AverageInv, AverageOfCounted
<1>5. CASE res.ok /\ res.out = 0
  <2>1. at' = "returned" /\ ok' /\ rest' = <<>> /\ val' = 0
    BY <1>2, <1>5
  <2>2. IsAverage(line) => Count(line) = 0
    BY <1>3, <1>5
  <2>3. AverageOfCounted'
    BY <2>1, <2>2 DEF AverageOfCounted
  <2> QED
    BY <2>1, <2>3 DEF AverageInv
<1>6. CASE res.ok /\ res.out # 0
  BY <1>1, <1>2, <1>3, <1>6 DEF AverageInv
<1> QED
  BY <1>4, <1>5, <1>6

LEMMA HeaderStep ==
    ASSUME line \in Lines, AverageInv, kind = "averaged", ParseHeader, UNCHANGED line
    PROVE  AverageInv'
<1> DEFINE res == SkipTwo(rest)
<1>1. /\ at = "header" /\ kind' = "averaged" /\ i' = 0 /\ total' = 0 /\ count' = count
      /\ IsAverage(line) =>
            count = Count(line) /\ count # 0 /\ rest = After(line.texts, 1)
      /\ IF res.ok
         THEN rest' = res.rest /\ at' = "average"
         ELSE at' = "returned" /\ ~ok'
  BY DEF ParseHeader, AverageInv, Goto, Fail
<1>2. ASSUME IsAverage(line)
      PROVE  /\ res.ok <=> AreStrings(line.texts, 2)
             /\ res.ok => res.rest = After(line.texts, 3)
  <2>1. 2 \in 1..(Len(line.texts) + 1) /\ 2 - 1 = 1 /\ 2 + 1 = 3
    BY <1>2, AverageIs, LineIs
  <2> DEFINE found == SkipTwo(After(line.texts, 2 - 1))
  <2>2. /\ found.ok <=> AreStrings(line.texts, 2)
        /\ found.ok => found.rest = After(line.texts, 2 + 1)
    BY <2>1, SkipTwoAt
  <2>3. found = res
    BY <1>1, <1>2, <2>1
  <2> QED
    BY <2>1, <2>2, <2>3
<1> HIDE DEF res
<1>3. CASE res.ok
  <2>1. at' = "average" /\ i' = 0 /\ ValuePlace(0) = 3
    BY <1>1, <1>3 DEF ValuePlace
  <2>2. ASSUME IsAverage(line)
        PROVE  /\ count' = Count(line) /\ count' # 0
               /\ rest' = After(line.texts, ValuePlace(0))
               /\ AreStrings(line.texts, 2)
               /\ total' = Total(line, 0)
    BY <1>1, <1>2, <1>3, <2>1, <2>2, AverageIs
  <2>3. IsAverage(line) => Adds(i)'
    BY <2>1, <2>2 DEF Adds
  <2> QED
    BY <2>1, <2>2, <2>3 DEF AverageInv
<1>4. CASE ~res.ok
  <2>1. at' = "returned" /\ ~ok'
    BY <1>1, <1>4
  <2>2. IsAverage(line) => ~AreStrings(line.texts, 2) /\ Count(line) # 0
    BY <1>1, <1>2, <1>4
  <2>3. AverageOfCounted'
    BY <2>1, <2>2 DEF AverageOfCounted
  <2> QED
    BY <2>1, <2>3 DEF AverageInv
<1> QED
  BY <1>3, <1>4

LEMMA AddValueStepOfLine ==
    ASSUME IInv, line \in Lines, AverageInv, kind = "averaged", AddValue, UNCHANGED line
    PROVE  AverageInv'
<1> DEFINE T == line.texts
           skipped == SkipTwo(rest)
           place == ValuePlace(i + 1)
           r == line.readings[place]
           n == Count(line)
<1>1. /\ at = "average" /\ kind' = "averaged" /\ count' = count
      /\ i \in Nat /\ i < count /\ count \in Int /\ total \in Int
  <2>1. count \in Int /\ total \in Int
    BY NumberAssumption DEF IInv, Counters, Int32
  <2> QED
    BY <2>1 DEF AddValue, AverageInv
<1>2. \/ ~skipped.ok /\ at' = "returned" /\ ~ok'
      \/ /\ skipped.ok
         /\ \E res \in Number(skipped.rest) :
                /\ \E sum \in Int32Results(total + res.out) :
                    total' = IF res.ok THEN sum ELSE total
                /\ overflowed' =
                    (overflowed \/ res.overflows \/ (res.ok /\ total + res.out \notin Int32))
                /\ IF res.ok
                   THEN rest' = res.rest /\ i' = i + 1 /\ at' = "average"
                   ELSE at' = "returned" /\ ~ok'
  BY DEF AddValue, Goto, Fail
<1>3. CASE ~IsAverage(line)
  <2>1. at' = "returned" \/ (at' = "average" /\ i' \in Nat)
    BY <1>1, <1>2
  <2> QED
    BY <1>3, <2>1 DEF AverageInv, AverageOfCounted
<1>4. CASE IsAverage(line)
  <2>1. /\ count = n /\ count # 0 /\ rest = After(T, ValuePlace(i))
        /\ Adds(i)
    BY <1>1, <1>4 DEF AverageInv
  <2>2. /\ Len(T) \in Nat /\ ValuePlace(i) = 3 * i + 3 /\ place = 3 * i + 6
        /\ i + 1 \in 1..n /\ n # 0
    BY <1>1, <2>1, LineIs DEF ValuePlace
  <2>3. ValuePlace(i) <= Len(T)
    <3>1. i = 0 => 3 <= Len(T)
      BY <2>1, <2>2 DEF Adds, AreStrings
    <3>2. i # 0 => ValuePlace(i) <= Len(T)
      <4>1. i # 0 => i \in 1..i
        BY <1>1
      <4> QED
        BY <2>1, <4>1 DEF Adds, IsGood
    <3> QED
      BY <2>2, <3>1, <3>2
  <2>4. /\ skipped.ok <=> AreStrings(T, place - 2)
        /\ skipped.ok => skipped.rest = After(T, place - 1)
    <3> DEFINE k == place - 2
               found == SkipTwo(After(T, k - 1))
    <3>1. k \in 1..(Len(T) + 1) /\ k - 1 = ValuePlace(i) /\ k + 1 = place - 1
      BY <1>1, <2>2, <2>3
    <3> HIDE DEF place, k
    <3>2. found.ok <=> AreStrings(T, k)
      BY <3>1, SkipTwoAt
    <3>3. found.ok => found.rest = After(T, k + 1)
      BY <3>1, SkipTwoAt
    <3>4. found = skipped
      BY <2>1, <3>1
    <3> QED
      BY <3>1, <3>2, <3>3, <3>4 DEF k
  <2>5. ASSUME at' = "returned", ~ok', ~IsGood(line, i + 1) PROVE AverageInv'
    <3>1. AverageOfCounted'
      BY <2>2, <2>5 DEF AverageOfCounted
    <3> QED
      BY <2>5, <3>1 DEF AverageInv
  <2>6. CASE ~skipped.ok
    <3>1. at' = "returned" /\ ~ok'
      BY <1>2, <2>6
    <3>2. ~IsGood(line, i + 1)
      BY <2>4, <2>6 DEF IsGood
    <3> QED
      BY <2>5, <3>1, <3>2
  <2>7. CASE skipped.ok
    <3> HIDE DEF skipped, place
    <3>1. PICK res \in Number(skipped.rest) :
            /\ \E sum \in Int32Results(total + res.out) :
                total' = IF res.ok THEN sum ELSE total
            /\ overflowed' =
                (overflowed \/ res.overflows \/ (res.ok /\ total + res.out \notin Int32))
            /\ IF res.ok
               THEN rest' = res.rest /\ i' = i + 1 /\ at' = "average"
               ELSE at' = "returned" /\ ~ok'
      BY <1>2, <2>7
    <3>2. res \in Number(After(T, place - 1))
      BY <2>4, <2>7, <3>1
    <3>3. place - 1 <= Len(T) /\ place \in Nat
      <4>1. (place - 2) + 1 <= Len(T)
        BY <2>4, <2>7 DEF AreStrings
      <4> QED
        BY <1>1, <2>2, <4>1
    <3>4. CASE ~(place <= Len(T))
      <4>1. place - 1 = Len(T)
        BY <2>2, <3>3, <3>4
      <4>2. ~res.ok
        BY <3>2, <4>1, LineIs, NothingIsRead, FieldAssumption
      <4>3. ~IsGood(line, i + 1)
        BY <3>4 DEF IsGood, place
      <4> QED
        BY <2>5, <3>1, <4>2, <4>3
    <3>5. CASE place <= Len(T)
      <4>1. place \in DOMAIN line.readings /\ Fits(r)
        <5>1. i + 1 \in 1..Len(T)
          BY <1>1, <2>2, <3>5
        <5> QED
          BY <1>4, <3>5, <5>1 DEF IsAverage, place
      <4>2. /\ res.ok <=> IsFixed(r)
            /\ res.ok => res.out = Worth(r) /\ res.rest = After(T, place)
        BY <3>2, <4>1, FixedAt
      <4>3. IsGood(line, i + 1) <=> res.ok
        BY <2>4, <2>7, <3>5, <4>2 DEF IsGood, place
      <4>4. CASE ~res.ok
        BY <2>5, <3>1, <4>3, <4>4
      <4>5. CASE res.ok
        <5>1. rest' = After(T, place) /\ i' = i + 1 /\ at' = "average"
          BY <3>1, <4>2, <4>5
        <5>2. \A k \in 1..(i + 1) : IsGood(line, k)
          <6>1. \A k \in 1..(i + 1) : k \in 1..i \/ k = i + 1
            BY <1>1
          <6> QED
            BY <2>1, <4>3, <4>5, <6>1 DEF Adds
        <5>3. ASSUME ~overflowed' PROVE total' = Total(line, i + 1)
          <6>1. ~overflowed /\ total + res.out \in Int32
            BY <3>1, <4>5, <5>3
          <6>2. total' = total + res.out
            BY <3>1, <4>5, <6>1 DEF Int32Results
          <6>3. total = Total(line, i)
            BY <2>1, <6>1 DEF Adds
          <6>4. Total(line, i + 1) = Total(line, i) + Worth(line.readings[ValuePlace(i + 1)])
            <7>1. \A k \in 1..(i + 1) : ValuePlace(k) <= Len(T)
              BY <5>2 DEF IsGood
            <7> QED
              BY <1>1, <1>4, <7>1, AverageIs
          <6> QED
            BY <4>2, <4>5, <6>2, <6>3, <6>4 DEF place
        <5>4. Adds(i)'
          <6>1. i + 1 <= n /\ AreStrings(T, 2)
            BY <2>1, <2>2 DEF Adds
          <6> QED
            BY <5>1, <5>2, <5>3, <6>1 DEF Adds
        <5>5. count' = n /\ count' # 0 /\ i' \in Nat /\ rest' = After(T, ValuePlace(i'))
          BY <1>1, <2>1, <5>1 DEF place
        <5> QED
          BY <5>1, <5>4, <5>5 DEF AverageInv
      <4> QED
        BY <4>4, <4>5
    <3> QED
      BY <3>4, <3>5
  <2> QED
    BY <2>6, <2>7
<1> QED
  BY <1>3, <1>4

LEMMA StoreAverageStepOfLine ==
    ASSUME IInv, line \in Lines, AverageInv, kind = "averaged", StoreAverage, UNCHANGED line
    PROVE  AverageInv'
<1> DEFINE n == Count(line)
           sum == Total(line, n)
<1>1. /\ at = "average" /\ kind' = "averaged" /\ i >= count /\ count \in Int /\ i \in Nat
      /\ at' = "returned" /\ ok' /\ rest' = rest /\ overflowed' = overflowed
      /\ val' = IF count < 0 THEN 0 ELSE Quotient(total, count)
  <2>1. count \in Int
    BY NumberAssumption DEF IInv, Counters, Int32
  <2> QED
    BY <2>1 DEF StoreAverage, AverageInv, Return
<1>2. ASSUME IsAverage(line)
      PROVE  /\ n # 0 /\ AreStrings(line.texts, 2) /\ \A j \in 1..n : IsGood(line, j)
             /\ n <= 0 => val' = 0
             /\ n > 0 /\ ~overflowed =>
                 /\ Abs(sum) \in (n * Abs(val'))..(n * Abs(val') + n - 1)
                 /\ val' # 0 => (val' > 0 <=> sum > 0)
             /\ rest' = After(line.texts, IF n > 0 THEN ValuePlace(n) ELSE 3)
  <2>1. count = n /\ n # 0 /\ rest = After(line.texts, ValuePlace(i)) /\ Adds(i)
    BY <1>1, <1>2 DEF AverageInv
  <2>2. n \in Int /\ (i = 0 \/ i <= n)
    BY <1>1, <2>1 DEF Adds
  <2>3. CASE n < 0
    <3>1. i = 0 /\ ValuePlace(0) = 3 /\ val' = 0 /\ ~(n > 0) /\ \A j \in 1..n : IsGood(line, j)
      BY <1>1, <2>1, <2>2, <2>3 DEF ValuePlace
    <3> QED
      BY <1>1, <2>1, <3>1 DEF Adds
  <2>4. CASE n > 0
    <3>1. i = n /\ val' = Quotient(total, n) /\ n \in Nat /\ ~(n <= 0)
      BY <1>1, <2>1, <2>2, <2>4
    <3>2. \A j \in 1..n : IsGood(line, j)
      BY <2>1, <3>1 DEF Adds
    <3>3. ~overflowed => total = sum
      BY <2>1, <3>1 DEF Adds
    <3>4. total \in Int
      BY NumberAssumption DEF IInv, Counters, Int32
    <3>5. /\ Abs(total) \in (n * Abs(val'))..(n * Abs(val') + n - 1)
          /\ val' # 0 => (val' > 0 <=> total > 0)
      BY <2>4, <3>1, <3>4, QuotientRounds
    <3> QED
      BY <1>1, <2>1, <2>4, <3>1, <3>2, <3>3, <3>5 DEF Adds
  <2> QED
    BY <2>1, <2>2, <2>3, <2>4
<1>3. AverageOfCounted'
  BY <1>1, <1>2 DEF AverageOfCounted
<1> QED
  BY <1>1, <1>3 DEF AverageInv

LEMMA AverageStep ==
    ASSUME IInv, line \in Lines, AverageInv, Next, UNCHANGED line
    PROVE  AverageInv'
<1>1. SUFFICES ASSUME kind = "averaged" PROVE AverageInv'
  BY Dispatch DEF AverageInv
<1>2. at \in {"count", "header", "average"}
  BY <1>1, Dispatch DEF AverageInv
<1> QED
  BY <1>1, <1>2, Dispatch, CountStep, HeaderStep, AddValueStepOfLine, StoreAverageStepOfLine

LEMMA AverageStutter ==
    ASSUME AverageInv, UNCHANGED lineVars
    PROVE  AverageInv'
BY DEF AverageInv, Adds, AverageOfCounted, lineVars, vars, locals

\* An AveragedFixedField has the average of as many of its readings as the line says
\* it has, in whichever of the two units each of them is, rounded towards zero
\* (fields.h:188-225).
THEOREM AverageIsOfCounted == LineSpec => []AverageOfCounted
<1> DEFINE Inv == IInv /\ line \in Lines /\ AverageInv
<1>1. LineInit => Inv
  BY InitIInv, AverageInit DEF LineInit
<1>2. Inv /\ [LineNext]_lineVars => Inv'
  <2>1. UNCHANGED lineVars => UNCHANGED line /\ UNCHANGED vars
    BY DEF lineVars
  <2> QED
    BY <2>1, NextIInv, AverageStep, AverageStutter DEF LineNext
<1>3. Inv => AverageOfCounted
  BY DEF AverageInv, AverageOfCounted
<1> QED
  BY <1>1, <1>2, <1>3, PTL DEF LineSpec
===============================================================================
