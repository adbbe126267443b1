--------------------------- MODULE DsmrParserProofs ----------------------------
(***************************************************************************)
(* DsmrParser on texts of any length: its positions stay in the text, its  *)
(* lines cover it and are whole, and what it has stored in the fields is   *)
(* what its lines say, one line for each.  Of a telegram, in whatever      *)
(* layout, it finds the very lines and stores them.                        *)
(***************************************************************************)
EXTENDS TelegramLines, SequenceTheorems, WellFoundedInduction, TLAPS

-------------------------------------------------------------------------------
(* Strings *)

\* A set of natural numbers has a least element, so that a search finds the
\* first place it looks for.
LEMMA LeastElement ==
    ASSUME NEW T, T \subseteq Nat, T # {}
    PROVE  \E x \in T : \A y \in T : x <= y
<1> DEFINE R == OpToRel(<, Nat)
<1>1. \E x \in T : \A y \in T : ~(<<y, x>> \in R)
  BY NatLessThanWellFounded, WFMin, Zenon
<1>2. \A x, y \in Nat : y < x => <<y, x>> \in R
  BY Zenon DEF OpToRel
<1>3. \A x, y \in Nat : ~(y < x) => x <= y
  OBVIOUS
<1> QED
  BY <1>1, <1>2, <1>3

\* The end of the longest prefix of s without a character of a set.
LEMMA PrefixExists ==
    ASSUME NEW S, NEW s \in Seq(S), NEW C
    PROVE  \E n \in 0..Len(s) :
                /\ \A i \in 1..n : s[i] \notin C
                /\ n < Len(s) => s[n + 1] \in C
<1> DEFINE T == {n \in Nat : n < Len(s) /\ s[n + 1] \in C}
<1>1. Len(s) \in Nat
  OBVIOUS
<1>2. CASE T = {}
  <2>1. ASSUME NEW i \in 1..Len(s) PROVE s[i] \notin C
    <3>1. i - 1 \in Nat /\ i - 1 < Len(s) /\ (i - 1) + 1 = i
      BY <1>1
    <3> QED
      BY <1>2, <3>1
  <2> QED
    BY <1>1, <2>1
<1>3. CASE T # {}
  <2>1. PICK n \in T : \A m \in T : n <= m
    BY <1>3, LeastElement
  <2>2. ASSUME NEW i \in 1..n PROVE s[i] \notin C
    <3>1. i - 1 \in Nat /\ i - 1 < Len(s) /\ (i - 1) + 1 = i /\ ~(n <= i - 1)
      BY <1>1, <2>1
    <3> QED
      BY <2>1, <3>1
  <2>3. n \in 0..Len(s) /\ s[n + 1] \in C
    BY <1>1, <2>1
  <2> QED
    BY <2>2, <2>3
<1> QED
  BY <1>2, <1>3

LEMMA NotEmpty ==
    ASSUME NEW s, NEW n \in Nat, Len(s) = n + 1
    PROVE  s # <<>>
OBVIOUS

LEMMA BeforeCloseFinds ==
    ASSUME NEW S, NEW s \in Seq(S)
    PROVE  /\ BeforeClose(s) \in 0..Len(s)
           /\ \A i \in 1..BeforeClose(s) : s[i] # CloseBracket
<1>1. \E n \in 0..Len(s) :
        /\ \A i \in 1..n : s[i] # CloseBracket
        /\ n < Len(s) => s[n + 1] = CloseBracket
  <2>1. PICK n \in 0..Len(s) :
            /\ \A i \in 1..n : s[i] \notin {CloseBracket}
            /\ n < Len(s) => s[n + 1] \in {CloseBracket}
    BY PrefixExists, Zenon
  <2> QED
    BY <2>1
<1> QED
  BY <1>1, Zenon DEF BeforeClose

LEMMA RestIsSeq ==
    ASSUME NEW S, NEW s \in Seq(S), NEW n \in Nat
    PROVE  Rest(s, n) \in Seq(S)
BY DEF Rest

\* parse_string stays in its argument: what it returns are pieces of it.
LEMMA ParseStringStays ==
    ASSUME NEW S, NEW s \in Seq(S), NEW min, NEW max, ParseString(s, min, max).ok
    PROVE  /\ ParseString(s, min, max).out \in Seq(S)
           /\ ParseString(s, min, max).rest \in Seq(S)
<1> DEFINE first == BeforeClose(s)
           close == IF first + 1 < Len(s) /\ s[first + 2] = CloseBracket
                    THEN first + 1
                    ELSE first
<1>1. first \in 0..Len(s) /\ Len(s) \in Nat
  BY BeforeCloseFinds
<1>2. close \in 0..Len(s) /\ close + 1 \in Nat
  BY <1>1
<1>3. /\ ParseString(s, min, max).out = SubSeq(s, 2, close)
      /\ ParseString(s, min, max).rest = Rest(s, close + 1)
  BY DEF ParseString, Failed
<1>4. SubSeq(s, 2, close) \in Seq(S)
  BY <1>2
<1> QED
  BY <1>2, <1>3, <1>4, RestIsSeq

LEMMA IdLengthFinds ==
    ASSUME NEW s \in Seq(Char)
    PROVE  IdLength(s) \in 0..Len(s)
<1>1. \E n \in 0..Len(s) :
        /\ \A i \in 1..n : s[i] \in IdChar
        /\ n < Len(s) => s[n + 1] \notin IdChar
  <2>1. PICK n \in 0..Len(s) :
            /\ \A i \in 1..n : s[i] \notin (Char \ IdChar)
            /\ n < Len(s) => s[n + 1] \in (Char \ IdChar)
    BY PrefixExists, Zenon
  <2>2. \A i \in 1..n : s[i] \in Char
    BY <2>1
  <2> QED
    BY <2>1, <2>2
<1> QED
  BY <1>1, Zenon DEF IdLength

-------------------------------------------------------------------------------
(* Lines *)

\* At most one field is stored, one that was not present, and without a value
\* only when the line fails.
Stores(res) ==
    \/ res.present = present /\ res.val = val
    \/ \E f \in Field \ present :
        /\ res.present = present \cup {f}
        /\ \/ \E v \in Seq(Char) : res.val = [val EXCEPT ![f] = v]
           \/ ~res.ok /\ res.val = val

LEMMA StoresValue ==
    ASSUME NEW res, NEW f \in Field \ present, NEW v \in Seq(Char),
           res.present = present \cup {f}, res.val = [val EXCEPT ![f] = v]
    PROVE  Stores(res)
BY Zenon DEF Stores

LEMMA StoresNoValue ==
    ASSUME NEW res, NEW f \in Field \ present,
           res.present = present \cup {f}, ~res.ok, res.val = val
    PROVE  Stores(res)
BY Zenon DEF Stores

LEMMA FieldOfIsField ==
    ASSUME NEW id, IsKnown(id)
    PROVE  FieldOf(id) \in Field
<1>1. Matching(id) \subseteq Nat /\ Matching(id) \subseteq DOMAIN Ts
  BY FieldAssumption DEF Matching
<1>2. \E k \in Matching(id) : \A j \in Matching(id) : k <= j
  BY <1>1, LeastElement DEF IsKnown
<1>3. (CHOOSE k \in Matching(id) : \A j \in Matching(id) : k <= j) \in DOMAIN Ts
  BY <1>1, <1>2
<1> QED
  BY <1>3, Zenon DEF FieldOf, Field

LEMMA ParseFieldStays ==
    ASSUME NEW f, NEW s \in Seq(Char), ParseField(f, s).ok
    PROVE  ParseField(f, s).out \in Seq(Char)
<1>1. CASE f \in RawField
  BY <1>1 DEF ParseField
<1>2. CASE f \notin RawField
  BY <1>2, ParseStringStays DEF ParseField
<1> QED
  BY <1>1, <1>2

LEMMA DataLineStores ==
    ASSUME NEW id, NEW s \in Seq(Char)
    PROVE  Stores(ParsedDataParseLine(id, s))
<1> DEFINE f == FieldOf(id)
           res == ParseField(f, s)
           line == ParsedDataParseLine(id, s)
<1>1. CASE ~IsKnown(id) \/ ~MayStore(f)
  <2>1. line.present = present /\ line.val = val
    BY <1>1 DEF ParsedDataParseLine
  <2> QED
    BY <2>1 DEF Stores
<1>2. CASE IsKnown(id) /\ MayStore(f)
  <2>1. f \in Field \ present
    BY <1>2, FieldOfIsField DEF MayStore
  <2>2. /\ line.ok = res.ok
        /\ line.present = present \cup {f}
        /\ line.val = IF res.ok THEN [val EXCEPT ![f] = res.out] ELSE val
    BY <1>2 DEF ParsedDataParseLine, Succeeds
  <2>3. CASE res.ok
    <3>1. res.out \in Seq(Char)
      BY <2>3, ParseFieldStays
    <3>2. line.val = [val EXCEPT ![f] = res.out]
      BY <2>2, <2>3
    <3> QED
      BY <2>1, <2>2, <3>1, <3>2, StoresValue, Zenon
  <2>4. CASE ~res.ok
    <3>1. ~line.ok /\ line.val = val
      BY <2>2, <2>4
    <3> QED
      BY <2>1, <2>2, <3>1, StoresNoValue, Zenon
  <2> QED
    BY <2>3, <2>4
<1> QED
  BY <1>1, <1>2

LEMMA LineStores ==
    ASSUME NEW line \in Seq(Char)
    PROVE  Stores(ParseLine(line))
<1> DEFINE id == SubSeq(line, 1, IdLength(line))
           s == Rest(line, IdLength(line))
           res == ParsedDataParseLine(id, s)
<1>1. CASE line = <<>> \/ ~HasObis(line)
  <2>1. ParseLine(line).present = present /\ ParseLine(line).val = val
    BY <1>1 DEF ParseLine
  <2> QED
    BY <2>1 DEF Stores
<1>2. CASE ~(line = <<>> \/ ~HasObis(line))
  <2>1. s \in Seq(Char)
    BY IdLengthFinds, RestIsSeq
  <2>2. Stores(res)
    BY <2>1, DataLineStores
  <2>3. /\ ParseLine(line).present = res.present
        /\ ParseLine(line).val = res.val
        /\ ~res.ok => ~ParseLine(line).ok
    BY <1>2 DEF ParseLine
  <2> HIDE DEF res, s, id
  <2> QED
    BY <2>2, <2>3, Zenon DEF Stores
<1> QED
  BY <1>1, <1>2

-------------------------------------------------------------------------------
(* The invariant *)

ValuesTyped ==
    /\ present \subseteq Field
    /\ val \in [Field -> Seq(Char) \cup {nullopt}]

\* Every field present has a value, until parse fails.
ValuesOfPresent ==
    /\ \A f \in Field \ present : val[f] = nullopt
    /\ \A f, g \in present : val[f] = nullopt /\ val[g] = nullopt => f = g
    /\ \A f \in present : val[f] = nullopt => loop = "returned" /\ ~result

\* Line k of the lines h, in the text.
LineAt(h, k) ==
    /\ h[k][1] = (IF k = 1 THEN 0 ELSE h[k - 1][2] + 1)
    /\ h[k][1] <= h[k][2] /\ h[k][2] < Size
    /\ At(h[k][2]) \in LineBreak

\* The next line begins where the latest ended.
LineStart ==
    loop # "returned" =>
        line_start = (IF handled = <<>> THEN 0 ELSE handled[Len(handled)][2] + 1)

IInv ==
    /\ TypeOK
    /\ ValuesTyped
    /\ ValuesOfPresent
    /\ handled \in Seq(Int \X Int)
    /\ LineStart
    /\ LinesCoverInput

LEMMA InitIInv == Init => IInv
<1> SUFFICES ASSUME Init PROVE IInv
  OBVIOUS
<1>1. Len(input) \in Nat
  BY DEF Init
<1>2. TypeOK
  <2>1. pos \in 0..Size /\ line_start \in 0..pos
    BY <1>1 DEF Init, Size
  <2>2. \A f \in Field : val[f] = nullopt
    BY DEF Init
  <2> QED
    BY <2>1, <2>2 DEF Init, TypeOK
<1>3. ValuesTyped /\ ValuesOfPresent
  BY DEF Init, ValuesTyped, ValuesOfPresent
<1>4. handled \in Seq(Int \X Int) /\ LineStart /\ LinesCoverInput
  BY DEF Init, LineStart, LinesCoverInput
<1> QED
  BY <1>2, <1>3, <1>4 DEF IInv

\* A step that leaves the fields and the lines alone.
LEMMA QuietIInv ==
    ASSUME IInv, StoreNothing, UNCHANGED <<arguments, line_start>>,
           pos' \in Int, pos <= pos', pos' <= Size, open_bracket' \in BOOLEAN,
           loop # "returned",
           \/ UNCHANGED result /\ loop' \in {"id_line", "data_lines"}
           \/ /\ Return(FALSE) \/ Return(pos = line_start)
              /\ result' => pos = Size
    PROVE  IInv'
<1> USE DEF StoreNothing, arguments, data, Return
<1>1. TypeOK'
  <2>1. pos' \in 0..Size /\ line_start \in 0..pos'
    BY DEF IInv, TypeOK
  <2> QED
    BY <2>1 DEF IInv, TypeOK, Size
<1>2. ValuesTyped' /\ ValuesOfPresent'
  BY DEF IInv, ValuesTyped, ValuesOfPresent, TypeOK
<1>3. handled' \in Seq(Int \X Int) /\ LineStart'
  BY DEF IInv, LineStart
<1>4. LinesCoverInput'
  BY DEF IInv, LinesCoverInput, LineStart, Size, At
<1> QED
  BY <1>1, <1>2, <1>3, <1>4 DEF IInv
\* A line that is parsed and stored.
LEMMA LineIInv ==
    ASSUME IInv, NEW res, Stores(res), AfterLine(res),
           loop # "returned", pos < Size, At(pos) \in LineBreak
    PROVE  IInv'
<1> USE DEF AfterLine, Store, arguments, Return
<1>0. /\ present \subseteq Field /\ val \in [Field -> Seq(Char) \cup {nullopt}]
      /\ \A f \in Field \ present : val[f] = nullopt
      /\ \A f \in present : val[f] # nullopt
  BY DEF IInv, ValuesTyped, ValuesOfPresent
<1>1. ValuesTyped' /\ ValuesOfPresent'
  <2>1. CASE res.present = present /\ res.val = val
    BY <1>0, <2>1 DEF ValuesTyped, ValuesOfPresent
  <2>2. ASSUME NEW f \in Field \ present, NEW v \in Seq(Char),
               res.present = present \cup {f}, res.val = [val EXCEPT ![f] = v]
        PROVE  ValuesTyped' /\ ValuesOfPresent'
    <3>1. v # nullopt
      BY NulloptAssumption
    <3> QED
      BY <1>0, <2>2, <3>1 DEF ValuesTyped, ValuesOfPresent
  <2>3. ASSUME NEW f \in Field \ present,
               res.present = present \cup {f}, ~res.ok, res.val = val
        PROVE  ValuesTyped' /\ ValuesOfPresent'
    BY <1>0, <2>3 DEF ValuesTyped, ValuesOfPresent
  <2> QED
    BY <2>1, <2>2, <2>3 DEF Stores
<1>2. /\ pos \in Int /\ 0 <= line_start /\ line_start <= pos /\ line_start \in Int
      /\ Size \in Nat /\ Size' = Size
  BY DEF IInv, TypeOK, Size
<1>3. TypeOK'
  <2>1. pos' \in 0..Size' /\ line_start' \in 0..pos'
    BY <1>2 DEF NextLine
  <2>2. \A f \in Field : val'[f] = nullopt \/ val'[f] \in Seq(Char)
    BY <1>1 DEF ValuesTyped
  <2> QED
    BY <1>1, <2>1, <2>2 DEF IInv, TypeOK, ValuesTyped
<1>4. /\ handled \in Seq(Int \X Int) /\ Len(handled) \in Nat
      /\ handled' = Append(handled, <<line_start, pos>>)
  BY DEF IInv
<1>5. /\ handled' \in Seq(Int \X Int) /\ Len(handled') = Len(handled) + 1
      /\ handled'[Len(handled')] = <<line_start, pos>>
      /\ \A k \in 1..Len(handled) : handled'[k] = handled[k]
  BY <1>2, <1>4
<1>6. LineStart'
  <2>1. handled' # <<>>
    <3>1. Len(handled) \in Nat /\ Len(handled') = Len(handled) + 1
      BY <1>4, <1>5
    <3> QED
      BY <3>1, NotEmpty, Zenon
  <2>2. loop' # "returned" => line_start' = pos + 1
    BY DEF NextLine
  <2> QED
    BY <1>5, <2>1, <2>2 DEF LineStart
<1>7. LinesCoverInput'
  <2>1. \A k \in 1..Len(handled) : LineAt(handled, k)
    BY DEF IInv, LinesCoverInput, LineAt
  <2>2. UNCHANGED <<input, Size>>
    BY <1>2
  <2>3. ASSUME NEW k \in 1..Len(handled')
        PROVE  LineAt(handled, k)'
    <3>1. CASE k = Len(handled')
      <4>1. handled'[k] = <<line_start, pos>> /\ k = Len(handled) + 1
        BY <1>5, <3>1
      <4>2. line_start = (IF k = 1 THEN 0 ELSE handled'[k - 1][2] + 1)
        <5>1. line_start = (IF handled = <<>> THEN 0 ELSE handled[Len(handled)][2] + 1)
          BY DEF IInv, LineStart
        <5>2. CASE k = 1
          BY <1>4, <4>1, <5>1, <5>2
        <5>3. CASE k # 1
          <6>1. k - 1 = Len(handled) /\ k - 1 \in 1..Len(handled) /\ handled # <<>>
            BY <1>4, <4>1, <5>3
          <6> QED
            BY <1>5, <5>1, <5>3, <6>1
        <5> QED
          BY <5>2, <5>3
      <4>3. handled'[k][1] = line_start /\ handled'[k][2] = pos
        BY <4>1
      <4>4. line_start <= pos /\ pos < Size'
        BY <1>2, <2>2
      <4>5. At(handled[k][2])' = At(pos)
        BY <2>2, <4>3 DEF At
      <4> QED
        BY <4>2, <4>3, <4>4, <4>5, Zenon DEF LineAt
    <3>2. CASE k # Len(handled')
      <4>1. k \in 1..Len(handled) /\ handled'[k] = handled[k]
            /\ (k # 1 => handled'[k - 1] = handled[k - 1])
        BY <1>4, <1>5, <3>2
      <4>2. LineAt(handled, k)
        BY <2>1, <4>1
      <4>3. At(handled[k][2])' = At(handled[k][2])
        BY <2>2, <4>1 DEF At
      <4> QED
        BY <2>2, <4>1, <4>2, <4>3, Zenon DEF LineAt
    <3> QED
      BY <3>1, <3>2
  <2>4. ~(loop' = "returned" /\ result')
    OBVIOUS
  <2>5. \A k \in 1..Len(handled') : LineAt(handled, k)'
    BY <2>3
  <2> QED
    BY <2>4, <2>5 DEF LinesCoverInput, LineAt
<1> QED
  BY <1>1, <1>3, <1>5, <1>6, <1>7 DEF IInv

LEMMA LineIsText ==
    ASSUME IInv
    PROVE  substr(line_start, pos) \in Seq(Char)
<1>1. /\ line_start \in Int /\ pos \in Int
      /\ 0 <= line_start /\ pos <= Len(input)
  BY DEF IInv, TypeOK, Size
<1>2. input \in Seq(Char)
  BY DEF IInv, TypeOK
<1> QED
  BY <1>1, <1>2 DEF substr

LEMMA Positioned ==
    ASSUME IInv
    PROVE  pos \in Int /\ pos <= Size /\ Size \in Int /\ open_bracket \in BOOLEAN
BY DEF IInv, TypeOK, Size

LEMMA NextCharIInv ==
    ASSUME IInv, loop \in {"id_line", "data_lines"}, pos < Size, ToNextChar
    PROVE  IInv'
<1>1. pos' \in Int /\ pos <= pos' /\ pos' <= Size
  BY Positioned DEF ToNextChar
<1> QED
  BY <1>1, QuietIInv, Positioned DEF ToNextChar, Continue

LEMMA BracketIInv ==
    ASSUME IInv, NEW bracket, NEW opens \in BOOLEAN, BracketByte(bracket, opens)
    PROVE  IInv'
<1>1. pos' \in Int /\ pos <= pos' /\ pos' <= Size
  <2>1. Doubled => pos + 1 < Size
    BY DEF Doubled
  <2>2. pos < Size
    BY DEF BracketByte, InDataLine
  <2>3. \/ pos' \in {pos, pos + 1}
        \/ Doubled /\ pos' = pos + 2
    BY DEF BracketByte
  <2> QED
    BY <2>1, <2>2, <2>3, Positioned
<1> QED
  BY <1>1, QuietIInv DEF BracketByte, InDataLine, Continue, Return

LEMMA NextIInv == IInv /\ [Next]_vars => IInv'
<1> SUFFICES ASSUME IInv, [Next]_vars PROVE IInv'
  OBVIOUS
<1>1. CASE IdLineByte
  BY <1>1, NextCharIInv DEF IdLineByte
<1>2. CASE IdLineEnd
  BY <1>2, LineIInv, LineIsText, DataLineStores DEF IdLineEnd
<1>3. CASE IdLineMissing
  BY <1>3, QuietIInv, Positioned DEF IdLineMissing
<1>4. CASE OpenByte \/ CloseByte
  BY <1>4, BracketIInv DEF OpenByte, CloseByte
<1>5. CASE BreakInLine
  <2>1. loop = "data_lines" /\ pos < Size /\ ToNextChar
    BY <1>5, Zenon DEF BreakInLine, InDataLine
  <2> QED
    BY <2>1, NextCharIInv
<1>6. CASE LineEnd
  BY <1>6, LineIInv, LineIsText, LineStores DEF LineEnd, InDataLine
<1>7. CASE OtherByte
  BY <1>7, NextCharIInv DEF OtherByte, InDataLine
<1>8. CASE Finish
  <2>1. pos = Size /\ pos' = pos /\ Return(pos = line_start)
    BY <1>8, Positioned DEF Finish
  <2>2. loop # "returned" /\ StoreNothing /\ UNCHANGED <<arguments, line_start, open_bracket>>
    BY <1>8 DEF Finish
  <2> QED
    BY <2>1, <2>2, QuietIInv, Positioned
<1>9. CASE UNCHANGED vars
  BY <1>9 DEF vars, arguments, data, IInv, TypeOK, ValuesTyped, ValuesOfPresent, LineStart,
              LinesCoverInput, Size, At
<1> QED
  BY <1>1, <1>2, <1>3, <1>4, <1>5, <1>6, <1>7, <1>8, <1>9 DEF Next

\* Between two turns of the loops the positions, the lines handled so far and the
\* fields agree.
THEOREM Invariance == Spec => []IInv
<1> QED
  BY InitIInv, NextIInv, PTL DEF Spec

\* The positions stay within the text, and what is stored are pieces of it.
THEOREM TypeCorrect == Spec => []TypeOK
<1>1. IInv => TypeOK
  BY DEF IInv
<1> QED
  BY <1>1, Invariance, PTL

\* No character of a telegram is skipped or read as part of two lines.
THEOREM LinesCover == Spec => []LinesCoverInput
<1>1. IInv => LinesCoverInput
  BY DEF IInv
<1> QED
  BY <1>1, Invariance, PTL

\* A field is present without a value only where parse has failed, and at most
\* one is.
THEOREM PresentIsParsed == Spec => []PresentMeansParsed
<1>1. IInv => PresentMeansParsed
  BY DEF IInv, ValuesOfPresent, PresentMeansParsed
<1> QED
  BY <1>1, Invariance, PTL

LEMMA LineKeepsValues ==
    ASSUME IInv, NEW res, Stores(res), val' = res.val, NEW f \in Field, val[f] # nullopt
    PROVE  val'[f] = val[f]
<1>1. val \in [Field -> Seq(Char) \cup {nullopt}] /\ f \in present
  BY DEF IInv, ValuesTyped, ValuesOfPresent
<1> QED
  BY <1>1 DEF Stores

LEMMA StepKeepsValues == IInv /\ [Next]_vars => \A f \in Field : val[f] # nullopt => val'[f] = val[f]
<1> SUFFICES ASSUME IInv, [Next]_vars, NEW f \in Field, val[f] # nullopt
             PROVE  val'[f] = val[f]
  OBVIOUS
<1>1. CASE IdLineEnd
  BY <1>1, LineKeepsValues, LineIsText, DataLineStores DEF IdLineEnd, AfterLine, Store
<1>2. CASE LineEnd
  BY <1>2, LineKeepsValues, LineIsText, LineStores DEF LineEnd, AfterLine, Store
<1>3. CASE UNCHANGED val
  BY <1>3
<1> QED
  BY <1>1, <1>2, <1>3 DEF Next, IdLineByte, IdLineMissing, OpenByte, CloseByte, BracketByte,
         BreakInLine, OtherByte, Finish, ToNextChar, StoreNothing, data, vars

\* What parse has stored in a field it never overwrites, whatever lines follow and
\* however many fields have the id.
THEOREM ValuesStay == Spec => ValuesAreFinal
<1>1. IInv /\ [Next]_vars => [\A f \in Field : val[f] # nullopt => val'[f] = val[f]]_vars
  BY StepKeepsValues
<1> QED
  BY <1>1, Invariance, PTL DEF Spec, ValuesAreFinal

-------------------------------------------------------------------------------
(* The data lines and their brackets *)

\* An opening bracket within the next two characters: the look-ahead of parse.
OpensSoon(i) == \E j \in Positions(i + 1, Size, OpenBracket) : j <= i + 2

\* What parse knows of the piece of a data line it has read, with a bracket of it
\* open or not.
Scanned(from, to, open) ==
    LET opens == Positions(from, to, OpenBracket)
        closes == Positions(from, to, CloseBracket)
    IN  /\ \A j \in closes : \E i \in opens : i < j
        /\ \A i \in opens : open \/ \E j \in closes : i < j
        /\ open => \E a \in opens : closes \cap (a..(to - 1)) = {}
        /\ \A i \in from..(to - 1) : At(i) \in LineBreak =>
            OpensSoon(i) \/ \E a \in opens : a < i /\ closes \cap (a..i) = {}

\* The line being read has its brackets in order; the first line of the text, which
\* may have any, leaves none open.
DataLine ==
    /\ loop = "id_line" => ~open_bracket /\ handled = <<>>
    /\ loop = "data_lines" =>
        IF handled = <<>> THEN pos = Size ELSE Scanned(line_start, pos, open_bracket)

WholeInv == DataLine /\ LinesAreWhole

\* One character more: the brackets among the characters read.
LEMMA OneMore ==
    ASSUME NEW from \in Nat, NEW to \in Nat, from <= to, NEW c
    PROVE  /\ At(to) = c => Positions(from, to + 1, c) = Positions(from, to, c) \cup {to}
           /\ At(to) # c => Positions(from, to + 1, c) = Positions(from, to, c)
           /\ Positions(from, to, c) \subseteq from..(to - 1)
           /\ to \notin Positions(from, to, c)
<1>1. from..((to + 1) - 1) = (from..(to - 1)) \cup {to} /\ to \notin from..(to - 1)
  OBVIOUS
<1> QED
  BY <1>1, Zenon DEF Positions

\* A character that is no bracket, and a line break only where the line goes on.
LEMMA ScansOther ==
    ASSUME NEW from \in Nat, NEW to \in Nat, from <= to, NEW open \in BOOLEAN,
           Scanned(from, to, open), At(to) \notin {OpenBracket, CloseBracket},
           At(to) \in LineBreak => open \/ OpensSoon(to)
    PROVE  Scanned(from, to + 1, open)
<1> DEFINE opens == Positions(from, to, OpenBracket)
           closes == Positions(from, to, CloseBracket)
<1>1. /\ Positions(from, to + 1, OpenBracket) = opens
      /\ Positions(from, to + 1, CloseBracket) = closes
      /\ opens \subseteq from..(to - 1) /\ closes \subseteq from..(to - 1)
  BY OneMore
<1>2. /\ \A j \in closes : \E i \in opens : i < j
      /\ \A i \in opens : open \/ \E j \in closes : i < j
      /\ open => \E a \in opens : closes \cap (a..(to - 1)) = {}
      /\ \A i \in from..(to - 1) : At(i) \in LineBreak =>
            OpensSoon(i) \/ \E a \in opens : a < i /\ closes \cap (a..i) = {}
  BY DEF Scanned
<1> HIDE DEF opens, closes
<1>3. (to + 1) - 1 = to
  OBVIOUS
<1>4. \A a \in opens : closes \cap (a..(to - 1)) = {} => a < to /\ closes \cap (a..to) = {}
  BY <1>1
<1>5. open => \E a \in opens : a < to /\ closes \cap (a..to) = {}
  BY <1>2, <1>4
<1>6. ASSUME NEW i \in from..to, At(i) \in LineBreak
      PROVE  OpensSoon(i) \/ \E a \in opens : a < i /\ closes \cap (a..i) = {}
  <2>1. CASE i = to
    BY <1>5, <1>6, <2>1
  <2>2. CASE i # to
    <3>1. i \in from..(to - 1)
      BY <2>2
    <3> QED
      BY <1>2, <1>6, <3>1
  <2> QED
    BY <2>1, <2>2
<1> QED
  BY <1>1, <1>2, <1>3, <1>5, <1>6 DEF Scanned

\* An opening bracket.
LEMMA ScansOpen ==
    ASSUME NEW from \in Nat, NEW to \in Nat, from <= to, NEW open \in BOOLEAN,
           Scanned(from, to, open), At(to) = OpenBracket
    PROVE  /\ Scanned(from, to + 1, TRUE)
           /\ Positions(from, to + 1, OpenBracket) # {}
<1> DEFINE opens == Positions(from, to, OpenBracket)
           closes == Positions(from, to, CloseBracket)
           opens2 == Positions(from, to + 1, OpenBracket)
           closes2 == Positions(from, to + 1, CloseBracket)
<1>1. At(to) # CloseBracket /\ At(to) \notin LineBreak
  BY CharAssumption
<1>2. /\ opens2 = opens \cup {to} /\ closes2 = closes
      /\ opens \subseteq from..(to - 1) /\ closes \subseteq from..(to - 1)
  BY <1>1, OneMore
<1>3. /\ \A j \in closes : \E i \in opens : i < j
      /\ \A i \in from..(to - 1) : At(i) \in LineBreak =>
            OpensSoon(i) \/ \E a \in opens : a < i /\ closes \cap (a..i) = {}
  BY DEF Scanned
<1> HIDE DEF opens, closes, opens2, closes2
<1>4. \A j \in closes2 : \E i \in opens2 : i < j
  BY <1>2, <1>3
<1>5. closes2 \cap (to..((to + 1) - 1)) = {} /\ to \in opens2
  BY <1>2
<1>6. ASSUME NEW i \in from..((to + 1) - 1), At(i) \in LineBreak
      PROVE  OpensSoon(i) \/ \E a \in opens2 : a < i /\ closes2 \cap (a..i) = {}
  <2>1. i \in from..(to - 1)
    <3>1. i # to
      BY <1>1, <1>6
    <3> QED
      BY <3>1
  <2>2. OpensSoon(i) \/ \E a \in opens : a < i /\ closes \cap (a..i) = {}
    BY <1>3, <1>6, <2>1
  <2> QED
    BY <1>2, <2>2
<1> QED
  BY <1>4, <1>5, <1>6 DEF Scanned, opens2, closes2

\* A closing bracket, where one has been opened.
LEMMA ScansClose ==
    ASSUME NEW from \in Nat, NEW to \in Nat, from <= to, NEW open \in BOOLEAN,
           Scanned(from, to, open), At(to) = CloseBracket,
           Positions(from, to, OpenBracket) # {}
    PROVE  /\ Scanned(from, to + 1, FALSE)
           /\ Positions(from, to + 1, OpenBracket) # {}
<1> DEFINE opens == Positions(from, to, OpenBracket)
           closes == Positions(from, to, CloseBracket)
           opens2 == Positions(from, to + 1, OpenBracket)
           closes2 == Positions(from, to + 1, CloseBracket)
<1>1. At(to) # OpenBracket /\ At(to) \notin LineBreak
  BY CharAssumption
<1>2. /\ opens2 = opens /\ closes2 = closes \cup {to} /\ opens # {}
      /\ opens \subseteq from..(to - 1) /\ closes \subseteq from..(to - 1)
  BY <1>1, OneMore
<1>3. /\ \A j \in closes : \E i \in opens : i < j
      /\ \A i \in from..(to - 1) : At(i) \in LineBreak =>
            OpensSoon(i) \/ \E a \in opens : a < i /\ closes \cap (a..i) = {}
  BY DEF Scanned
<1> HIDE DEF opens, closes, opens2, closes2
<1>4. \A i \in opens : i < to
  BY <1>2
<1>5. \A j \in closes2 : \E i \in opens2 : i < j
  BY <1>2, <1>3, <1>4
<1>6. \A i \in opens2 : \E j \in closes2 : i < j
  BY <1>2, <1>4
<1>7. ASSUME NEW i \in from..((to + 1) - 1), At(i) \in LineBreak
      PROVE  OpensSoon(i) \/ \E a \in opens2 : a < i /\ closes2 \cap (a..i) = {}
  <2>1. i \in from..(to - 1)
    <3>1. i # to
      BY <1>1, <1>7
    <3> QED
      BY <3>1
  <2>2. OpensSoon(i) \/ \E a \in opens : a < i /\ closes \cap (a..i) = {}
    BY <1>3, <1>7, <2>1
  <2>3. \A a \in opens : to \notin a..i
    BY <2>1
  <2> QED
    BY <1>2, <2>2, <2>3
<1> QED
  BY <1>2, <1>5, <1>6, <1>7, Zenon DEF Scanned, opens2, closes2

\* At the end of a line nothing is open, so that the line is whole.
LEMMA ScannedIsWhole ==
    ASSUME NEW from \in Nat, NEW to \in Nat, Scanned(from, to, FALSE)
    PROVE  IsWhole(from, to)
BY DEF Scanned, IsWhole, OpensSoon

\* The look-ahead of parse.
LEMMA LookAhead ==
    ASSUME Size \in Nat, pos \in Nat, Size - pos > 2,
           At(pos + 1) = OpenBracket \/ At(pos + 2) = OpenBracket
    PROVE  OpensSoon(pos)
<1>1. \A j \in {pos + 1, pos + 2} : j \in (pos + 1)..(Size - 1) /\ j <= pos + 2
  OBVIOUS
<1> QED
  BY <1>1 DEF OpensSoon, Positions

LEMMA ScannedStays ==
    ASSUME input' = input, NEW from, NEW to, NEW open, Scanned(from, to, open)
    PROVE  /\ line_start' = from /\ pos' = to /\ open_bracket' = open
                => Scanned(line_start, pos, open_bracket)'
BY DEF Scanned, OpensSoon, Positions, At, Size

\* Nothing is scanned of a line that just begins.
LEMMA ScansNothing ==
    ASSUME NEW from \in Nat
    PROVE  Scanned(from, from, FALSE)
<1>1. from..(from - 1) = {}
  OBVIOUS
<1>2. \A c : Positions(from, from, c) = {}
  BY <1>1 DEF Positions
<1> QED
  BY <1>1, <1>2, Zenon DEF Scanned

LEMMA ViewsStay ==
    ASSUME input' = input
    PROVE  /\ Size' = Size
           /\ \A i : At(i)' = At(i)
           /\ \A from, to, c : Positions(from, to, c)' = Positions(from, to, c)
BY DEF Positions, At, Size

\* Whole lines of a text stay whole: the text does not change.
LEMMA LinesStayWhole ==
    ASSUME LinesAreWhole, input' = input, handled' = handled
    PROVE  LinesAreWhole'
<1>1. ASSUME NEW k \in 2..Len(handled')
      PROVE  IsWhole(handled[k][1], handled[k][2])'
  <2>1. IsWhole(handled[k][1], handled[k][2])
    BY <1>1 DEF LinesAreWhole
  <2> QED
    BY <2>1, ViewsStay DEF IsWhole
<1> QED
  BY <1>1 DEF LinesAreWhole

\* The next line begins after one that was stored.
LEMMA AfterLineScans ==
    ASSUME IInv, ~open_bracket, NEW res, AfterLine(res), loop # "returned"
    PROVE  DataLine'
<1>1. handled \in Seq(Int \X Int) /\ handled' = Append(handled, <<line_start, pos>>)
  BY DEF IInv, AfterLine, Store
<1>2. handled' # <<>>
  BY <1>1
<1>3. CASE res.ok
  <2>1. /\ input' = input /\ pos' = pos + 1 /\ line_start' = pos + 1 /\ loop' = "data_lines"
        /\ open_bracket' = open_bracket
    BY <1>3 DEF AfterLine, NextLine, arguments
  <2>2. Scanned(pos + 1, pos + 1, FALSE)
    <3>1. pos + 1 \in Nat
      BY DEF IInv, TypeOK
    <3> QED
      BY <3>1, ScansNothing
  <2>3. open_bracket' = FALSE
    BY <2>1 DEF IInv, TypeOK
  <2>4. Scanned(line_start, pos, open_bracket)'
    BY <2>1, <2>2, <2>3, ScannedStays
  <2> QED
    BY <1>2, <2>1, <2>4 DEF DataLine
<1>4. CASE ~res.ok
  <2>1. loop' = "returned"
    BY <1>4 DEF AfterLine, Return
  <2> QED
    BY <2>1 DEF DataLine
<1> QED
  BY <1>3, <1>4

\* A line is in the text from its first character on.
LEMMA InLine ==
    ASSUME IInv
    PROVE  /\ line_start \in Nat /\ pos \in Nat /\ line_start <= pos
           /\ Size \in Nat /\ open_bracket \in BOOLEAN
BY DEF IInv, TypeOK, Size

LEMMA IdLineWhole ==
    ASSUME IInv, WholeInv, IdLineByte \/ IdLineEnd \/ IdLineMissing
    PROVE  WholeInv'
<1>1. ~open_bracket /\ handled = <<>> /\ loop = "id_line"
  BY DEF WholeInv, DataLine, IdLineByte, IdLineEnd, IdLineMissing
<1>2. CASE IdLineByte
  <2>1. input' = input /\ handled' = handled /\ open_bracket' = open_bracket /\ loop' = loop
    BY <1>2 DEF IdLineByte, ToNextChar, Continue, StoreNothing, arguments
  <2> QED
    BY <1>1, <2>1, LinesStayWhole DEF WholeInv, DataLine
<1>3. CASE IdLineEnd
  <2>1. PICK res : AfterLine(res)
    BY <1>3 DEF IdLineEnd
  <2>2. handled' = Append(handled, <<line_start, pos>>)
    BY <2>1 DEF AfterLine, Store
  <2>3. 2..Len(handled') = {}
    BY <1>1, <2>2
  <2> QED
    BY <1>1, <2>1, <2>3, AfterLineScans DEF WholeInv, LinesAreWhole
<1>4. CASE IdLineMissing
  <2>1. /\ input' = input /\ handled' = handled /\ pos' = pos /\ loop' = "data_lines" /\ pos >= Size
    BY <1>4 DEF IdLineMissing, StoreNothing, arguments
  <2>2. pos' = Size'
    BY <2>1 DEF IInv, TypeOK, Size
  <2> QED
    BY <1>1, <2>1, <2>2, LinesStayWhole DEF WholeInv, DataLine
<1> QED
  BY <1>2, <1>3, <1>4

\* A bracket, or two that are taken as one.
LEMMA BracketWhole ==
    ASSUME IInv, WholeInv, OpenByte \/ CloseByte
    PROVE  WholeInv'
<1>1. /\ loop = "data_lines" /\ pos < Size /\ input' = input /\ handled' = handled
      /\ line_start' = line_start /\ loop' \in {"data_lines", "returned"}
  BY DEF OpenByte, CloseByte, BracketByte, InDataLine, StoreNothing, arguments, Continue, Return
<1>2. handled # <<>> /\ Scanned(line_start, pos, open_bracket)
  BY <1>1, InLine DEF WholeInv, DataLine
<1>3. CASE loop' = "returned"
  BY <1>1, <1>3, LinesStayWhole DEF WholeInv, DataLine
<1>4. CASE OpenByte /\ loop' # "returned"
  <2>1. /\ At(pos) = OpenBracket /\ open_bracket' = TRUE
        /\ pos' = IF Doubled THEN pos + 2 ELSE pos + 1
    BY <1>4 DEF OpenByte, BracketByte, Return
  <2>2. Scanned(line_start, pos + 1, TRUE)
    BY <1>2, <2>1, InLine, ScansOpen
  <2>3. Scanned(line_start, pos', TRUE)
    <3>1. CASE Doubled
      <4>1. At(pos + 1) = OpenBracket
        BY <2>1, <3>1 DEF Doubled
      <4>2. pos + 1 \in Nat /\ line_start <= pos + 1 /\ (pos + 1) + 1 = pos + 2
        BY InLine
      <4>3. Scanned(line_start, (pos + 1) + 1, TRUE)
        BY <2>2, <4>1, <4>2, InLine, ScansOpen
      <4> QED
        BY <2>1, <3>1, <4>2, <4>3
    <3>2. CASE ~Doubled
      BY <2>1, <2>2, <3>2
    <3> QED
      BY <3>1, <3>2
  <2>4. Scanned(line_start, pos, open_bracket)'
    BY <1>1, <2>1, <2>3, ScannedStays
  <2> QED
    BY <1>1, <1>2, <1>4, <2>4, LinesStayWhole DEF WholeInv, DataLine
<1>5. CASE CloseByte /\ loop' # "returned"
  <2>1. /\ At(pos) = CloseBracket /\ open_bracket' = FALSE
        /\ pos' = IF Doubled THEN pos + 2 ELSE pos + 1
        /\ open_bracket
    BY <1>5, InLine DEF CloseByte, BracketByte, Return
  <2>2. Positions(line_start, pos, OpenBracket) # {}
    BY <1>2, <2>1 DEF Scanned
  <2>3. /\ Scanned(line_start, pos + 1, FALSE)
        /\ Positions(line_start, pos + 1, OpenBracket) # {}
    BY <1>2, <2>1, <2>2, InLine, ScansClose
  <2>4. Scanned(line_start, pos', FALSE)
    <3>1. CASE Doubled
      <4>1. At(pos + 1) = CloseBracket
        BY <2>1, <3>1 DEF Doubled
      <4>2. pos + 1 \in Nat /\ line_start <= pos + 1 /\ (pos + 1) + 1 = pos + 2
        BY InLine
      <4>3. Scanned(line_start, (pos + 1) + 1, FALSE)
        BY <2>3, <4>1, <4>2, InLine, ScansClose
      <4> QED
        BY <2>1, <3>1, <4>2, <4>3
    <3>2. CASE ~Doubled
      BY <2>1, <2>3, <3>2
    <3> QED
      BY <3>1, <3>2
  <2>5. Scanned(line_start, pos, open_bracket)'
    BY <1>1, <2>1, <2>4, ScannedStays
  <2> QED
    BY <1>1, <1>2, <1>5, <2>5, LinesStayWhole DEF WholeInv, DataLine
<1> QED
  BY <1>3, <1>4, <1>5

\* A line break that does not end the line, or a character of no meaning here.
LEMMA CharWhole ==
    ASSUME IInv, WholeInv, BreakInLine \/ OtherByte
    PROVE  WholeInv'
<1>1. /\ loop = "data_lines" /\ pos < Size /\ input' = input /\ handled' = handled
      /\ line_start' = line_start /\ pos' = pos + 1 /\ open_bracket' = open_bracket
      /\ loop' = loop
  BY DEF BreakInLine, OtherByte, InDataLine, ToNextChar, Continue, StoreNothing, arguments
<1>2. handled # <<>> /\ Scanned(line_start, pos, open_bracket)
  BY <1>1, InLine DEF WholeInv, DataLine
<1>3. At(pos) \notin {OpenBracket, CloseBracket}
  BY CharAssumption DEF BreakInLine, OtherByte
<1>4. At(pos) \in LineBreak => open_bracket \/ OpensSoon(pos)
  BY InLine, LookAhead DEF BreakInLine, OtherByte, Continuation
<1>5. Scanned(line_start, pos + 1, open_bracket)
  BY <1>2, <1>3, <1>4, InLine, ScansOther
<1>6. Scanned(line_start, pos, open_bracket)'
  BY <1>1, <1>5, ScannedStays
<1> QED
  BY <1>1, <1>2, <1>6, LinesStayWhole DEF WholeInv, DataLine

\* The end of a line.
LEMMA LineEndWhole ==
    ASSUME IInv, WholeInv, LineEnd
    PROVE  WholeInv'
<1>1. loop = "data_lines" /\ pos < Size /\ ~open_bracket
  BY DEF LineEnd, InDataLine, Continuation
<1>2. PICK res : AfterLine(res)
  BY DEF LineEnd
<1>3. handled # <<>> /\ Scanned(line_start, pos, FALSE)
  <2>1. handled # <<>> /\ Scanned(line_start, pos, open_bracket)
    BY <1>1, InLine DEF WholeInv, DataLine
  <2>2. open_bracket = FALSE
    BY <1>1, InLine
  <2> QED
    BY <2>1, <2>2
<1>4. IsWhole(line_start, pos)
  BY <1>3, InLine, ScannedIsWhole
<1>5. DataLine'
  BY <1>1, <1>2, AfterLineScans
<1>6. LinesAreWhole'
  <2>1. /\ handled \in Seq(Int \X Int) /\ Len(handled) \in Nat
        /\ handled' = Append(handled, <<line_start, pos>>) /\ input' = input
    BY <1>2 DEF IInv, AfterLine, Store, arguments
  <2>2. /\ Len(handled') = Len(handled) + 1
        /\ handled'[Len(handled')] = <<line_start, pos>>
        /\ \A k \in 1..Len(handled) : handled'[k] = handled[k]
    BY <2>1, InLine
  <2>3. ASSUME NEW k \in 2..Len(handled')
        PROVE  IsWhole(handled'[k][1], handled'[k][2])
    <3>1. CASE k = Len(handled')
      BY <1>4, <2>2, <3>1
    <3>2. CASE k # Len(handled')
      <4>1. k \in 2..Len(handled) /\ k \in 1..Len(handled)
        BY <2>1, <2>2, <3>2
      <4> QED
        BY <2>2, <4>1 DEF WholeInv, LinesAreWhole
    <3> QED
      BY <3>1, <3>2
  <2>4. ASSUME NEW k \in 2..Len(handled')
        PROVE  IsWhole(handled[k][1], handled[k][2])'
    <3>1. IsWhole(handled'[k][1], handled'[k][2])
      BY <2>3, <2>4
    <3>2. input' = input
      BY <2>1
    <3> QED
      BY <3>1, <3>2, ViewsStay DEF IsWhole
  <2> QED
    BY <2>4 DEF LinesAreWhole
<1> QED
  BY <1>5, <1>6 DEF WholeInv

LEMMA InitWhole == Init => WholeInv
<1> SUFFICES ASSUME Init PROVE WholeInv
  OBVIOUS
<1>1. 2..Len(handled) = {}
  BY DEF Init
<1> QED
  BY <1>1 DEF Init, WholeInv, DataLine, LinesAreWhole

LEMMA NextWhole == IInv /\ WholeInv /\ [Next]_vars => WholeInv'
<1> SUFFICES ASSUME IInv, WholeInv, [Next]_vars PROVE WholeInv'
  OBVIOUS
<1>1. CASE Finish
  <2>1. loop' = "returned" /\ input' = input /\ handled' = handled
    BY <1>1 DEF Finish, Return, StoreNothing, arguments
  <2> QED
    BY <2>1, LinesStayWhole DEF WholeInv, DataLine
<1>2. CASE UNCHANGED vars
  <2>1. UNCHANGED <<input, handled, loop, open_bracket, pos, line_start>>
    BY <1>2 DEF vars, arguments, data
  <2>2. Scanned(line_start, pos, open_bracket) => Scanned(line_start, pos, open_bracket)'
    BY <2>1, ScannedStays
  <2>3. pos = Size => pos' = Size'
    BY <2>1 DEF Size
  <2> QED
    BY <2>1, <2>2, <2>3, LinesStayWhole DEF WholeInv, DataLine
<1> QED
  BY <1>1, <1>2, IdLineWhole, BracketWhole, CharWhole, LineEndWhole DEF Next

\* A data line parse hands to the fields never ends inside the brackets of a value and
\* never begins with the rest of one, in a text of any length with its brackets and
\* line breaks in any order.
THEOREM LinesWhole == Spec => []LinesAreWhole
<1>1. Spec => []WholeInv
  BY InitWhole, NextWhole, Invariance, PTL DEF Spec
<1>2. WholeInv => LinesAreWhole
  BY DEF WholeInv
<1> QED
  BY <1>1, <1>2, PTL

-------------------------------------------------------------------------------
(* The outcome of parse is that of its lines *)

\* Line k of those parse handed to the fields, and what it tells parse_line.
LineOf(k) == substr(handled[k][1], handled[k][2])

HasId(k) == k = 1 \/ (LineOf(k) # <<>> /\ HasObis(LineOf(k)))

IdOf(k) == IF k = 1 THEN identification ELSE SubSeq(LineOf(k), 1, IdLength(LineOf(k)))

TextOf(k) == IF k = 1 THEN LineOf(k) ELSE Rest(LineOf(k), IdLength(LineOf(k)))

\* Line k is for field f.
IsFor(k, f) == HasId(k) /\ IsKnown(IdOf(k)) /\ f = FieldOf(IdOf(k))

StoredFrom(k, f) ==
    /\ IsFor(k, f)
    /\ ParseField(f, TextOf(k)).ok
    /\ val[f] = ParseField(f, TextOf(k)).out

\* An empty line, one for no field if parse may ignore it, or one that its field
\* has read to the end.
IsAccepted(k) ==
    \/ k # 1 /\ LineOf(k) = <<>>
    \/ HasId(k) /\ ~IsKnown(IdOf(k)) /\ (k # 1 => ~unknown_error)
    \/ \E f \in Field :
        StoredFrom(k, f) /\ (k # 1 => ParseField(f, TextOf(k)).rest = <<>>)

\* Line k is the one parse failed on.
IsRefused(k) == loop = "returned" /\ ~result /\ k = Len(handled)

PresentHaveLines ==
    \A f \in Field : f \in present <=> \E k \in 1..Len(handled) : IsFor(k, f)

ValuesHaveLines ==
    \A f \in Field : val[f] # nullopt => \E k \in 1..Len(handled) : StoredFrom(k, f)

LinesAreAccepted ==
    \A k \in 1..Len(handled) : IsAccepted(k) \/ IsRefused(k)

OneLineEach ==
    \A j, k \in 1..Len(handled), f \in Field :
        IsFor(j, f) /\ IsFor(k, f) /\ j < k => IsRefused(k)

OutcomeInv == PresentHaveLines /\ ValuesHaveLines /\ LinesAreAccepted /\ OneLineEach

LEMMA InitOutcome == Init => OutcomeInv
<1> SUFFICES ASSUME Init PROVE OutcomeInv
  OBVIOUS
<1>1. 1..Len(handled) = {} /\ present = {} /\ \A f \in Field : val[f] = nullopt
  BY DEF Init
<1> QED
  BY <1>1 DEF OutcomeInv, PresentHaveLines, ValuesHaveLines, LinesAreAccepted, OneLineEach

\* A line that is kept says the same.
LEMMA LineStays ==
    ASSUME input' = input, NEW k, handled'[k] = handled[k]
    PROVE  /\ LineOf(k)' = LineOf(k) /\ IdOf(k)' = IdOf(k) /\ TextOf(k)' = TextOf(k)
           /\ HasId(k)' <=> HasId(k)
           /\ \A f : IsFor(k, f)' <=> IsFor(k, f)
<1>1. LineOf(k)' = LineOf(k)
  BY DEF LineOf, substr
<1>2. IdOf(k)' = IdOf(k) /\ TextOf(k)' = TextOf(k) /\ (HasId(k)' <=> HasId(k))
  BY <1>1 DEF IdOf, TextOf, HasId
<1> QED
  BY <1>1, <1>2 DEF IsFor

LEMMA StoredStays ==
    ASSUME input' = input, NEW k, handled'[k] = handled[k],
           NEW f \in Field, val'[f] = val[f]
    PROVE  StoredFrom(k, f) => StoredFrom(k, f)'
BY LineStays DEF StoredFrom

\* While parse runs it has accepted every line so far.
LEMMA AllAccepted ==
    ASSUME OutcomeInv, loop # "returned"
    PROVE  /\ \A k \in 1..Len(handled) : IsAccepted(k)
           /\ \A j, k \in 1..Len(handled), f \in Field :
                ~(IsFor(j, f) /\ IsFor(k, f) /\ j < k)
BY DEF OutcomeInv, LinesAreAccepted, OneLineEach, IsRefused

LEMMA AcceptedStays ==
    ASSUME UNCHANGED arguments, NEW k, handled'[k] = handled[k], IsAccepted(k),
           \A f \in Field : IsFor(k, f) => val'[f] = val[f]
    PROVE  IsAccepted(k)'
<1>1. input' = input /\ unknown_error' = unknown_error
  BY DEF arguments
<1>2. CASE k # 1 /\ LineOf(k) = <<>>
  BY <1>1, <1>2, LineStays DEF IsAccepted
<1>3. CASE HasId(k) /\ ~IsKnown(IdOf(k)) /\ (k # 1 => ~unknown_error)
  BY <1>1, <1>3, LineStays DEF IsAccepted
<1>4. ASSUME NEW f \in Field, StoredFrom(k, f),
             k # 1 => ParseField(f, TextOf(k)).rest = <<>>
      PROVE  IsAccepted(k)'
  <2>1. StoredFrom(k, f)'
    BY <1>1, <1>4, StoredStays DEF StoredFrom
  <2>2. TextOf(k)' = TextOf(k)
    BY <1>1, LineStays
  <2> QED
    BY <1>4, <2>1, <2>2 DEF IsAccepted
<1> QED
  BY <1>2, <1>3, <1>4 DEF IsAccepted

LEMMA QuietOutcome ==
    ASSUME OutcomeInv, loop # "returned", UNCHANGED arguments, StoreNothing
    PROVE  OutcomeInv'
<1>1. /\ input' = input /\ handled' = handled /\ present' = present /\ val' = val
  BY DEF arguments, StoreNothing, data
<1>2. \A k : /\ \A f : IsFor(k, f)' <=> IsFor(k, f)
             /\ \A f \in Field : StoredFrom(k, f) => StoredFrom(k, f)'
  BY <1>1, LineStays, StoredStays
<1>3. PresentHaveLines'
  BY <1>1, <1>2 DEF OutcomeInv, PresentHaveLines
<1>4. ValuesHaveLines'
  BY <1>1, <1>2 DEF OutcomeInv, ValuesHaveLines
<1>5. LinesAreAccepted'
  BY <1>1, AllAccepted, AcceptedStays DEF LinesAreAccepted
<1>6. OneLineEach'
  BY <1>1, <1>2, AllAccepted DEF OneLineEach
<1> QED
  BY <1>3, <1>4, <1>5, <1>6 DEF OutcomeInv

\* What parsing a line does to the fields, if it has an id.
Takes(res, hasId, id, text) ==
    IF hasId /\ IsKnown(id)
    THEN /\ res.present = present \cup {FieldOf(id)}
         /\ \/ ~res.ok /\ res.val = val
            \/ /\ FieldOf(id) \notin present
               /\ ParseField(FieldOf(id), text).ok
               /\ res.val = [val EXCEPT ![FieldOf(id)] = ParseField(FieldOf(id), text).out]
    ELSE res.present = present /\ res.val = val

LEMMA DataLineTakes ==
    ASSUME NEW id, NEW s
    PROVE  /\ Takes(ParsedDataParseLine(id, s), TRUE, id, s)
           /\ LET res == ParsedDataParseLine(id, s)
              IN  IsKnown(id) /\ res.ok => res.rest = ParseField(FieldOf(id), s).rest
<1> DEFINE f == FieldOf(id)
           res == ParsedDataParseLine(id, s)
<1>1. CASE ~IsKnown(id)
  BY <1>1 DEF ParsedDataParseLine, Takes
<1>2. CASE IsKnown(id) /\ ~MayStore(f)
  <2>1. res.ok = FALSE /\ res.present = present /\ res.val = val
    BY <1>2 DEF ParsedDataParseLine
  <2>2. present = present \cup {f}
    BY <1>2 DEF MayStore
  <2> QED
    BY <1>2, <2>1, <2>2 DEF Takes
<1>3. CASE IsKnown(id) /\ MayStore(f)
  <2>1. /\ res.ok = ParseField(f, s).ok
        /\ res.rest = ParseField(f, s).rest
        /\ res.present = present \cup {f}
        /\ res.val = IF ParseField(f, s).ok THEN [val EXCEPT ![f] = ParseField(f, s).out] ELSE val
    BY <1>3 DEF ParsedDataParseLine, Succeeds
  <2> QED
    BY <1>3, <2>1 DEF Takes, MayStore
<1> QED
  BY <1>1, <1>2, <1>3

\* The line that AfterLine stores is the last one.
LEMMA NewLine ==
    ASSUME IInv, UNCHANGED arguments, handled' = Append(handled, <<line_start, pos>>),
           NEW K, K = Len(handled) + 1
    PROVE  /\ Len(handled) \in Nat
           /\ Len(handled') = K
           /\ LineOf(K)' = substr(line_start, pos)
           /\ \A k \in 1..Len(handled) : handled'[k] = handled[k]
<1>1. handled \in Seq(Int \X Int) /\ line_start \in Int /\ pos \in Int /\ input' = input
  BY DEF IInv, TypeOK, Size, arguments
<1>2. /\ Len(handled) \in Nat
      /\ Len(handled') = K
      /\ handled'[K] = <<line_start, pos>>
      /\ \A k \in 1..Len(handled) : handled'[k] = handled[k]
  BY <1>1
<1> QED
  BY <1>1, <1>2 DEF LineOf, substr

\* A field is present as soon as a line for it was handed over, so that a second
\* line for it is refused.
LEMMA LineOutcome ==
    ASSUME IInv, OutcomeInv, loop # "returned", NEW res, AfterLine(res),
           NEW K, K = Len(handled) + 1, NEW hasId \in BOOLEAN, NEW id, NEW text,
           HasId(K)' <=> hasId, IdOf(K)' = id, TextOf(K)' = text,
           Takes(res, hasId, id, text),
           res.ok => \/ K # 1 /\ LineOf(K)' = <<>> /\ ~hasId
                     \/ hasId /\ ~IsKnown(id) /\ (K # 1 => ~unknown_error)
                     \/ /\ hasId /\ IsKnown(id)
                        /\ K # 1 => ParseField(FieldOf(id), text).rest = <<>>
    PROVE  OutcomeInv'
<1> DEFINE f == FieldOf(id)
<1>1. /\ UNCHANGED arguments /\ input' = input /\ unknown_error' = unknown_error
      /\ handled' = Append(handled, <<line_start, pos>>)
      /\ present' = res.present /\ val' = res.val
  BY DEF AfterLine, Store, arguments
<1>2. /\ Len(handled) \in Nat /\ Len(handled') = K /\ K \in 1..K
      /\ 1..K = (1..Len(handled)) \cup {K}
      /\ \A k \in 1..Len(handled) : handled'[k] = handled[k] /\ k < K
  BY <1>1, NewLine
<1>3. \A k \in 1..Len(handled) : \A g : IsFor(k, g)' <=> IsFor(k, g)
  BY <1>1, <1>2, LineStays
<1>4. \A g : IsFor(K, g)' <=> hasId /\ IsKnown(id) /\ g = f
  BY DEF IsFor
<1>5. /\ val \in [Field -> Seq(Char) \cup {nullopt}]
      /\ \A g \in Field : g \in present <=> \E k \in 1..Len(handled) : IsFor(k, g)
      /\ \A g \in Field \ present : val[g] = nullopt
      /\ present \subseteq Field
  BY DEF IInv, ValuesTyped, ValuesOfPresent, OutcomeInv, PresentHaveLines
\* What the line has stored, if anything.
<1>6. \/ val' = val /\ (hasId /\ IsKnown(id) => ~res.ok)
      \/ /\ hasId /\ IsKnown(id) /\ f \in Field \ present
         /\ val' = [val EXCEPT ![f] = ParseField(f, text).out]
         /\ StoredFrom(K, f)'
  <2>1. CASE val' = val /\ (hasId /\ IsKnown(id) => ~res.ok)
    BY <2>1
  <2>2. CASE /\ hasId /\ IsKnown(id) /\ f \notin present
             /\ ParseField(f, text).ok
             /\ val' = [val EXCEPT ![f] = ParseField(f, text).out]
    <3>1. f \in Field \ present
      BY <2>2, FieldOfIsField
    <3>2. val'[f] = ParseField(f, text).out
      BY <1>5, <2>2, <3>1
    <3>3. IsFor(K, f)'
      BY <1>4, <2>2
    <3>4. StoredFrom(K, f)'
      BY <2>2, <3>2, <3>3 DEF StoredFrom
    <3> QED
      BY <2>2, <3>1, <3>4
  <2> QED
    BY <1>1, <2>1, <2>2 DEF Takes
<1>7. \A g \in Field : val[g] # nullopt => val'[g] = val[g]
  BY <1>5, <1>6
<1>8. PresentHaveLines'
  <2>1. ASSUME NEW g \in Field
        PROVE  g \in present' <=> \E k \in 1..K : IsFor(k, g)'
    <3>1. g \in present' <=> g \in present \/ (hasId /\ IsKnown(id) /\ g = f)
      BY <1>1 DEF Takes
    <3> QED
      BY <1>2, <1>3, <1>4, <1>5, <3>1
  <2> QED
    BY <1>2, <2>1 DEF PresentHaveLines
<1>9. ValuesHaveLines'
  <2>1. ASSUME NEW g \in Field, val'[g] # nullopt
        PROVE  \E k \in 1..K : StoredFrom(k, g)'
    <3>1. CASE val[g] # nullopt
      <4>1. PICK k \in 1..Len(handled) : StoredFrom(k, g)
        BY <3>1 DEF OutcomeInv, ValuesHaveLines
      <4>2. StoredFrom(k, g)'
        BY <1>1, <1>2, <1>7, <3>1, <4>1, StoredStays
      <4> QED
        BY <1>2, <4>2
    <3>2. CASE val[g] = nullopt
      <4>1. StoredFrom(K, f)' /\ val' = [val EXCEPT ![f] = ParseField(f, text).out]
        BY <1>6, <2>1, <3>2
      <4>2. g = f
        BY <1>5, <2>1, <3>2, <4>1
      <4> QED
        BY <1>2, <4>1, <4>2
    <3> QED
      BY <3>1, <3>2
  <2> QED
    BY <1>2, <2>1 DEF ValuesHaveLines
<1>10. \A k \in 1..Len(handled) : IsAccepted(k)'
  <2>1. ASSUME NEW k \in 1..Len(handled) PROVE IsAccepted(k)'
    <3>1. \A g \in Field : IsFor(k, g) => val'[g] = val[g]
      <4>1. ASSUME NEW g \in Field, IsFor(k, g) PROVE val'[g] = val[g]
        <5>1. g \in present
          BY <1>5, <4>1
        <5> QED
          BY <1>5, <1>6, <5>1
      <4> QED
        BY <4>1
    <3> QED
      BY <1>1, <1>2, <3>1, AllAccepted, AcceptedStays
  <2> QED
    BY <2>1
<1>11. res.ok => IsAccepted(K)'
  <2>1. SUFFICES ASSUME res.ok PROVE IsAccepted(K)'
    OBVIOUS
  <2>2. CASE K # 1 /\ LineOf(K)' = <<>> /\ ~hasId
    BY <2>2 DEF IsAccepted
  <2>3. CASE hasId /\ ~IsKnown(id) /\ (K # 1 => ~unknown_error)
    BY <1>1, <2>3 DEF IsAccepted
  <2>4. CASE /\ hasId /\ IsKnown(id)
             /\ K # 1 => ParseField(f, text).rest = <<>>
    <3>1. f \in Field /\ StoredFrom(K, f)'
      BY <1>6, <2>1, <2>4
    <3> QED
      BY <2>4, <3>1 DEF IsAccepted
  <2> QED
    BY <2>1, <2>2, <2>3, <2>4
<1>12. ~res.ok => IsRefused(K)'
  BY <1>2 DEF AfterLine, Return, IsRefused
<1>13. LinesAreAccepted'
  <2>1. \A k \in 1..K : IsAccepted(k)' \/ IsRefused(k)'
    BY <1>2, <1>10, <1>11, <1>12
  <2> QED
    BY <1>2, <2>1 DEF LinesAreAccepted
<1>14. OneLineEach'
  <2>1. ASSUME NEW j \in 1..K, NEW k \in 1..K, NEW g \in Field,
               IsFor(j, g)', IsFor(k, g)', j < k
        PROVE  IsRefused(k)'
    <3>1. j \in 1..Len(handled)
      BY <1>2, <2>1
    <3>2. IsFor(j, g) /\ g \in present
      BY <1>3, <1>5, <2>1, <3>1
    <3>3. CASE k \in 1..Len(handled)
      BY <1>3, <2>1, <3>1, <3>2, <3>3, AllAccepted
    <3>4. CASE k = K
      <4>1. hasId /\ IsKnown(id) /\ g = f
        BY <1>4, <2>1, <3>4
      <4>2. ~res.ok
        BY <1>6, <3>2, <4>1
      <4> QED
        BY <1>12, <3>4, <4>2
    <3> QED
      BY <1>2, <3>3, <3>4
  <2> QED
    BY <1>2, <2>1 DEF OneLineEach
<1> QED
  BY <1>8, <1>9, <1>13, <1>14 DEF OutcomeInv

LEMMA IdLineOutcome ==
    ASSUME IInv, WholeInv, OutcomeInv, IdLineEnd
    PROVE  OutcomeInv'
<1> DEFINE text == substr(line_start, pos)
           res == ParsedDataParseLine(identification, text)
<1>1. /\ AfterLine(res) /\ loop # "returned"
      /\ UNCHANGED arguments /\ handled' = Append(handled, <<line_start, pos>>)
  BY DEF IdLineEnd, AfterLine, Store
<1>2. 1 = Len(handled) + 1
  BY DEF IdLineEnd, WholeInv, DataLine
<1>3. LineOf(1)' = text
  BY <1>1, <1>2, NewLine
<1>4. HasId(1)' /\ IdOf(1)' = identification /\ TextOf(1)' = text
  BY <1>3 DEF HasId, IdOf, TextOf
<1>5. Takes(res, TRUE, identification, text)
  BY DataLineTakes
<1> HIDE DEF res, text
<1> QED
  BY <1>1, <1>2, <1>4, <1>5, LineOutcome

LEMMA DataLineOutcome ==
    ASSUME IInv, WholeInv, OutcomeInv, LineEnd
    PROVE  OutcomeInv'
<1> DEFINE line == substr(line_start, pos)
           hasId == line # <<>> /\ HasObis(line)
           id == SubSeq(line, 1, IdLength(line))
           text == Rest(line, IdLength(line))
           taken == ParsedDataParseLine(id, text)
           res == ParseLine(line)
<1>1. /\ AfterLine(res) /\ loop # "returned"
      /\ UNCHANGED arguments /\ handled' = Append(handled, <<line_start, pos>>)
  BY DEF LineEnd, InDataLine, AfterLine, Store
<1>2. PICK K : K = Len(handled) + 1
  OBVIOUS
<1>3. K # 1
  <2>1. handled # <<>> /\ handled \in Seq(Int \X Int)
    <3>1. loop = "data_lines" /\ pos < Size
      BY DEF LineEnd, InDataLine
    <3>2. handled # <<>>
      BY <3>1, InLine DEF WholeInv, DataLine
    <3> QED
      BY <3>2 DEF IInv
  <2>2. Len(handled) \in Nat /\ Len(handled) # 0
    BY <2>1
  <2> QED
    BY <1>2, <2>2
<1>4. LineOf(K)' = line
  BY <1>1, <1>2, NewLine
<1>5. (HasId(K)' <=> hasId) /\ IdOf(K)' = id /\ TextOf(K)' = text
  BY <1>3, <1>4 DEF HasId, IdOf, TextOf
<1>6. CASE hasId
  <2>1. /\ res.present = taken.present /\ res.val = taken.val
        /\ res.ok <=> /\ taken.ok
                      /\ IsKnown(id) => taken.rest = <<>>
                      /\ unknown_error => IsKnown(id)
    BY <1>6 DEF ParseLine
  <2>2. Takes(taken, TRUE, id, text)
    BY DataLineTakes
  <2>3. IsKnown(id) /\ taken.ok => taken.rest = ParseField(FieldOf(id), text).rest
    BY DataLineTakes
  <2> HIDE DEF res, taken, id, text, line, hasId
  <2>4. Takes(res, TRUE, id, text)
    BY <2>1, <2>2 DEF Takes
  <2>5. res.ok => \/ ~IsKnown(id) /\ (K # 1 => ~unknown_error)
                  \/ /\ IsKnown(id)
                     /\ K # 1 => ParseField(FieldOf(id), text).rest = <<>>
    BY <2>1, <2>3
  <2> QED
    BY <1>1, <1>2, <1>5, <1>6, <2>4, <2>5, LineOutcome
<1>7. CASE ~hasId
  <2>1. res.ok = (line = <<>>) /\ res.present = present /\ res.val = val
    BY <1>7 DEF ParseLine
  <2>2. Takes(res, FALSE, id, text)
    BY <2>1 DEF Takes
  <2>3. res.ok => K # 1 /\ LineOf(K)' = <<>>
    BY <1>3, <1>4, <2>1
  <2> HIDE DEF res, taken, id, text, line, hasId
  <2> QED
    BY <1>1, <1>2, <1>5, <1>7, <2>2, <2>3, LineOutcome
<1> QED
  BY <1>6, <1>7

LEMMA NextOutcome == IInv /\ WholeInv /\ OutcomeInv /\ [Next]_vars => OutcomeInv'
<1> SUFFICES ASSUME IInv, WholeInv, OutcomeInv, [Next]_vars PROVE OutcomeInv'
  OBVIOUS
<1>1. CASE IdLineByte \/ BreakInLine \/ OtherByte \/ IdLineMissing \/ Finish
  <2>1. loop # "returned" /\ UNCHANGED arguments /\ StoreNothing
    BY <1>1 DEF IdLineByte, BreakInLine, OtherByte, IdLineMissing, Finish, InDataLine, ToNextChar
  <2> QED
    BY <2>1, QuietOutcome
<1>2. CASE OpenByte \/ CloseByte
  <2>1. loop # "returned" /\ UNCHANGED arguments /\ StoreNothing
    BY <1>2 DEF OpenByte, CloseByte, BracketByte, InDataLine
  <2> QED
    BY <2>1, QuietOutcome
<1>3. CASE UNCHANGED vars
  <2>1. UNCHANGED arguments /\ StoreNothing /\ UNCHANGED <<loop, result>>
    BY <1>3 DEF vars, StoreNothing
  <2>2. CASE loop # "returned"
    BY <2>1, <2>2, QuietOutcome
  <2>3. CASE loop = "returned"
    <3>1. /\ input' = input /\ unknown_error' = unknown_error /\ handled' = handled
          /\ present' = present /\ val' = val /\ loop' = loop /\ result' = result
      BY <2>1 DEF arguments, StoreNothing, data
    <3>2. \A k : /\ \A f : IsFor(k, f)' <=> IsFor(k, f)
                 /\ \A f \in Field : StoredFrom(k, f) => StoredFrom(k, f)'
                 /\ IsRefused(k)' <=> IsRefused(k)
                 /\ IsAccepted(k) => IsAccepted(k)'
      BY <2>1, <3>1, LineStays, StoredStays, AcceptedStays DEF IsRefused
    <3> QED
      BY <3>1, <3>2
      DEF OutcomeInv, PresentHaveLines, ValuesHaveLines, LinesAreAccepted, OneLineEach
  <2> QED
    BY <2>2, <2>3
<1> QED
  BY <1>1, <1>2, <1>3, IdLineOutcome, DataLineOutcome DEF Next

\* The outcome of parse is that of the lines it has found, in any telegram and for
\* any fields.  A field is present exactly if one of them is for it; it has a value
\* only from such a line, the one its own parse found there; every line but the one
\* parse failed on is empty, for no field, or stored and read to its end; and no two of
\* these are for one field.
THEOREM OutcomeOfLines ==
    Spec => [](PresentHaveLines /\ ValuesHaveLines /\ LinesAreAccepted /\ OneLineEach)
<1>1. Spec => []OutcomeInv
  BY InitOutcome, NextOutcome, InitWhole, NextWhole, Invariance, PTL DEF Spec
<1>2. OutcomeInv => PresentHaveLines /\ ValuesHaveLines /\ LinesAreAccepted /\ OneLineEach
  BY DEF OutcomeInv
<1> QED
  BY <1>1, <1>2, PTL

-------------------------------------------------------------------------------
(* What Terminates rests on *)

\* An upper bound on the turns the two loops of parse still take.
TurnsLeft ==
    (Size - pos) + (IF loop = "id_line" THEN 2 ELSE IF loop = "data_lines" THEN 1 ELSE 0)

\* Every turn of a loop of parse moves on in the text, enters the second loop or
\* returns: no text keeps a call in a loop for more than its length and two turns.
THEOREM EveryTurnCounts ==
    Spec => [](TurnsLeft \in Nat) /\ [][TurnsLeft' < TurnsLeft]_vars
<1>1. IInv => TurnsLeft \in Nat
  BY DEF IInv, TypeOK, Size, TurnsLeft
<1>2. IInv /\ [Next]_vars => [TurnsLeft' < TurnsLeft]_vars
  <2> SUFFICES ASSUME IInv, Next PROVE TurnsLeft' < TurnsLeft
    OBVIOUS
  <2>1. /\ pos \in Int /\ Size \in Int /\ Size' = Size
        /\ loop \in {"id_line", "data_lines"}
    <3>1. input' = input /\ loop \in {"id_line", "data_lines"}
      BY DEF Next, IdLineByte, IdLineEnd, IdLineMissing, OpenByte, CloseByte, BracketByte,
             BreakInLine, LineEnd, OtherByte, Finish, ToNextChar, AfterLine, arguments, InDataLine
    <3> QED
      BY <3>1, Positioned DEF Size
  <2>2. \/ pos' \in Int /\ pos' >= pos + 1 /\ loop' = loop
        \/ pos' \in Int /\ pos' >= pos /\ loop = "id_line" /\ loop' = "data_lines"
        \/ pos' \in Int /\ pos' >= pos /\ loop' = "returned"
    <3>1. CASE IdLineByte \/ BreakInLine \/ OtherByte
      BY <2>1, <3>1 DEF IdLineByte, BreakInLine, OtherByte, ToNextChar, Continue
    <3>2. CASE IdLineEnd
      <4>1. PICK res : AfterLine(res)
        BY <3>2 DEF IdLineEnd
      <4> QED
        BY <2>1, <3>2, <4>1 DEF IdLineEnd, AfterLine, Return
    <3>3. CASE LineEnd
      <4>1. PICK res : AfterLine(res)
        BY <3>3 DEF LineEnd
      <4> QED
        BY <2>1, <3>3, <4>1 DEF LineEnd, InDataLine, AfterLine, Return
    <3>4. CASE OpenByte \/ CloseByte
      BY <2>1, <3>4 DEF OpenByte, CloseByte, BracketByte, Return, Continue
    <3>5. CASE IdLineMissing \/ Finish
      BY <2>1, <3>5 DEF IdLineMissing, Finish, Return
    <3> QED
      BY <3>1, <3>2, <3>3, <3>4, <3>5 DEF Next
  <2> QED
    BY <2>1, <2>2 DEF TurnsLeft
<1> QED
  BY <1>1, <1>2, Invariance, PTL DEF Spec

-------------------------------------------------------------------------------
(* The lines of a telegram *)

Width(l) == IF l.doubled THEN 2 ELSE 1

LEMMA BracketedIs ==
    ASSUME NEW v \in Seq(Char), NEW d \in BOOLEAN
    PROVE  LET b == Bracketed(v, d)
               w == IF d THEN 2 ELSE 1
           IN  /\ b \in Seq(Char) /\ Len(b) = 2 * w + Len(v) /\ Len(v) \in Nat
               /\ \A i \in 1..w : b[i] = OpenBracket
               /\ \A i \in 1..Len(v) : b[w + i] = v[i]
               /\ \A i \in 1..w : b[w + Len(v) + i] = CloseBracket
<1> DEFINE w == IF d THEN 2 ELSE 1
           opens == IF d THEN <<OpenBracket, OpenBracket>> ELSE <<OpenBracket>>
           closes == IF d THEN <<CloseBracket, CloseBracket>> ELSE <<CloseBracket>>
           a == opens \o v
           b == a \o closes
<1>1. OpenBracket \in Char /\ CloseBracket \in Char
  BY CharAssumption
<1>2. /\ opens \in Seq(Char) /\ closes \in Seq(Char) /\ w \in 1..2
      /\ Len(opens) = w /\ Len(closes) = w
      /\ \A i \in 1..w : opens[i] = OpenBracket /\ closes[i] = CloseBracket
  BY <1>1
<1>3. Bracketed(v, d) = b
  BY DEF Bracketed
<1>4. Len(v) \in Nat
  OBVIOUS
<1> HIDE DEF opens, closes, w
<1>5. /\ a \in Seq(Char) /\ Len(a) = w + Len(v)
      /\ \A i \in 1..(w + Len(v)) : a[i] = IF i <= w THEN opens[i] ELSE v[i - w]
  BY <1>2, ConcatProperties
<1> HIDE DEF a
<1>6. /\ b \in Seq(Char) /\ Len(b) = (w + Len(v)) + w
      /\ \A i \in 1..((w + Len(v)) + w) :
            b[i] = IF i <= w + Len(v) THEN a[i] ELSE closes[i - (w + Len(v))]
  BY <1>2, <1>5, ConcatProperties
<1> HIDE DEF b
<1>7. ASSUME NEW i \in 1..w PROVE b[i] = OpenBracket /\ b[w + Len(v) + i] = CloseBracket
  <2>1. /\ i \in 1..(w + Len(v)) /\ i \in 1..((w + Len(v)) + w) /\ i <= w /\ i <= w + Len(v)
        /\ w + Len(v) + i \in 1..((w + Len(v)) + w) /\ ~(w + Len(v) + i <= w + Len(v))
        /\ (w + Len(v) + i) - (w + Len(v)) = i
    BY <1>2, <1>4
  <2> QED
    BY <1>2, <1>5, <1>6, <2>1
<1>8. ASSUME NEW i \in 1..Len(v) PROVE b[w + i] = v[i]
  <2>1. /\ w + i \in 1..(w + Len(v)) /\ w + i \in 1..((w + Len(v)) + w)
        /\ w + i <= w + Len(v) /\ ~(w + i <= w) /\ (w + i) - w = i
    BY <1>2, <1>4
  <2> QED
    BY <1>5, <1>6, <2>1
<1>9. (w + Len(v)) + w = 2 * w + Len(v)
  BY <1>2, <1>4
<1> QED
  BY <1>3, <1>4, <1>6, <1>7, <1>8, <1>9 DEF w

\* At place a of p stand w opening brackets, n characters that are no brackets, and
\* w closing brackets.
IsValue(p, a, w, n) ==
    /\ \A i \in 1..w : p[a + i] = OpenBracket
    /\ \A i \in 1..n : p[a + w + i] \notin {OpenBracket, CloseBracket}
    /\ \A i \in 1..w : p[a + w + n + i] = CloseBracket

\* Value j of a line, in its payload.
LEMMA ValueAt ==
    ASSUME NEW l, IsLine(l), NEW j \in 1..Len(l.values)
    PROVE  LET w == Width(l)
               v == l.values[j]
               a == l.at[j]
               p == l.payload
           IN  /\ w \in 1..2 /\ v \in Seq(Char) /\ Len(v) \in Nat /\ a \in Nat
               /\ EndOf(l, j) = a + 2 * w + Len(v) /\ EndOf(l, j) <= Len(p)
               /\ IsValue(p, a, w, Len(v))
               /\ \A i \in 1..Len(v) : p[a + w + i] = v[i]
<1> DEFINE w == Width(l)
           v == l.values[j]
           a == l.at[j]
           p == l.payload
           b == Bracketed(v, l.doubled)
<1>1. v \in Seq(Char \ {OpenBracket, CloseBracket}) /\ l.doubled \in BOOLEAN /\ j \in Nat /\ j # 0
  BY DEF IsLine
<1>2. v \in Seq(Char) /\ \A i \in 1..Len(v) : v[i] \notin {OpenBracket, CloseBracket}
  BY <1>1
<1>3. DOMAIN l.values = 1..Len(l.values)
  BY DEF IsLine
<1>4. a \in Nat /\ a + Len(b) <= Len(p) /\ \A i \in 1..Len(b) : p[a + i] = b[i]
  BY <1>3 DEF IsLine, Stands
<1>5. EndOf(l, j) = a + Len(b)
  BY <1>1 DEF EndOf
<1>6. /\ Len(b) = 2 * w + Len(v) /\ Len(v) \in Nat /\ w \in 1..2
      /\ \A i \in 1..w : b[i] = OpenBracket
      /\ \A i \in 1..Len(v) : b[w + i] = v[i]
      /\ \A i \in 1..w : b[w + Len(v) + i] = CloseBracket
  <2>1. w = IF l.doubled THEN 2 ELSE 1
    BY DEF Width
  <2> DEFINE d == l.doubled
  <2>2. v \in Seq(Char) /\ d \in BOOLEAN
    BY <1>1, <1>2
  <2> HIDE DEF v, w, d
  <2>3. /\ Len(Bracketed(v, d)) = 2 * (IF d THEN 2 ELSE 1) + Len(v) /\ Len(v) \in Nat
        /\ \A i \in 1..(IF d THEN 2 ELSE 1) : Bracketed(v, d)[i] = OpenBracket
        /\ \A i \in 1..Len(v) : Bracketed(v, d)[(IF d THEN 2 ELSE 1) + i] = v[i]
        /\ \A i \in 1..(IF d THEN 2 ELSE 1) :
                Bracketed(v, d)[(IF d THEN 2 ELSE 1) + Len(v) + i] = CloseBracket
    BY <2>2, BracketedIs
  <2>4. w = IF d THEN 2 ELSE 1
    BY <2>1 DEF d
  <2>5. w \in 1..2
    BY <2>4
  <2> QED
    BY <2>3, <2>4, <2>5 DEF d
<1> HIDE DEF v, a, p, b, w
<1>0. a \in Nat /\ Len(v) \in Nat /\ w \in Nat /\ w >= 1 /\ Len(b) = w + w + Len(v)
  BY <1>4, <1>6
<1>7. ASSUME NEW i \in 1..w
      PROVE  p[a + i] = OpenBracket /\ p[a + w + Len(v) + i] = CloseBracket
  <2>1. i \in 1..Len(b) /\ w + Len(v) + i \in 1..Len(b) /\ a + (w + Len(v) + i) = a + w + Len(v) + i
    BY <1>0
  <2> QED
    BY <1>4, <1>6, <2>1
<1>8. ASSUME NEW i \in 1..Len(v) PROVE p[a + w + i] = v[i]
  <2>1. w + i \in 1..Len(b) /\ a + (w + i) = a + w + i
    BY <1>0
  <2> QED
    BY <1>4, <1>6, <2>1
<1>9. a + Len(b) = a + 2 * w + Len(v)
  BY <1>4, <1>6
<1>10. IsValue(p, a, w, Len(v))
  BY <1>2, <1>7, <1>8 DEF IsValue
<1> QED
  BY <1>2, <1>4, <1>5, <1>6, <1>8, <1>9, <1>10 DEF v, a, p, w

\* What is between values.
LEMMA GapBefore ==
    ASSUME NEW l, IsLine(l), NEW j \in 1..Len(l.values)
    PROVE  /\ EndOf(l, j - 1) \in Nat
           /\ l.at[j] \in EndOf(l, j - 1)..(EndOf(l, j - 1) + 2)
           /\ j = 1 => l.at[j] = 0
           /\ \A i \in (EndOf(l, j - 1) + 1)..l.at[j] : l.payload[i] \in LineBreak
<1>1. j \in DOMAIN l.values /\ l.at[j] \in Nat
  BY DEF IsLine
<1>2. EndOf(l, j - 1) \in Nat
  <2>1. CASE j = 1
    BY <2>1 DEF EndOf
  <2>2. CASE j # 1
    <3>1. j - 1 \in 1..Len(l.values)
      BY <2>2 DEF IsLine
    <3>2. /\ Width(l) \in 1..2 /\ Len(l.values[j - 1]) \in Nat /\ l.at[j - 1] \in Nat
          /\ EndOf(l, j - 1) = l.at[j - 1] + 2 * Width(l) + Len(l.values[j - 1])
      BY <3>1, ValueAt
    <3> DEFINE w == Width(l)
               n == Len(l.values[j - 1])
               a == l.at[j - 1]
    <3>3. w \in 1..2 /\ n \in Nat /\ a \in Nat /\ EndOf(l, j - 1) = a + 2 * w + n
      BY <3>2
    <3> HIDE DEF w, n, a
    <3> QED
      BY <3>3
  <2> QED
    BY <2>1, <2>2
<1>3. l.at[j] - EndOf(l, j - 1) \in (IF j = 1 THEN {0} ELSE 0..2)
  BY <1>1 DEF IsLine
<1>4. j = 1 => EndOf(l, j - 1) = 0
  BY DEF EndOf
<1>5. \A i \in (EndOf(l, j - 1) + 1)..l.at[j] : l.payload[i] \in LineBreak
  BY <1>1 DEF IsLine
<1> QED
  BY <1>1, <1>2, <1>3, <1>4, <1>5

\* The id of a line and what follows it.
Text(l) == l.id \o l.payload

LEMMA PayloadBegins ==
    ASSUME NEW l, IsLine(l)
    PROVE  /\ l.id \in Seq(Char) /\ Len(l.id) \in Nat /\ l.payload \in Seq(Char) /\ Len(l.payload) \in Nat
           /\ Len(l.values) \in Nat
           /\ \A i \in 1..Len(l.id) : l.id[i] \in IdChar
           /\ l.id = <<>> => l.values = <<>> /\ l.payload = <<>>
           /\ l.id # <<>> =>
                Len(l.id) > 1 /\ Len(l.values) > 0 /\ Len(l.payload) > 1 /\ l.payload[1] = OpenBracket
<1>1. /\ l.id \in Seq(IdChar) /\ Len(l.id) # 1 /\ (l.id = <<>> <=> l.values = <<>>)
      /\ l.payload \in Seq(Char) /\ l.values \in Seq(Seq(Char \ {OpenBracket, CloseBracket}))
      /\ Len(l.payload) = EndOf(l, Len(l.values))
  BY DEF IsLine
<1>2. l.id \in Seq(Char)
  <2>1. IdChar \subseteq Char
    BY CharAssumption
  <2> QED
    BY <1>1, <2>1
<1>3. CASE l.id = <<>>
  <2>1. l.values = <<>> /\ Len(l.values) = 0 /\ Len(l.payload) = 0 /\ Len(l.id) = 0
    BY <1>1, <1>3 DEF EndOf
  <2>2. l.payload = <<>>
    BY <1>1, <2>1
  <2> QED
    BY <1>1, <1>2, <1>3, <2>1, <2>2
<1>4. CASE l.id # <<>>
  <2>1. /\ Len(l.id) \in Nat /\ Len(l.id) # 0 /\ Len(l.values) \in Nat /\ Len(l.values) # 0
        /\ Len(l.payload) \in Nat
    BY <1>1, <1>4
  <2>2. 1 \in 1..Len(l.values)
    BY <2>1
  <2>3. l.at[1] = 0
    BY <2>2, GapBefore
  <2>4. /\ Width(l) \in 1..2 /\ Len(l.values[1]) \in Nat
        /\ EndOf(l, 1) = l.at[1] + 2 * Width(l) + Len(l.values[1]) /\ EndOf(l, 1) <= Len(l.payload)
        /\ \A i \in 1..Width(l) : l.payload[l.at[1] + i] = OpenBracket
    BY <2>2, ValueAt DEF IsValue
  <2>5. 1 \in 1..Width(l) /\ l.at[1] + 1 = 1
    BY <2>3, <2>4
  <2>6. l.payload[1] = OpenBracket
    BY <2>4, <2>5
  <2>7. Len(l.payload) > 1
    BY <2>1, <2>3, <2>4
  <2>8. Len(l.id) # 1 /\ l.payload \in Seq(Char) /\ \A i \in 1..Len(l.id) : l.id[i] \in IdChar
    BY <1>1
  <2>9. Len(l.id) > 1 /\ Len(l.values) > 0
    <3>1. \A n \in Nat : n # 0 /\ n # 1 => n > 1
      OBVIOUS
    <3>2. \A n \in Nat : n # 0 => n > 0
      OBVIOUS
    <3> QED
      BY <2>1, <2>8, <3>1, <3>2, Zenon
  <2> QED
    BY <1>2, <1>4, <2>1, <2>6, <2>7, <2>8, <2>9
<1> QED
  BY <1>3, <1>4

LEMMA TextIs ==
    ASSUME NEW l, IsLine(l)
    PROVE  /\ Text(l) \in Seq(Char) /\ Len(Text(l)) = Len(l.id) + Len(l.payload)
           /\ \A i \in 1..Len(l.id) : Text(l)[i] = l.id[i]
           /\ \A i \in 1..Len(l.payload) : Text(l)[Len(l.id) + i] = l.payload[i]
           /\ Text(l) = <<>> <=> l.id = <<>>
<1> DEFINE n == Len(l.id)
           m == Len(l.payload)
           x == Text(l)
<1>1. l.id \in Seq(Char) /\ n \in Nat /\ l.payload \in Seq(Char) /\ m \in Nat
  BY PayloadBegins
<1>2. /\ x \in Seq(Char) /\ Len(x) = n + m
      /\ \A i \in 1..(n + m) : x[i] = IF i <= n THEN l.id[i] ELSE l.payload[i - n]
  BY <1>1, ConcatProperties DEF Text
<1> HIDE DEF x, n, m
<1>3. ASSUME NEW i \in 1..n PROVE x[i] = l.id[i]
  BY <1>1, <1>2
<1>4. ASSUME NEW i \in 1..m PROVE x[n + i] = l.payload[i]
  <2>1. n + i \in 1..(n + m) /\ ~(n + i <= n) /\ (n + i) - n = i
    BY <1>1
  <2> QED
    BY <1>2, <2>1
<1>5. x = <<>> <=> l.id = <<>>
  <2>1. x = <<>> <=> n + m = 0
    <3>1. x = <<>> <=> Len(x) = 0
      BY <1>2
    <3> QED
      BY <1>2, <3>1
  <2>2. l.id = <<>> => n = 0 /\ m = 0
    BY PayloadBegins DEF n, m
  <2>3. l.id # <<>> => n > 1
    BY PayloadBegins DEF n, m
  <2> QED
    BY <1>1, <2>1, <2>2, <2>3
<1> QED
  BY <1>2, <1>3, <1>4, <1>5 DEF x, n, m

\* parse_obis finds the id.
LEMMA IdOfText ==
    ASSUME NEW l, IsLine(l)
    PROVE  /\ IdLength(Text(l)) = Len(l.id)
           /\ SubSeq(Text(l), 1, Len(l.id)) = l.id
           /\ Rest(Text(l), Len(l.id)) = l.payload
<1> DEFINE n == Len(l.id)
           m == Len(l.payload)
           x == Text(l)
<1>1. /\ x \in Seq(Char) /\ Len(x) = n + m /\ n \in Nat /\ m \in Nat
      /\ \A i \in 1..n : x[i] = l.id[i]
      /\ \A i \in 1..m : x[n + i] = l.payload[i]
  BY TextIs, PayloadBegins
<1>2. \A i \in 1..n : x[i] \in IdChar
  BY <1>1, PayloadBegins
<1>3. m > 0 => x[n + 1] = OpenBracket
  <2>1. ASSUME m > 0 PROVE x[n + 1] = OpenBracket
    <3>1. l.id # <<>>
      <4>1. l.id = <<>> => m = 0
        <5>1. l.id = <<>> => l.payload = <<>>
          BY PayloadBegins
        <5> QED
          BY <5>1
      <4> QED
        BY <2>1, <4>1
    <3>2. l.payload[1] = OpenBracket
      BY <3>1, PayloadBegins
    <3>3. 1 \in 1..m
      BY <1>1, <2>1
    <3> QED
      BY <1>1, <3>2, <3>3
  <2> QED
    BY <2>1
<1>4. OpenBracket \notin IdChar
  BY CharAssumption
<1>5. IdLength(x) = n
  <2> HIDE DEF x, n, m
  <2> DEFINE P(k) == /\ \A i \in 1..k : x[i] \in IdChar
                     /\ k < Len(x) => x[k + 1] \notin IdChar
  <2>1. n \in 0..Len(x) /\ P(n)
    BY <1>1, <1>2, <1>3, <1>4
  <2>2. ASSUME NEW k \in 0..Len(x), P(k) PROVE k = n
    <3>1. ~(k < n)
      <4>1. ASSUME k < n PROVE FALSE
        <5>1. k + 1 \in 1..n /\ k < Len(x)
          BY <1>1, <4>1
        <5> QED
          BY <1>2, <2>2, <5>1
      <4> QED
        BY <4>1
    <3>2. ~(n < k)
      <4>1. ASSUME n < k PROVE FALSE
        <5>1. n + 1 \in 1..k /\ m > 0
          BY <1>1, <4>1
        <5> QED
          BY <1>3, <1>4, <2>2, <5>1
      <4> QED
        BY <4>1
    <3> QED
      BY <1>1, <3>1, <3>2
  <2>3. IdLength(x) = CHOOSE k \in 0..Len(x) : P(k)
    BY DEF IdLength
  <2> HIDE DEF P
  <2> QED
    BY <2>1, <2>2, <2>3
<1>6. SubSeq(x, 1, n) = l.id
  <2> DEFINE a == SubSeq(x, 1, n)
             id == l.id
  <2>1. id \in Seq(Char) /\ Len(id) = n
    BY PayloadBegins
  <2> HIDE DEF x, n, m, id
  <2>2. a \in Seq(Char) /\ Len(a) = n /\ \A i \in 1..n : a[i] = x[i]
    BY <1>1
  <2>3. \A i \in 1..n : a[i] = id[i]
    BY <1>1, <2>2 DEF id
  <2> HIDE DEF a
  <2>4. a = id
    BY <2>1, <2>2, <2>3, SeqEqual
  <2> QED
    BY <2>4 DEF a, id
<1>7. Rest(x, n) = l.payload
  <2> DEFINE a == SubSeq(x, n + 1, n + m)
             p == l.payload
  <2>1. p \in Seq(Char) /\ Len(p) = m
    BY PayloadBegins
  <2> HIDE DEF x, n, m, p
  <2>2. a \in Seq(Char) /\ Len(a) = m /\ \A i \in 1..m : a[i] = x[n + i]
    BY <1>1
  <2>3. \A i \in 1..m : a[i] = p[i]
    BY <1>1, <2>2 DEF p
  <2>4. Rest(x, n) = a
    BY <1>1 DEF Rest
  <2> HIDE DEF a
  <2>5. a = p
    BY <2>1, <2>2, <2>3, SeqEqual
  <2> QED
    BY <2>4, <2>5 DEF p
<1> QED
  BY <1>5, <1>6, <1>7

\* The text of the first value as parse_string returns it.
FirstValue(l) ==
    IF l.doubled THEN <<OpenBracket>> \o l.values[1] \o <<CloseBracket>> ELSE l.values[1]

LEMMA FirstValueIs ==
    ASSUME NEW l, IsLine(l), l.id # <<>>
    PROVE  LET x == FirstValue(l)
               w == Width(l)
               n == Len(l.values[1])
               p == l.payload
           IN  /\ w \in 1..2 /\ n \in Nat
               /\ x \in Seq(Char) /\ Len(x) = 2 * w - 2 + n
               /\ \A i \in 1..Len(x) : p[1 + i] = x[i]
               /\ EndOf(l, 1) = 2 * w + n /\ EndOf(l, 1) <= Len(p) /\ Len(p) \in Nat
               /\ p[1] = OpenBracket
               /\ \A i \in 1..(w + n) : p[i] # CloseBracket
               /\ \A i \in 1..w : p[w + n + i] = CloseBracket
<1> DEFINE x == FirstValue(l)
           w == Width(l)
           v == l.values[1]
           n == Len(v)
           p == l.payload
<1>1. 1 \in 1..Len(l.values) /\ Len(p) \in Nat /\ p[1] = OpenBracket
  BY PayloadBegins
<1>2. l.at[1] = 0
  BY <1>1, GapBefore
<1>3. /\ w \in 1..2 /\ v \in Seq(Char) /\ n \in Nat
      /\ EndOf(l, 1) = l.at[1] + 2 * w + n /\ EndOf(l, 1) <= Len(p)
      /\ IsValue(p, l.at[1], w, n)
      /\ \A i \in 1..n : p[l.at[1] + w + i] = v[i]
  BY <1>1, ValueAt
<1> HIDE DEF x, w, v, n, p
<1>4. /\ EndOf(l, 1) = 2 * w + n
      /\ \A i \in 1..w : p[i] = OpenBracket
      /\ \A i \in 1..n : p[w + i] = v[i] /\ v[i] \notin {OpenBracket, CloseBracket}
      /\ \A i \in 1..w : p[w + n + i] = CloseBracket
  <2>1. IsValue(p, 0, w, n) /\ \A i \in 1..n : p[0 + w + i] = v[i]
    BY <1>2, <1>3
  <2>2. \A i \in Nat : 0 + i = i /\ 0 + w + i = w + i /\ 0 + w + n + i = w + n + i
    BY <1>3
  <2>3. \A i \in 1..w : p[i] = OpenBracket
    BY <2>1, <2>2 DEF IsValue
  <2>4. ASSUME NEW i \in 1..n PROVE p[w + i] = v[i] /\ v[i] \notin {OpenBracket, CloseBracket}
    BY <2>1, <2>2 DEF IsValue
  <2>5. \A i \in 1..w : p[w + n + i] = CloseBracket
    BY <2>1, <2>2 DEF IsValue
  <2>6. EndOf(l, 1) = 2 * w + n
    BY <1>2, <1>3
  <2> QED
    BY <2>3, <2>4, <2>5, <2>6
<1>5. OpenBracket # CloseBracket /\ OpenBracket \in Char /\ CloseBracket \in Char
  BY CharAssumption
<1>6. ASSUME NEW i \in 1..(w + n) PROVE p[i] # CloseBracket
  <2>1. CASE i <= w
    BY <1>3, <1>4, <1>5, <2>1
  <2>2. CASE i > w
    <3>1. i - w \in 1..n /\ w + (i - w) = i
      BY <1>3, <2>2
    <3> QED
      BY <1>4, <3>1
  <2> QED
    BY <1>3, <2>1, <2>2
<1>7. x \in Seq(Char) /\ Len(x) = 2 * w - 2 + n /\ \A i \in 1..Len(x) : p[1 + i] = x[i]
  <2>1. CASE ~l.doubled
    <3>1. x = v /\ w = 1
      BY <2>1 DEF x, w, v, FirstValue, Width
    <3> QED
      BY <1>3, <1>4, <3>1 DEF n
  <2>2. CASE l.doubled
    <3> DEFINE a == <<OpenBracket>> \o v
    <3>1. x = a \o <<CloseBracket>> /\ w = 2
      BY <2>2 DEF x, w, v, FirstValue, Width
    <3>2. a \in Seq(Char) /\ Len(a) = 1 + n /\ a[1] = OpenBracket /\ \A i \in 1..n : a[1 + i] = v[i]
      BY <1>3, <1>5 DEF n
    <3> HIDE DEF a
    <3>3. /\ x \in Seq(Char) /\ Len(x) = 2 + n /\ x[n + 2] = CloseBracket
          /\ \A i \in 1..(1 + n) : x[i] = a[i]
      BY <1>3, <1>5, <3>1, <3>2
    <3>4. ASSUME NEW i \in 1..(2 + n) PROVE p[1 + i] = x[i]
      <4>1. CASE i = 1
        <5>1. 2 \in 1..w /\ 1 \in 1..(1 + n)
          BY <1>3, <3>1
        <5> QED
          BY <1>4, <3>2, <3>3, <4>1, <5>1
      <4>2. CASE i = 2 + n
        <5>1. 1 \in 1..w /\ w + n + 1 = 1 + i
          BY <1>3, <3>1, <4>2
        <5>2. p[1 + i] = CloseBracket
          BY <1>4, <5>1
        <5>3. x[i] = CloseBracket
          BY <1>3, <3>3, <4>2
        <5> QED
          BY <5>2, <5>3
      <4>3. CASE i # 1 /\ i # 2 + n
        <5>1. i - 1 \in 1..n /\ i \in 1..(1 + n) /\ 1 + (i - 1) = i /\ w + (i - 1) = 1 + i
          BY <1>3, <3>1, <4>3
        <5>2. p[1 + i] = v[i - 1]
          BY <1>4, <5>1
        <5>3. x[i] = v[i - 1]
          BY <3>2, <3>3, <5>1
        <5> QED
          BY <5>2, <5>3
      <4> QED
        BY <4>1, <4>2, <4>3
    <3>5. 2 * w - 2 + n = 2 + n
      BY <1>3, <3>1
    <3> QED
      BY <3>3, <3>4, <3>5
  <2> QED
    BY <2>1, <2>2
<1> QED
  BY <1>1, <1>3, <1>4, <1>6, <1>7 DEF x, w, v, n, p

\* What follows the first value.
LEMMA AfterFirstValue ==
    ASSUME NEW l, IsLine(l), l.id # <<>>
    PROVE  /\ Len(l.values) = 1 <=> Len(l.payload) = EndOf(l, 1)
           /\ EndOf(l, 1) < Len(l.payload) => l.payload[EndOf(l, 1) + 1] # CloseBracket
<1>1. Len(l.values) \in Nat /\ Len(l.values) > 0 /\ Len(l.payload) \in Nat
  BY PayloadBegins
<1>2. EndOf(l, 1) \in Nat
  <2>1. 1 \in 1..Len(l.values)
    BY <1>1
  <2>2. /\ Width(l) \in 1..2 /\ Len(l.values[1]) \in Nat /\ l.at[1] \in Nat
        /\ EndOf(l, 1) = l.at[1] + 2 * Width(l) + Len(l.values[1])
    BY <2>1, ValueAt
  <2> QED
    BY <2>2
<1>3. Len(l.values) = 1 => Len(l.payload) = EndOf(l, 1)
  BY DEF IsLine
<1>4. ASSUME Len(l.values) # 1
      PROVE  EndOf(l, 1) < Len(l.payload) /\ l.payload[EndOf(l, 1) + 1] # CloseBracket
  <2>1. 2 \in 1..Len(l.values) /\ 2 - 1 = 1 /\ 2 # 1
    <3>1. \A n \in Nat : n > 0 /\ n # 1 => 2 \in 1..n /\ 2 - 1 = 1 /\ 2 # 1
      OBVIOUS
    <3> QED
      BY <1>1, <1>4, <3>1, Zenon
  <2>2. /\ l.at[2] \in EndOf(l, 1)..(EndOf(l, 1) + 2)
        /\ \A i \in (EndOf(l, 1) + 1)..l.at[2] : l.payload[i] \in LineBreak
    BY <2>1, GapBefore
  <2>3. /\ Width(l) \in 1..2 /\ Len(l.values[2]) \in Nat
        /\ EndOf(l, 2) = l.at[2] + 2 * Width(l) + Len(l.values[2]) /\ EndOf(l, 2) <= Len(l.payload)
        /\ IsValue(l.payload, l.at[2], Width(l), Len(l.values[2]))
    <3>1. PICK j \in 1..Len(l.values) : j = 2
      BY <2>1
    <3>2. /\ Width(l) \in 1..2 /\ Len(l.values[j]) \in Nat
          /\ EndOf(l, j) = l.at[j] + 2 * Width(l) + Len(l.values[j])
          /\ EndOf(l, j) <= Len(l.payload)
          /\ IsValue(l.payload, l.at[j], Width(l), Len(l.values[j]))
      BY ValueAt
    <3> QED
      BY <3>1, <3>2
  <2>4. l.payload[EndOf(l, 1) + 1] \in LineBreak \cup {OpenBracket}
    <3>1. CASE l.at[2] = EndOf(l, 1)
      <4>1. 1 \in 1..Width(l)
        BY <2>3
      <4> QED
        BY <2>3, <3>1, <4>1 DEF IsValue
    <3>2. CASE l.at[2] # EndOf(l, 1)
      <4>1. EndOf(l, 1) + 1 \in (EndOf(l, 1) + 1)..l.at[2]
        BY <1>2, <2>2, <3>2
      <4> QED
        BY <2>2, <4>1
    <3> QED
      BY <3>1, <3>2
  <2>5. CloseBracket \notin LineBreak \cup {OpenBracket}
    BY CharAssumption
  <2>6. EndOf(l, 1) < Len(l.payload)
    <3> DEFINE a == l.at[2]
               n == Len(l.values[2])
               w == Width(l)
               e == EndOf(l, 1)
    <3>1. a \in e..(e + 2) /\ w \in 1..2 /\ n \in Nat /\ e \in Nat /\ a + 2 * w + n <= Len(l.payload)
      BY <1>2, <2>2, <2>3
    <3> HIDE DEF a, n, w, e
    <3>2. e < Len(l.payload)
      BY <1>1, <3>1
    <3> QED
      BY <3>2 DEF e
  <2> QED
    BY <2>4, <2>5, <2>6
<1> QED
  BY <1>1, <1>2, <1>3, <1>4

\* parse_string returns the first value and leaves the others.
LEMMA StringOfLine ==
    ASSUME NEW l, IsLine(l), l.id # <<>>, NEW min, NEW max
    PROVE  LET res == ParseString(l.payload, min, max)
           IN  /\ res.ok <=> Len(FirstValue(l)) \in min..max
               /\ res.ok => /\ res.out = FirstValue(l)
                            /\ res.rest = <<>> <=> Len(l.values) = 1
<1> DEFINE x == FirstValue(l)
           w == Width(l)
           n == Len(l.values[1])
           p == l.payload
           e == EndOf(l, 1)
           first == BeforeClose(p)
           close == IF first + 1 < Len(p) /\ p[first + 2] = CloseBracket
                    THEN first + 1
                    ELSE first
<1>1. /\ w \in 1..2 /\ n \in Nat
      /\ x \in Seq(Char) /\ Len(x) = 2 * w - 2 + n
      /\ \A i \in 1..Len(x) : p[1 + i] = x[i]
      /\ e = 2 * w + n /\ e <= Len(p) /\ Len(p) \in Nat
      /\ p[1] = OpenBracket
      /\ \A i \in 1..(w + n) : p[i] # CloseBracket
      /\ \A i \in 1..w : p[w + n + i] = CloseBracket
  BY FirstValueIs
<1>2. /\ Len(l.values) = 1 <=> Len(p) = e
      /\ e < Len(p) => p[e + 1] # CloseBracket
  BY AfterFirstValue
<1>3. p \in Seq(Char)
  BY PayloadBegins
<1> HIDE DEF x, w, n, e, p
<1>4. first = w + n
  <2> DEFINE P(k) == /\ \A i \in 1..k : p[i] # CloseBracket
                     /\ k < Len(p) => p[k + 1] = CloseBracket
  <2>1. w + n \in 0..Len(p) /\ P(w + n)
    <3>1. 1 \in 1..w /\ w + n \in 0..Len(p)
      BY <1>1
    <3> QED
      BY <1>1, <3>1
  <2>2. w + n < Len(p) /\ p[w + n + 1] = CloseBracket
    <3>1. 1 \in 1..w /\ w + n < Len(p)
      BY <1>1
    <3> QED
      BY <1>1, <3>1
  <2>3. ASSUME NEW k \in 0..Len(p), P(k) PROVE k = w + n
    <3>1. ~(k < w + n)
      <4>1. ASSUME k < w + n PROVE FALSE
        <5>1. k + 1 \in 1..(w + n) /\ k < Len(p)
          BY <1>1, <4>1
        <5> QED
          BY <1>1, <2>3, <5>1
      <4> QED
        BY <4>1
    <3>2. ~(w + n < k)
      <4>1. ASSUME w + n < k PROVE FALSE
        <5>1. w + n + 1 \in 1..k
          BY <1>1, <4>1
        <5> QED
          BY <2>2, <2>3, <5>1
      <4> QED
        BY <4>1
    <3> QED
      BY <1>1, <3>1, <3>2
  <2>4. first = CHOOSE k \in 0..Len(p) : P(k)
    BY DEF BeforeClose
  <2> HIDE DEF P
  <2> QED
    BY <2>1, <2>3, <2>4
<1>5. close = 2 * w - 1 + n
  <2> HIDE DEF first
  <2>1. CASE w = 1
    <3>1. first + 1 = e /\ first + 2 = e + 1
      BY <1>1, <1>4, <2>1
    <3>2. ~(first + 1 < Len(p) /\ p[first + 2] = CloseBracket)
      BY <1>2, <3>1
    <3> QED
      BY <1>1, <1>4, <2>1, <3>2
  <2>2. CASE w = 2
    <3>1. 2 \in 1..w /\ first + 2 = w + n + 2 /\ first + 1 < Len(p)
      BY <1>1, <1>4, <2>2
    <3>2. p[first + 2] = CloseBracket
      BY <1>1, <3>1
    <3> QED
      BY <1>1, <1>4, <2>2, <3>1, <3>2
  <2> QED
    BY <1>1, <2>1, <2>2
<1>6. /\ close - 1 = Len(x) /\ close # Len(p) /\ close + 1 = e
      /\ close \in Nat /\ close <= Len(p)
  <2> HIDE DEF close
  <2> QED
    BY <1>1, <1>5
<1>7. p # <<>>
  <2>1. Len(p) # 0
    BY <1>1
  <2> QED
    BY <2>1
<1>8. ParseString(p, min, max) =
        IF Len(x) \in min..max
        THEN [ok |-> TRUE, out |-> SubSeq(p, 2, close), rest |-> Rest(p, close + 1)]
        ELSE Failed(p)
  <2>1. ParseString(p, min, max) =
        IF p # <<>> /\ p[1] = OpenBracket /\ close # Len(p) /\ close - 1 \in min..max
        THEN [ok |-> TRUE, out |-> SubSeq(p, 2, close), rest |-> Rest(p, close + 1)]
        ELSE Failed(p)
    BY DEF ParseString
  <2> HIDE DEF close
  <2> QED
    BY <1>1, <1>6, <1>7, <2>1
<1> HIDE DEF close
<1>9. SubSeq(p, 2, close) = x
  <2> DEFINE a == SubSeq(p, 2, close)
             len == Len(x)
  <2>1. close = len + 1 /\ len \in Nat
    BY <1>1, <1>6
  <2> HIDE DEF len
  <2>2. a \in Seq(Char) /\ Len(a) = len /\ \A i \in 1..len : a[i] = p[1 + i]
    BY <1>3, <1>6, <2>1
  <2> HIDE DEF a
  <2>3. a = x
    <3>1. Len(a) = Len(x) /\ \A i \in 1..Len(a) : a[i] = x[i]
      BY <1>1, <2>2 DEF len
    <3> QED
      BY <1>1, <2>2, <3>1, SeqEqual
  <2> QED
    BY <2>3 DEF a
<1>10. Rest(p, close + 1) = <<>> <=> Len(p) = e
  <2> DEFINE a == SubSeq(p, e + 1, Len(p))
  <2>1. Rest(p, close + 1) = a
    BY <1>6 DEF Rest
  <2>2. e \in Nat /\ e <= Len(p)
    BY <1>1
  <2>3. a \in Seq(Char) /\ Len(a) = Len(p) - e
    <3> DEFINE m == e + 1
               n2 == Len(p)
    <3>1. m \in Int /\ n2 \in Int /\ \A i \in m..n2 : p[i] \in Char
      BY <1>1, <1>3, <2>2
    <3>2. a = SubSeq(p, m, n2)
      OBVIOUS
    <3> HIDE DEF a, m, n2
    <3>3. a \in Seq(Char) /\ Len(a) = IF m <= n2 THEN n2 - m + 1 ELSE 0
      BY <3>1, <3>2, SubSeqProperties
    <3>4. (IF m <= n2 THEN n2 - m + 1 ELSE 0) = Len(p) - e
      <4>1. Len(p) \in Nat
        BY <1>1
      <4> QED
        BY <2>2, <4>1 DEF m, n2
    <3> QED
      BY <3>3, <3>4
  <2> HIDE DEF a
  <2>4. a = <<>> <=> Len(a) = 0
    BY <2>3
  <2> QED
    BY <1>1, <2>1, <2>2, <2>3, <2>4
<1> DEFINE res == ParseString(p, min, max)
<1>11. /\ res.ok <=> Len(x) \in min..max
       /\ res.ok => res.out = x /\ (res.rest = <<>> <=> Len(l.values) = 1)
  BY <1>2, <1>8, <1>9, <1>10 DEF Failed
<1> QED
  BY <1>11 DEF p, x

\* What the field of a line makes of it.
LEMMA FieldOfLine ==
    ASSUME NEW l, IsLine(l), l.id # <<>>, NEW f
    PROVE  LET res == ParseField(f, l.payload)
           IN  /\ res.ok <=> f \in RawField \/ Len(Expected(l, f)) \in MinLength..MaxLength
               /\ res.ok => /\ res.out = Expected(l, f)
                            /\ res.rest = <<>> <=> f \in RawField \/ Len(l.values) = 1
<1>1. CASE f \in RawField
  BY <1>1 DEF ParseField, Expected
<1>2. CASE f \notin RawField
  <2>1. ParseField(f, l.payload) = ParseString(l.payload, MinLength, MaxLength)
    BY <1>2 DEF ParseField
  <2>2. Expected(l, f) = FirstValue(l)
    BY <1>2 DEF Expected, FirstValue
  <2> DEFINE res == ParseString(l.payload, MinLength, MaxLength)
  <2>3. /\ res.ok <=> Len(FirstValue(l)) \in MinLength..MaxLength
        /\ res.ok => res.out = FirstValue(l) /\ (res.rest = <<>> <=> Len(l.values) = 1)
    BY StringOfLine
  <2> HIDE DEF res
  <2> QED
    BY <1>2, <2>1, <2>2, <2>3 DEF res
<1> QED
  BY <1>1, <1>2

\* FieldOf takes the field that is meant.
LEMMA TargetIs ==
    ASSUME NEW id
    PROVE  /\ IsKnown(id) => Target(id) = {FieldOf(id)} /\ ObisId[FieldOf(id)] = id
           /\ ~IsKnown(id) => Target(id) = {}
<1> DEFINE S == {k \in DOMAIN Ts : ObisId[Ts[k]] = id /\ \A j \in 1..(k - 1) : ObisId[Ts[j]] # id}
<1>1. DOMAIN Ts = 1..Len(Ts) /\ Len(Ts) \in Nat
  BY FieldAssumption
<1>2. Matching(id) = {k \in 1..Len(Ts) : ObisId[Ts[k]] = id}
  BY <1>1 DEF Matching
<1>3. S = {k \in Matching(id) : \A j \in Matching(id) : k <= j}
  <2>1. ASSUME NEW k \in S PROVE k \in Matching(id) /\ \A j \in Matching(id) : k <= j
    <3>1. k \in Matching(id)
      BY <1>1, <1>2
    <3>2. ASSUME NEW j \in Matching(id) PROVE k <= j
      <4>1. j \notin 1..(k - 1)
        BY <1>2
      <4> QED
        BY <1>1, <1>2, <4>1
    <3> QED
      BY <3>1, <3>2
  <2>2. ASSUME NEW k \in Matching(id), \A j \in Matching(id) : k <= j PROVE k \in S
    <3>1. ASSUME NEW j \in 1..(k - 1) PROVE ObisId[Ts[j]] # id
      <4>1. j \in 1..Len(Ts) /\ ~(k <= j)
        BY <1>1, <1>2
      <4> QED
        BY <1>2, <2>2, <4>1
    <3> QED
      BY <1>1, <1>2, <3>1
  <2> QED
    BY <2>1, <2>2
<1>4. Target(id) = {Ts[k] : k \in S}
  BY DEF Target
<1> HIDE DEF S
<1>5. CASE IsKnown(id)
  <2>1. Matching(id) \subseteq Nat /\ Matching(id) # {}
    BY <1>2, <1>5 DEF IsKnown
  <2>2. PICK k \in Matching(id) : \A j \in Matching(id) : k <= j
    BY <2>1, LeastElement
  <2>3. \A m \in Matching(id) : (\A j \in Matching(id) : m <= j) => m = k
    BY <2>1, <2>2
  <2>4. S = {k}
    BY <1>3, <2>2, <2>3
  <2>5. (CHOOSE m \in Matching(id) : \A j \in Matching(id) : m <= j) = k
    BY <2>2, <2>3
  <2>6. FieldOf(id) = Ts[k]
    BY <2>5 DEF FieldOf
  <2> QED
    BY <1>2, <1>4, <1>5, <2>2, <2>4, <2>6
<1>6. CASE ~IsKnown(id)
  BY <1>3, <1>4, <1>6 DEF IsKnown
<1> QED
  BY <1>5, <1>6

\* The places where line k begins and where its line end does; line 0 is the
\* identification.
Begin(t, k) == IF k = 0 THEN 0 ELSE t.start[k]

Stop(t, k) == Begin(t, k + 1) - Len(t.eol)

LEMMA TelegramIs ==
    ASSUME NEW t \in Telegrams
    PROVE  LET n == Len(t.lines)
               e == Len(t.eol)
           IN  /\ t.text \in Seq(Char) /\ Len(t.text) \in Nat /\ e \in 1..2 /\ n \in Nat
               /\ DOMAIN t.lines = 1..n
               /\ \A k \in 0..(n + 1) : Begin(t, k) \in 0..Len(t.text)
               /\ \A i \in 1..Stop(t, 0) : t.text[i] \notin LineBreak
               /\ Begin(t, n + 1) = Len(t.text)
<1>1. IsTelegram(t)
  BY TelegramAssumption
<1>2. /\ t.text \in Seq(Char) /\ Len(t.eol) \in 1..2
      /\ t.lines \in Seq({t.lines[k] : k \in DOMAIN t.lines})
      /\ t.start \in [1..(Len(t.lines) + 1) -> 0..Len(t.text)]
      /\ \A i \in 1..(t.start[1] - Len(t.eol)) : t.text[i] \notin LineBreak
      /\ t.start[Len(t.lines) + 1] = Len(t.text)
  BY <1>1 DEF IsTelegram
<1>3. Len(t.text) \in Nat /\ Len(t.lines) \in Nat /\ DOMAIN t.lines = 1..Len(t.lines)
  BY <1>2
<1> DEFINE n == Len(t.lines)
<1>4. ASSUME NEW k \in 0..(n + 1) PROVE Begin(t, k) \in 0..Len(t.text)
  <2>1. CASE k = 0
    BY <1>3, <2>1 DEF Begin
  <2>2. CASE k # 0
    <3>1. k \in 1..(n + 1)
      BY <1>3, <2>2
    <3> QED
      BY <1>2, <2>2, <3>1 DEF Begin
  <2> QED
    BY <2>1, <2>2
<1>5. Stop(t, 0) = t.start[1] - Len(t.eol)
  BY DEF Stop, Begin
<1>6. n + 1 # 0
  BY <1>3
<1>7. Begin(t, n + 1) = t.start[n + 1]
  BY <1>6 DEF Begin
<1> QED
  BY <1>2, <1>3, <1>4, <1>5, <1>7

LEMMA FirstLineAt ==
    ASSUME NEW t \in Telegrams
    PROVE  /\ Stop(t, 0) \in Nat /\ Stop(t, 0) + Len(t.eol) = Begin(t, 1)
           /\ \A i \in 1..Len(t.eol) : t.text[Stop(t, 0) + i] \in LineBreak
           /\ FirstLine(t) = SubSeq(t.text, 1, Stop(t, 0))
<1>1. IsTelegram(t)
  BY TelegramAssumption
<1>2. Begin(t, 1) \in Nat /\ Len(t.eol) \in 1..2 /\ Begin(t, 1) = t.start[1]
  <2>1. 1 \in 0..(Len(t.lines) + 1)
    BY TelegramIs
  <2> QED
    BY <2>1, TelegramIs DEF Begin
<1> DEFINE first == t.start[1] - Len(t.eol)
<1>3. Stop(t, 0) = first
  BY DEF Stop, Begin
<1>4. /\ t.eol \in Seq(LineBreak) /\ first >= 0
      /\ \A i \in 1..Len(t.eol) : t.text[first + i] = t.eol[i]
  BY <1>1 DEF IsTelegram, Stands
<1>5. \A i \in 1..Len(t.eol) : t.eol[i] \in LineBreak
  BY <1>4
<1>6. first \in Nat /\ first + Len(t.eol) = Begin(t, 1)
  BY <1>2, <1>4
<1>7. FirstLine(t) = SubSeq(t.text, 1, first)
  BY DEF FirstLine
<1>8. \A i \in 1..Len(t.eol) : t.text[first + i] \in LineBreak
  BY <1>4, <1>5
<1> HIDE DEF first
<1> QED
  BY <1>3, <1>6, <1>7, <1>8

LEMMA DataLineAt ==
    ASSUME NEW t \in Telegrams, NEW k \in 1..Len(t.lines)
    PROVE  LET x == Text(t.lines[k])
           IN  /\ IsLine(t.lines[k]) /\ Len(x) \in Nat /\ x \in Seq(Char)
               /\ Begin(t, k) \in Nat /\ Stop(t, k) = Begin(t, k) + Len(x)
               /\ Stop(t, k) + Len(t.eol) = Begin(t, k + 1)
               /\ \A i \in 1..Len(x) : t.text[Begin(t, k) + i] = x[i]
               /\ \A i \in 1..Len(t.eol) : t.text[Stop(t, k) + i] \in LineBreak
<1> DEFINE l == t.lines[k]
           x == Text(l)
           e == t.eol
           line == l.id \o l.payload \o e
           b == t.start[k]
<1>1. IsTelegram(t)
  BY TelegramAssumption
<1>2. k \in Nat /\ k # 0 /\ k + 1 # 0 /\ Begin(t, k) = b /\ b \in Nat
  <2>1. k \in 0..(Len(t.lines) + 1) /\ k # 0 /\ k \in Nat /\ k + 1 # 0
    BY TelegramIs
  <2>2. Begin(t, k) = b
    BY <2>1 DEF Begin
  <2>3. Begin(t, k) \in Nat
    BY <2>1, TelegramIs
  <2> QED
    BY <2>1, <2>2, <2>3
<1>3. /\ IsLine(l) /\ e \in Seq(LineBreak) /\ Len(e) \in 1..2
      /\ \A i \in 1..Len(line) : t.text[b + i] = line[i]
      /\ t.start[k + 1] = b + Len(line)
  BY <1>1 DEF IsTelegram, Stands
<1>4. x \in Seq(Char) /\ e \in Seq(Char) /\ Len(x) \in Nat /\ \A i \in 1..Len(e) : e[i] \in LineBreak
  <2>1. LineBreak \subseteq Char
    BY CharAssumption
  <2>2. e \in Seq(Char)
    BY <1>3, <2>1
  <2>3. x \in Seq(Char)
    BY <1>3, TextIs
  <2> HIDE DEF x
  <2> QED
    BY <1>3, <2>2, <2>3
<1>5. line = x \o e
  BY DEF Text
<1> HIDE DEF x, e, line, b
<1>6. /\ Len(line) = Len(x) + Len(e)
      /\ \A i \in 1..(Len(x) + Len(e)) : line[i] = IF i <= Len(x) THEN x[i] ELSE e[i - Len(x)]
  BY <1>4, <1>5, ConcatProperties
<1>7. Begin(t, k + 1) = b + (Len(x) + Len(e))
  BY <1>2, <1>3, <1>6 DEF Begin
<1>8. Stop(t, k) = b + Len(x)
  BY <1>2, <1>3, <1>4, <1>7 DEF Stop, e
<1>9. ASSUME NEW i \in 1..Len(x) PROVE t.text[b + i] = x[i]
  <2>1. i \in 1..(Len(x) + Len(e)) /\ i <= Len(x)
    BY <1>3, <1>4
  <2> QED
    BY <1>3, <1>6, <2>1
<1>10. ASSUME NEW i \in 1..Len(e) PROVE t.text[b + Len(x) + i] \in LineBreak
  <2>1. /\ Len(x) + i \in 1..(Len(x) + Len(e)) /\ ~(Len(x) + i <= Len(x))
        /\ (Len(x) + i) - Len(x) = i /\ b + (Len(x) + i) = b + Len(x) + i
    BY <1>2, <1>3, <1>4
  <2>2. t.text[b + (Len(x) + i)] = e[i]
    BY <1>3, <1>6, <2>1
  <2> QED
    BY <1>4, <2>1, <2>2
<1>11. Stop(t, k) + Len(e) = Begin(t, k + 1)
  BY <1>2, <1>3, <1>4, <1>7, <1>8
<1> QED
  BY <1>2, <1>3, <1>4, <1>8, <1>9, <1>10, <1>11 DEF x, e

\* No line begins with a bracket among its first two characters, or those that follow.
LEMMA NoBracketFirst ==
    ASSUME NEW t \in Telegrams, NEW k \in 1..(Len(t.lines) + 1), Begin(t, k) < Len(t.text)
    PROVE  t.text[Begin(t, k) + 1] # OpenBracket
<1>1. k \in 1..Len(t.lines)
  <2>1. Len(t.text) \in Nat /\ Begin(t, Len(t.lines) + 1) = Len(t.text) /\ Len(t.lines) \in Nat
    BY TelegramIs
  <2>2. k # Len(t.lines) + 1
    BY <2>1
  <2> QED
    BY <2>1, <2>2
<1> DEFINE l == t.lines[k]
<1>2. IsLine(l)
  BY <1>1, DataLineAt
<1>3. OpenBracket \notin LineBreak \cup IdChar
  BY CharAssumption
<1>4. CASE l.id = <<>>
  <2>1. Text(l) = <<>>
    BY <1>2, <1>4, TextIs
  <2>2. Len(Text(l)) = 0
    BY <2>1
  <2>3. Begin(t, k) \in Nat /\ Stop(t, k) = Begin(t, k) + Len(Text(l))
        /\ \A i \in 1..Len(t.eol) : t.text[Stop(t, k) + i] \in LineBreak
    BY <1>1, DataLineAt
  <2>4. Stop(t, k) = Begin(t, k) /\ 1 \in 1..Len(t.eol)
    <3>1. Len(t.eol) \in 1..2
      BY TelegramIs
    <3>2. Stop(t, k) = Begin(t, k)
      BY <2>2, <2>3
    <3>3. \A n \in 1..2 : 1 \in 1..n
      OBVIOUS
    <3> QED
      BY <3>1, <3>2, <3>3, Zenon
  <2> QED
    BY <1>3, <2>3, <2>4
<1>5. CASE l.id # <<>>
  <2>1. /\ Len(l.id) > 1 /\ Len(l.id) \in Nat /\ Len(l.payload) \in Nat
        /\ \A i \in 1..Len(l.id) : l.id[i] \in IdChar
    BY <1>2, <1>5, PayloadBegins
  <2>2. 1 \in 1..Len(l.id)
    BY <2>1
  <2>3. Text(l)[1] \in IdChar /\ 1 \in 1..Len(Text(l))
    <3>1. /\ Len(Text(l)) = Len(l.id) + Len(l.payload)
          /\ \A i \in 1..Len(l.id) : Text(l)[i] = l.id[i]
      BY <1>2, TextIs
    <3>2. 1 \in 1..(Len(l.id) + Len(l.payload))
      <4>1. \A m, n \in Nat : n > 1 => 1 \in 1..(n + m)
        OBVIOUS
      <4> QED
        BY <2>1, <4>1, Zenon
    <3> QED
      BY <2>1, <2>2, <3>1, <3>2
  <2>4. t.text[Begin(t, k) + 1] = Text(l)[1]
    BY <1>1, <2>3, DataLineAt
  <2> QED
    BY <1>3, <2>3, <2>4
<1> QED
  BY <1>4, <1>5

LEMMA NoBracketSecond ==
    ASSUME NEW t \in Telegrams, NEW k \in 1..(Len(t.lines) + 1), Begin(t, k) + 1 < Len(t.text)
    PROVE  t.text[Begin(t, k) + 2] # OpenBracket
<1>1. k \in 1..Len(t.lines)
  <2>1. Len(t.text) \in Nat /\ Begin(t, Len(t.lines) + 1) = Len(t.text) /\ Len(t.lines) \in Nat
    BY TelegramIs
  <2>2. k # Len(t.lines) + 1
    BY <2>1
  <2> QED
    BY <2>1, <2>2
<1> DEFINE l == t.lines[k]
<1>2. IsLine(l)
  BY <1>1, DataLineAt
<1>3. OpenBracket \notin LineBreak \cup IdChar
  BY CharAssumption
<1>4. CASE l.id = <<>>
  <2>1. Text(l) = <<>>
    BY <1>2, <1>4, TextIs
  <2>2. Len(Text(l)) = 0
    BY <2>1
  <2>3. /\ Begin(t, k) \in Nat /\ Stop(t, k) = Begin(t, k) + Len(Text(l))
        /\ Stop(t, k) + Len(t.eol) = Begin(t, k + 1)
        /\ \A i \in 1..Len(t.eol) : t.text[Stop(t, k) + i] \in LineBreak
    BY <1>1, DataLineAt
  <2>4. Stop(t, k) = Begin(t, k) /\ Len(t.eol) \in 1..2
    BY <2>2, <2>3, TelegramIs
  <2>5. CASE Len(t.eol) = 2
    <3>1. 2 \in 1..Len(t.eol)
      BY <2>5
    <3> QED
      BY <1>3, <2>3, <2>4, <3>1
  <2>6. CASE Len(t.eol) = 1
    <3>1. Begin(t, k + 1) = Begin(t, k) + 1 /\ k + 1 \in 1..(Len(t.lines) + 1)
      BY <1>1, <2>3, <2>4, <2>6, TelegramIs
    <3>2. t.text[Begin(t, k + 1) + 1] # OpenBracket
      BY <3>1, NoBracketFirst
    <3>3. Begin(t, k + 1) + 1 = Begin(t, k) + 2
      BY <2>3, <3>1
    <3> QED
      BY <3>2, <3>3
  <2> QED
    BY <2>4, <2>5, <2>6
<1>5. CASE l.id # <<>>
  <2>1. /\ Len(l.id) > 1 /\ Len(l.id) \in Nat /\ Len(l.payload) \in Nat
        /\ \A i \in 1..Len(l.id) : l.id[i] \in IdChar
    BY <1>2, <1>5, PayloadBegins
  <2>2. 2 \in 1..Len(l.id)
    BY <2>1
  <2>3. Text(l)[2] \in IdChar /\ 2 \in 1..Len(Text(l))
    <3>1. /\ Len(Text(l)) = Len(l.id) + Len(l.payload)
          /\ \A i \in 1..Len(l.id) : Text(l)[i] = l.id[i]
      BY <1>2, TextIs
    <3>2. 2 \in 1..(Len(l.id) + Len(l.payload))
      <4>1. \A m, n \in Nat : n > 1 => 2 \in 1..(n + m)
        OBVIOUS
      <4> QED
        BY <2>1, <4>1, Zenon
    <3> QED
      BY <2>1, <2>2, <3>1, <3>2
  <2>4. t.text[Begin(t, k) + 2] = Text(l)[2]
    BY <1>1, <2>3, DataLineAt
  <2> QED
    BY <1>3, <2>3, <2>4
<1> QED
  BY <1>4, <1>5

\* The line l begins at place s of the text x and is followed by a line end.
IsIn(l, x, s) ==
    /\ IsLine(l) /\ x \in Seq(Char) /\ s \in Nat
    /\ s + Len(Text(l)) < Len(x)
    /\ \A i \in 1..Len(Text(l)) : x[s + i] = Text(l)[i]
    /\ x[s + Len(Text(l)) + 1] \in LineBreak

\* The place where its payload begins.
Payload(l, s) == s + Len(l.id)

LEMMA PayloadIn ==
    ASSUME NEW l, NEW x, NEW s, IsIn(l, x, s)
    PROVE  LET b == Payload(l, s)
               m == Len(l.payload)
           IN  /\ s \in Nat /\ b \in Nat /\ m \in Nat /\ s <= b /\ Len(x) \in Nat /\ b + m < Len(x)
               /\ s + Len(Text(l)) = b + m
               /\ x[b + m + 1] \in LineBreak
               /\ \A i \in 1..m : x[b + i] = l.payload[i]
               /\ \A i \in 1..(b - s) : x[s + i] \in IdChar
<1> DEFINE n == Len(l.id)
           m == Len(l.payload)
           b == Payload(l, s)
           y == Text(l)
<1>1. IsLine(l) /\ s \in Nat /\ s + Len(y) < Len(x) /\ x[s + Len(y) + 1] \in LineBreak
      /\ Len(x) \in Nat
  BY DEF IsIn
<1>2. \A i \in 1..Len(y) : x[s + i] = y[i]
  BY DEF IsIn
<1>3. n \in Nat /\ m \in Nat /\ Len(y) = n + m
  BY <1>1, PayloadBegins, TextIs
<1>4. \A i \in 1..n : l.id[i] \in IdChar
  BY <1>1, PayloadBegins
<1>5. /\ \A i \in 1..n : y[i] = l.id[i]
      /\ \A i \in 1..m : y[n + i] = l.payload[i]
  BY <1>1, TextIs
<1>6. b = s + n
  BY DEF Payload
<1> HIDE DEF n, m, b, y
<1>7. b \in Nat /\ s <= b /\ s + Len(y) = b + m /\ b + m < Len(x) /\ b - s = n
  BY <1>1, <1>3, <1>6
<1>8. ASSUME NEW i \in 1..m PROVE x[b + i] = l.payload[i]
  <2>1. n + i \in 1..Len(y) /\ s + (n + i) = b + i
    BY <1>1, <1>3, <1>6
  <2> QED
    BY <1>2, <1>5, <2>1
<1>9. ASSUME NEW i \in 1..n PROVE x[s + i] \in IdChar
  <2>1. i \in 1..Len(y)
    BY <1>3
  <2> QED
    BY <1>2, <1>4, <1>5, <2>1
<1>10. x[b + m + 1] \in LineBreak
  BY <1>1, <1>7
<1> QED
  BY <1>1, <1>3, <1>7, <1>8, <1>9, <1>10 DEF m, b, y

\* Value j of the line, in the text.
LEMMA ValueIn ==
    ASSUME NEW l, NEW x, NEW s, IsIn(l, x, s), NEW j \in 1..Len(l.values)
    PROVE  LET w == Width(l)
               n == Len(l.values[j])
               a == Payload(l, s) + l.at[j]
           IN  /\ w \in 1..2 /\ n \in Nat /\ a \in Nat /\ l.at[j] \in Nat
               /\ Payload(l, s) + EndOf(l, j) = a + 2 * w + n
               /\ a + 2 * w + n <= Payload(l, s) + Len(l.payload)
               /\ IsValue(x, a, w, n)
<1> DEFINE w == Width(l)
           n == Len(l.values[j])
           b == Payload(l, s)
           a == l.at[j]
           m == Len(l.payload)
           p == l.payload
           e == EndOf(l, j)
<1>1. IsLine(l)
  BY DEF IsIn
<1>2. w \in 1..2 /\ n \in Nat /\ a \in Nat /\ e = a + 2 * w + n /\ e <= m
  BY <1>1, ValueAt
<1>3. IsValue(p, a, w, n)
  BY <1>1, ValueAt
<1>5. b \in Nat /\ m \in Nat
  BY PayloadIn
<1>6. \A i \in 1..m : x[b + i] = p[i]
  BY PayloadIn
<1> HIDE DEF w, n, b, a, m, p, e
<1>4. /\ \A i \in 1..w : p[a + i] = OpenBracket
      /\ \A i \in 1..n : p[a + w + i] \notin {OpenBracket, CloseBracket}
      /\ \A i \in 1..w : p[a + w + n + i] = CloseBracket
  BY <1>3 DEF IsValue
<1>7. b + e = b + a + 2 * w + n /\ b + a + 2 * w + n <= b + m /\ b + a \in Nat
  BY <1>2, <1>5
<1>8. ASSUME NEW i \in 1..w
      PROVE  x[b + a + i] = OpenBracket /\ x[b + a + w + n + i] = CloseBracket
  <2>1. /\ a + i \in 1..m /\ b + (a + i) = b + a + i
        /\ a + w + n + i \in 1..m /\ b + (a + w + n + i) = b + a + w + n + i
    BY <1>2, <1>5
  <2> QED
    BY <1>4, <1>6, <2>1
<1>9. ASSUME NEW i \in 1..n
      PROVE  x[b + a + w + i] \notin {OpenBracket, CloseBracket}
  <2>1. a + w + i \in 1..m /\ b + (a + w + i) = b + a + w + i
    BY <1>2, <1>5
  <2> QED
    BY <1>4, <1>6, <2>1
<1>10. IsValue(x, b + a, w, n)
  BY <1>8, <1>9 DEF IsValue
<1> QED
  BY <1>2, <1>7, <1>10 DEF w, n, b, a, m, e

\* What is between the values, in the text.
NextOf(l, j) == IF j < Len(l.values) THEN l.at[j + 1] ELSE EndOf(l, j)

LEMMA GapIn ==
    ASSUME NEW l, NEW x, NEW s, IsIn(l, x, s), NEW j \in 0..Len(l.values)
    PROVE  /\ EndOf(l, j) \in Nat /\ NextOf(l, j) \in EndOf(l, j)..(EndOf(l, j) + 2)
           /\ NextOf(l, j) <= Len(l.payload)
           /\ j = 0 => EndOf(l, j) = 0 /\ NextOf(l, j) = 0
           /\ j = Len(l.values) => NextOf(l, j) = Len(l.payload) /\ NextOf(l, j) = EndOf(l, j)
           /\ \A i \in (EndOf(l, j) + 1)..NextOf(l, j) : x[Payload(l, s) + i] \in LineBreak
<1>1. IsLine(l) /\ Len(l.values) \in Nat /\ Len(l.payload) \in Nat
  <2>1. IsLine(l)
    BY DEF IsIn
  <2> QED
    BY <2>1, PayloadBegins
<1>2. CASE j < Len(l.values)
  <2> DEFINE k == j + 1
             a == l.at[k]
             e == EndOf(l, j)
             m == Len(l.payload)
  <2>1. k \in 1..Len(l.values) /\ k - 1 = j
    BY <1>1, <1>2
  <2>2. NextOf(l, j) = a
    BY <1>2 DEF NextOf
  <2>3. /\ e \in Nat /\ a \in e..(e + 2) /\ (k = 1 => a = 0)
        /\ \A i \in (e + 1)..a : l.payload[i] \in LineBreak
    BY <1>1, <2>1, GapBefore
  <2>4. a <= m
    <3> DEFINE w == Width(l)
               n == Len(l.values[k])
               e2 == EndOf(l, k)
    <3>1. w \in 1..2 /\ n \in Nat /\ a \in Nat /\ e2 = a + 2 * w + n /\ e2 <= m
      BY <1>1, <2>1, ValueAt
    <3> HIDE DEF w, n, e2, a, m
    <3> QED
      BY <1>1, <3>1 DEF m
  <2>5. j = 0 => e = 0 /\ a = 0
    <3>1. j = 0 => k = 1 /\ e = 0
      BY DEF EndOf
    <3> QED
      BY <2>3, <3>1
  <2>6. \A i \in 1..m : x[Payload(l, s) + i] = l.payload[i]
    BY PayloadIn
  <2> HIDE DEF k, a, e, m
  <2>7. \A i \in (e + 1)..a : i \in 1..m
    BY <1>1, <2>3, <2>4 DEF m
  <2>8. \A i \in (e + 1)..a : x[Payload(l, s) + i] \in LineBreak
    BY <2>3, <2>6, <2>7
  <2>9. j # Len(l.values)
    BY <1>1, <1>2
  <2> QED
    BY <2>2, <2>3, <2>4, <2>5, <2>8, <2>9 DEF e, m
<1>3. CASE ~(j < Len(l.values))
  <2>1. j = Len(l.values)
    BY <1>1, <1>3
  <2>2. NextOf(l, j) = EndOf(l, j)
    BY <1>3 DEF NextOf
  <2>3. EndOf(l, j) = Len(l.payload)
    BY <1>1, <2>1 DEF IsLine
  <2>4. j = 0 => EndOf(l, j) = 0
    BY DEF EndOf
  <2> DEFINE e == EndOf(l, j)
  <2>5. e \in Nat /\ e \in e..(e + 2) /\ (e + 1)..e = {}
    BY <1>1, <2>3
  <2> QED
    BY <2>1, <2>2, <2>3, <2>4, <2>5
<1> QED
  BY <1>2, <1>3

-------------------------------------------------------------------------------
(* A line that parse reads *)

\* parse is at place p of a line, before or between its values, or in one of them.
InId(l, s, p) == p \in s..(Payload(l, s) - 1)

Between(l, s, p) ==
    \E j \in 0..Len(l.values) :
        p \in (Payload(l, s) + EndOf(l, j))..(Payload(l, s) + NextOf(l, j))

Within(l, s, p) ==
    \E j \in 1..Len(l.values) :
        LET v == Payload(l, s) + l.at[j] + Width(l)
        IN  p \in v..(v + Len(l.values[j]))

IsAt(l, s, p, open) ==
    IF open THEN Within(l, s, p) ELSE InId(l, s, p) \/ Between(l, s, p)

\* What parse goes by: a doubled bracket, a bracket among the next two characters.
Taken(x, p) == IF p + 1 < Len(x) /\ x[p + 2] = x[p + 1] THEN p + 2 ELSE p + 1

OpensNear(x, p) == Len(x) - p > 2 /\ (x[p + 2] = OpenBracket \/ x[p + 3] = OpenBracket)

LEMMA AtStart ==
    ASSUME NEW l, NEW x, NEW s, IsIn(l, x, s)
    PROVE  IsAt(l, s, s, FALSE)
<1>1. IsLine(l) /\ s \in Nat
  BY DEF IsIn
<1>2. CASE l.id # <<>>
  <2>1. Len(l.id) \in Nat /\ Len(l.id) > 1
    BY <1>1, <1>2, PayloadBegins
  <2>2. s \in s..(Payload(l, s) - 1)
    BY <1>1, <2>1 DEF Payload
  <2> QED
    BY <2>2 DEF IsAt, InId
<1>3. CASE l.id = <<>>
  <2>1. Payload(l, s) = s
    <3>1. Len(l.id) = 0
      BY <1>3
    <3> QED
      BY <1>1, <3>1 DEF Payload
  <2>2. 0 \in 0..Len(l.values) /\ EndOf(l, 0) = 0 /\ NextOf(l, 0) = 0
    <3>1. Len(l.values) \in Nat
      BY <1>1, PayloadBegins
    <3>2. 0 \in 0..Len(l.values)
      BY <3>1
    <3> QED
      BY <3>2, GapIn
  <2>3. s \in (s + 0)..(s + 0)
    BY <1>1
  <2> QED
    BY <2>1, <2>2, <2>3 DEF IsAt, Between
<1> QED
  BY <1>2, <1>3

LEMMA IdStep ==
    ASSUME NEW l, NEW x, NEW s, IsIn(l, x, s), NEW p \in Nat, InId(l, s, p)
    PROVE  /\ x[p + 1] \in IdChar
           /\ InId(l, s, p + 1) \/ Between(l, s, p + 1)
<1> DEFINE b == Payload(l, s)
<1>1. /\ s \in Nat /\ b \in Nat /\ s <= b
      /\ \A i \in 1..(b - s) : x[s + i] \in IdChar
  BY PayloadIn
<1> HIDE DEF b
<1>2. p \in s..(b - 1)
  BY DEF InId, b
<1>3. x[p + 1] \in IdChar
  <2>1. p + 1 - s \in 1..(b - s) /\ s + (p + 1 - s) = p + 1
    BY <1>1, <1>2
  <2> QED
    BY <1>1, <2>1
<1>4. CASE p + 1 < b
  <2>1. p + 1 \in s..(b - 1)
    BY <1>1, <1>2, <1>4
  <2> QED
    BY <1>3, <2>1 DEF InId, b
<1>5. CASE ~(p + 1 < b)
  <2>1. p + 1 \in (b + 0)..(b + 0)
    BY <1>1, <1>2, <1>5
  <2>2. 0 \in 0..Len(l.values) /\ EndOf(l, 0) = 0 /\ NextOf(l, 0) = 0
    <3>1. IsLine(l)
      BY DEF IsIn
    <3>2. Len(l.values) \in Nat
      BY <3>1, PayloadBegins
    <3>3. 0 \in 0..Len(l.values)
      BY <3>2
    <3> QED
      BY <3>3, GapIn
  <2>3. Between(l, s, p + 1)
    BY <2>1, <2>2 DEF Between, b
  <2> QED
    BY <1>3, <2>3
<1> QED
  BY <1>4, <1>5

LEMMA BreakStep ==
    ASSUME NEW l, NEW x, NEW s, IsIn(l, x, s), NEW j \in 0..Len(l.values),
           NEW p \in (Payload(l, s) + EndOf(l, j))..(Payload(l, s) + NextOf(l, j) - 1)
    PROVE  /\ x[p + 1] \in LineBreak
           /\ OpensNear(x, p)
           /\ Between(l, s, p + 1)
<1> DEFINE b == Payload(l, s)
           e == EndOf(l, j)
           a == NextOf(l, j)
<1>1. e \in Nat /\ a \in e..(e + 2) /\ b \in Nat /\ p \in (b + e)..(b + a - 1)
  BY GapIn, PayloadIn
<1>2. \A i \in (e + 1)..a : x[b + i] \in LineBreak
  BY GapIn
<1>3. j < Len(l.values) /\ j + 1 \in 1..Len(l.values) /\ a = l.at[j + 1]
  <2>1. Len(l.values) \in Nat
    <3>1. IsLine(l)
      BY DEF IsIn
    <3> QED
      BY <3>1, PayloadBegins
  <2>2. j < Len(l.values)
    <3>1. j = Len(l.values) => a = e
      BY GapIn
    <3>2. a # e
      BY <1>1
    <3> QED
      BY <2>1, <3>1, <3>2
  <2> QED
    BY <2>1, <2>2 DEF NextOf
<1> DEFINE k == j + 1
           w == Width(l)
           n == Len(l.values[k])
           m == Len(l.payload)
<1>4. /\ w \in 1..2 /\ n \in Nat /\ b + l.at[k] + 2 * w + n <= b + m
      /\ IsValue(x, b + l.at[k], w, n)
  BY <1>3, ValueIn
<1>5. m \in Nat /\ b + m < Len(x) /\ Len(x) \in Nat
  BY PayloadIn
<1> HIDE DEF b, e, w, n, m
<1>6. x[b + a + 1] = OpenBracket /\ b + a + 2 < Len(x)
  <2>1. l.at[k] = a
    BY <1>3
  <2>2. IsValue(x, b + a, w, n) /\ b + a + 2 * w + n <= b + m
    BY <1>4, <2>1
  <2>3. 1 \in 1..w
    BY <1>4
  <2> HIDE DEF a
  <2>4. b + a + 2 < Len(x)
    BY <1>1, <1>4, <1>5, <2>2
  <2> QED
    BY <2>2, <2>3, <2>4 DEF IsValue
<1> HIDE DEF a, k
<1>7. x[p + 1] \in LineBreak
  <2>1. p + 1 - b \in (e + 1)..a /\ b + (p + 1 - b) = p + 1
    BY <1>1
  <2> QED
    BY <1>2, <2>1
<1>8. OpensNear(x, p)
  <2>1. p + 2 = b + a + 1 \/ p + 3 = b + a + 1
    BY <1>1
  <2>2. Len(x) - p > 2
    BY <1>1, <1>5, <1>6
  <2> QED
    BY <1>6, <2>1, <2>2 DEF OpensNear
<1>9. p + 1 \in (b + e)..(b + a)
  BY <1>1
<1> QED
  BY <1>7, <1>8, <1>9 DEF Between, b, e, a

LEMMA OpenStep ==
    ASSUME NEW l, NEW x, NEW s, IsIn(l, x, s), NEW j \in 0..Len(l.values), j < Len(l.values),
           NEW p, p = Payload(l, s) + NextOf(l, j)
    PROVE  /\ x[p + 1] = OpenBracket
           /\ Within(l, s, Taken(x, p)) /\ Taken(x, p) \in (p + 1)..(p + 2)
<1> DEFINE b == Payload(l, s)
           k == j + 1
           w == Width(l)
           n == Len(l.values[k])
           m == Len(l.payload)
<1>1. k \in 1..Len(l.values) /\ p = b + l.at[k]
  <2>1. IsLine(l)
    BY DEF IsIn
  <2>2. Len(l.values) \in Nat
    BY <2>1, PayloadBegins
  <2>3. k \in 1..Len(l.values)
    BY <2>2
  <2> QED
    BY <2>3 DEF NextOf
<1>2. /\ w \in 1..2 /\ n \in Nat /\ p \in Nat
      /\ p + 2 * w + n <= b + m
      /\ IsValue(x, p, w, n)
  <2> HIDE DEF k
  <2> DEFINE a == b + l.at[k]
  <2>1. /\ w \in 1..2 /\ n \in Nat /\ a \in Nat
        /\ a + 2 * w + n <= b + m
        /\ IsValue(x, a, w, n)
    BY <1>1, ValueIn
  <2>2. p = a
    BY <1>1
  <2> HIDE DEF a, w, n, b, m
  <2> QED
    BY <2>1, <2>2
<1>3. m \in Nat /\ b \in Nat /\ b + m < Len(x) /\ Len(x) \in Nat
  BY PayloadIn
<1> HIDE DEF b, k, w, n, m
<1>4. OpenBracket # CloseBracket
  BY CharAssumption
<1>5. /\ \A i \in 1..w : x[p + i] = OpenBracket
      /\ \A i \in 1..n : x[p + w + i] \notin {OpenBracket, CloseBracket}
      /\ \A i \in 1..w : x[p + w + n + i] = CloseBracket
  BY <1>2 DEF IsValue
<1>6. x[p + 1] = OpenBracket
  <2>1. 1 \in 1..w
    BY <1>2
  <2> QED
    BY <1>5, <2>1
<1>7. Taken(x, p) = p + w
  <2>1. CASE w = 2
    <3>1. 2 \in 1..w /\ p + 1 < Len(x)
      BY <1>2, <1>3, <2>1
    <3>2. x[p + 2] = OpenBracket
      BY <1>5, <3>1
    <3> QED
      BY <1>6, <2>1, <3>1, <3>2 DEF Taken
  <2>2. CASE w = 1
    <3>1. x[p + 2] # OpenBracket
      <4>1. CASE n = 0
        <5>1. 1 \in 1..w /\ p + w + n + 1 = p + 2
          BY <1>2, <2>2, <4>1
        <5> QED
          BY <1>4, <1>5, <5>1
      <4>2. CASE n # 0
        <5>1. 1 \in 1..n /\ p + w + 1 = p + 2
          BY <1>2, <2>2, <4>2
        <5> QED
          BY <1>5, <5>1
      <4> QED
        BY <4>1, <4>2
    <3> QED
      BY <1>6, <2>2, <3>1 DEF Taken
  <2> QED
    BY <1>2, <2>1, <2>2
<1>8. Within(l, s, p + w)
  <2>1. p + w \in (p + w)..(p + w + n)
    BY <1>2
  <2> QED
    BY <1>1, <2>1 DEF Within, b, w, n
<1>9. p + w \in (p + 1)..(p + 2)
  BY <1>2
<1> QED
  BY <1>6, <1>7, <1>8, <1>9

LEMMA InnerStep ==
    ASSUME NEW l, NEW x, NEW s, IsIn(l, x, s), NEW j \in 1..Len(l.values),
           NEW p \in (Payload(l, s) + l.at[j] + Width(l))..
                        (Payload(l, s) + l.at[j] + Width(l) + Len(l.values[j]) - 1)
    PROVE  /\ x[p + 1] \notin {OpenBracket, CloseBracket}
           /\ Within(l, s, p + 1)
           /\ p + 1 <= Payload(l, s) + Len(l.payload)
<1> DEFINE b == Payload(l, s)
           w == Width(l)
           n == Len(l.values[j])
           a == b + l.at[j]
           m == Len(l.payload)
           v == a + w
<1>1. /\ w \in 1..2 /\ n \in Nat /\ a \in Nat /\ a + 2 * w + n <= b + m
      /\ IsValue(x, a, w, n)
  BY ValueIn
<1>2. p \in v..(v + n - 1)
  OBVIOUS
<1>3. m \in Nat /\ b \in Nat
  BY PayloadIn
<1> HIDE DEF b, w, n, a, m
<1>4. \A i \in 1..n : x[v + i] \notin {OpenBracket, CloseBracket}
  BY <1>1 DEF IsValue
<1>5. v \in Nat
  BY <1>1
<1>6. v + n <= b + m
  BY <1>1, <1>3
<1> HIDE DEF v
<1>7. x[p + 1] \notin {OpenBracket, CloseBracket}
  <2>1. p + 1 - v \in 1..n /\ v + (p + 1 - v) = p + 1
    BY <1>1, <1>2, <1>5
  <2> QED
    BY <1>4, <2>1
<1>8. p + 1 \in v..(v + n) /\ p + 1 <= b + m
  BY <1>1, <1>2, <1>3, <1>5, <1>6
<1> QED
  BY <1>7, <1>8 DEF Within, v, a, b, w, n, m

LEMMA CloseStep ==
    ASSUME NEW l, NEW x, NEW s, IsIn(l, x, s), NEW j \in 1..Len(l.values),
           NEW p, p = Payload(l, s) + l.at[j] + Width(l) + Len(l.values[j])
    PROVE  /\ x[p + 1] = CloseBracket
           /\ Between(l, s, Taken(x, p)) /\ Taken(x, p) \in (p + 1)..(p + 2)
<1> DEFINE b == Payload(l, s)
           w == Width(l)
           n == Len(l.values[j])
           a == b + l.at[j]
           m == Len(l.payload)
           e == EndOf(l, j)
           g == NextOf(l, j)
<1>1. IsLine(l) /\ Len(l.values) \in Nat
  <2>1. IsLine(l)
    BY DEF IsIn
  <2> QED
    BY <2>1, PayloadBegins
<1>2. /\ w \in 1..2 /\ n \in Nat /\ a \in Nat /\ b + e = a + 2 * w + n /\ a + 2 * w + n <= b + m
      /\ IsValue(x, a, w, n)
  BY ValueIn
<1>3. m \in Nat /\ b \in Nat /\ b + m < Len(x) /\ Len(x) \in Nat /\ x[b + m + 1] \in LineBreak
  BY PayloadIn
<1>4. j \in 0..Len(l.values)
  BY <1>1
<1>5. /\ e \in Nat /\ g \in e..(e + 2)
      /\ j = Len(l.values) => g = m /\ g = e
      /\ \A i \in (e + 1)..g : x[b + i] \in LineBreak
  BY <1>4, GapIn
<1>6. p = a + w + n
  OBVIOUS
<1>7. CloseBracket \notin LineBreak \cup {OpenBracket}
  BY CharAssumption
<1>8. x[b + e + 1] # CloseBracket
  <2>1. CASE e < g
    <3>1. b \in Nat /\ e \in Nat /\ g \in e..(e + 2)
      BY <1>3, <1>5, Zenon
    <3>2. \A i \in (e + 1)..g : x[b + i] \in LineBreak
      BY <1>5, Zenon
    <3> HIDE DEF b, e, g
    <3>3. e + 1 \in (e + 1)..g /\ b + (e + 1) = b + e + 1
      BY <2>1, <3>1
    <3> QED
      BY <1>7, <3>2, <3>3
  <2>2. CASE e = g /\ j = Len(l.values)
    BY <1>3, <1>5, <1>7, <2>2
  <2>3. CASE e = g /\ j # Len(l.values)
    <3>1. j < Len(l.values)
      BY <1>1, <2>3
    <3> DEFINE q == b + g
    <3>2. x[q + 1] = OpenBracket
      BY <1>4, <3>1, OpenStep
    <3> QED
      BY <1>7, <2>3, <3>2
  <2> QED
    BY <1>5, <2>1, <2>2, <2>3
<1> HIDE DEF b, w, n, a, m, e, g
<1>9. \A i \in 1..w : x[p + i] = CloseBracket
  BY <1>2, <1>6 DEF IsValue
<1>10. x[p + 1] = CloseBracket /\ p \in Nat
  <2>1. 1 \in 1..w
    BY <1>2
  <2>2. p \in Nat
    BY <1>2, <1>6
  <2> QED
    BY <1>9, <2>1, <2>2
<1>11. b + e = p + w /\ p + w <= b + m
  <2>1. /\ w \in 1..2 /\ n \in Nat /\ a \in Nat /\ b \in Nat /\ e \in Nat /\ m \in Nat
        /\ b + e = a + 2 * w + n /\ a + 2 * w + n <= b + m
    BY <1>2, <1>3, <1>5, Zenon
  <2>2. a + 2 * w + n = (a + w + n) + w
    BY <2>1
  <2> QED
    BY <1>6, <2>1, <2>2
<1>12. Taken(x, p) = p + w
  <2>1. CASE w = 2
    <3>1. 2 \in 1..w /\ p + 1 < Len(x)
      <4>1. b \in Nat /\ m \in Nat /\ Len(x) \in Nat /\ b + m < Len(x)
        BY <1>3, Zenon
      <4>2. p \in Nat /\ p + 2 <= b + m
        BY <1>10, <1>11, <2>1
      <4> QED
        BY <2>1, <4>1, <4>2
    <3>2. x[p + 2] = CloseBracket
      BY <1>9, <3>1
    <3> QED
      BY <1>10, <2>1, <3>1, <3>2 DEF Taken
  <2>2. CASE w = 1
    <3>1. p + 2 = b + e + 1
      BY <1>10, <1>11, <2>2
    <3>2. x[p + 2] # CloseBracket
      BY <1>8, <3>1
    <3> QED
      BY <1>10, <2>2, <3>2 DEF Taken
  <2> QED
    BY <1>2, <2>1, <2>2
<1>13. Between(l, s, p + w)
  <2>1. p + w \in (b + e)..(b + g)
    BY <1>3, <1>5, <1>11
  <2> QED
    BY <1>4, <2>1 DEF Between, b, e, g
<1>14. p + w \in (p + 1)..(p + 2)
  BY <1>2, <1>10
<1> QED
  BY <1>10, <1>12, <1>13, <1>14

\* One turn of the loop in a line: it is at its end, at a character that is no
\* bracket, at a bracket that opens or at one that closes a value.
Turn(l, x, s, p, open) ==
    \/ p = s + Len(Text(l)) /\ ~open
    \/ /\ x[p + 1] \notin {OpenBracket, CloseBracket}
       /\ x[p + 1] \in LineBreak => open \/ OpensNear(x, p)
       /\ IsAt(l, s, p + 1, open)
    \/ /\ x[p + 1] = OpenBracket /\ ~open
       /\ IsAt(l, s, Taken(x, p), TRUE)
    \/ /\ x[p + 1] = CloseBracket /\ open
       /\ IsAt(l, s, Taken(x, p), FALSE)

LEMMA LineStep ==
    ASSUME NEW l, NEW x, NEW s, IsIn(l, x, s), NEW p \in Nat, NEW open \in BOOLEAN,
           IsAt(l, s, p, open)
    PROVE  Turn(l, x, s, p, open)
<1> USE DEF Turn
<1>1. /\ {OpenBracket, CloseBracket} \cap (LineBreak \cup IdChar) = {}
      /\ LineBreak \cap IdChar = {}
  BY CharAssumption
<1>2. CASE ~open /\ InId(l, s, p)
  <2>1. x[p + 1] \in IdChar /\ IsAt(l, s, p + 1, FALSE)
    BY <1>2, IdStep DEF IsAt
  <2> QED
    BY <1>1, <1>2, <2>1
<1>3. CASE ~open /\ Between(l, s, p)
  <2> DEFINE b == Payload(l, s)
  <2>1. PICK j \in 0..Len(l.values) : p \in (b + EndOf(l, j))..(b + NextOf(l, j))
    BY <1>3 DEF Between
  <2>2. /\ EndOf(l, j) \in Nat /\ NextOf(l, j) \in EndOf(l, j)..(EndOf(l, j) + 2)
        /\ j = Len(l.values) => NextOf(l, j) = Len(l.payload)
    BY GapIn
  <2>3. b \in Nat /\ s + Len(Text(l)) = b + Len(l.payload)
    BY PayloadIn
  <2>4. CASE p = b + NextOf(l, j) /\ j = Len(l.values)
    BY <1>3, <2>2, <2>3, <2>4
  <2>5. CASE p = b + NextOf(l, j) /\ j # Len(l.values)
    <3>1. j < Len(l.values)
      <4>1. IsLine(l)
        BY DEF IsIn
      <4>2. Len(l.values) \in Nat
        BY <4>1, PayloadBegins
      <4> QED
        BY <2>5, <4>2
    <3>2. x[p + 1] = OpenBracket /\ Within(l, s, Taken(x, p))
      BY <2>5, <3>1, OpenStep
    <3> QED
      BY <1>3, <3>2 DEF IsAt
  <2>6. CASE p # b + NextOf(l, j)
    <3>1. p \in (b + EndOf(l, j))..(b + NextOf(l, j) - 1)
      <4> DEFINE e == EndOf(l, j)
                 g == NextOf(l, j)
      <4> HIDE DEF b, e, g
      <4>1. e \in Nat /\ g \in Nat /\ b \in Nat /\ p \in (b + e)..(b + g) /\ p # b + g
        BY <2>1, <2>2, <2>3, <2>6 DEF e, g
      <4>2. p \in (b + e)..(b + g - 1)
        BY <4>1
      <4> QED
        BY <4>2 DEF e, g
    <3>2. x[p + 1] \in LineBreak /\ OpensNear(x, p) /\ Between(l, s, p + 1)
      BY <3>1, BreakStep
    <3> QED
      BY <1>1, <1>3, <3>2 DEF IsAt
  <2> QED
    BY <2>4, <2>5, <2>6
<1>4. CASE open
  <2> DEFINE w == Width(l)
             a(j) == Payload(l, s) + l.at[j] + w
  <2>1. PICK j \in 1..Len(l.values) : p \in a(j)..(a(j) + Len(l.values[j]))
    BY <1>4 DEF IsAt, Within
  <2>2. w \in 1..2 /\ Len(l.values[j]) \in Nat /\ Payload(l, s) + l.at[j] \in Nat
    BY ValueIn
  <2>3. CASE p = a(j) + Len(l.values[j])
    <3>1. x[p + 1] = CloseBracket /\ Between(l, s, Taken(x, p))
      BY <2>3, CloseStep
    <3> QED
      BY <1>4, <3>1 DEF IsAt
  <2>4. CASE p # a(j) + Len(l.values[j])
    <3>1. p \in a(j)..(a(j) + Len(l.values[j]) - 1)
      <4> DEFINE c == a(j)
                 n == Len(l.values[j])
      <4>1. c \in Nat /\ n \in Nat /\ p \in c..(c + n) /\ p # c + n
        BY <2>1, <2>2, <2>4
      <4> HIDE DEF c, n
      <4>2. p \in c..(c + n - 1)
        BY <4>1
      <4> QED
        BY <4>2 DEF c, n
    <3>2. x[p + 1] \notin {OpenBracket, CloseBracket} /\ Within(l, s, p + 1)
      BY <3>1, InnerStep
    <3> QED
      BY <1>4, <3>2 DEF IsAt
  <2> QED
    BY <2>3, <2>4
<1> QED
  BY <1>2, <1>3, <1>4 DEF IsAt

LEMMA AtBounds ==
    ASSUME NEW l, NEW x, NEW s, IsIn(l, x, s), NEW p, NEW open \in BOOLEAN, IsAt(l, s, p, open)
    PROVE  p \in s..(s + Len(Text(l))) /\ p \in Nat /\ s + Len(Text(l)) < Len(x)
<1> DEFINE b == Payload(l, s)
           m == Len(l.payload)
<1>1. s \in Nat /\ b \in Nat /\ m \in Nat /\ s <= b /\ s + Len(Text(l)) = b + m /\ b + m < Len(x)
  BY PayloadIn
<1> SUFFICES p \in s..(b + m)
  BY <1>1
<1>2. CASE ~open /\ InId(l, s, p)
  <2>1. p \in s..(b - 1)
    BY <1>2 DEF InId
  <2> HIDE DEF b, m
  <2> QED
    BY <1>1, <2>1
<1>3. CASE ~open /\ Between(l, s, p)
  <2>1. PICK j \in 0..Len(l.values) : p \in (b + EndOf(l, j))..(b + NextOf(l, j))
    BY <1>3 DEF Between
  <2> DEFINE e == EndOf(l, j)
             g == NextOf(l, j)
  <2>2. e \in Nat /\ g \in e..(e + 2) /\ g <= m
    BY GapIn
  <2> HIDE DEF b, m, e, g
  <2>3. p \in (b + e)..(b + g)
    BY <2>1 DEF b, e, g
  <2> QED
    BY <1>1, <2>2, <2>3
<1>4. CASE open
  <2> DEFINE w == Width(l)
  <2>1. PICK j \in 1..Len(l.values) :
            p \in (b + l.at[j] + w)..(b + l.at[j] + w + Len(l.values[j]))
    BY <1>4 DEF IsAt, Within
  <2> DEFINE n == Len(l.values[j])
             a == l.at[j]
  <2>2. w \in 1..2 /\ n \in Nat /\ a \in Nat /\ b + a + 2 * w + n <= b + m
    BY ValueIn
  <2> HIDE DEF b, m, w, n, a
  <2>3. p \in (b + a + w)..(b + a + w + n)
    BY <2>1 DEF n, a
  <2> QED
    BY <1>1, <2>2, <2>3
<1> QED
  BY <1>2, <1>3, <1>4 DEF IsAt

-------------------------------------------------------------------------------
(* Where parse is in a telegram *)

\* The number of lines parse has found before line k: with a line end of two
\* characters it finds an empty line between them.
Before(t, k) == IF Len(t.eol) = 1 THEN k ELSE 2 * k

\* The lines found so far are those of the telegram.
Segmented(t, h) ==
    \A k \in 0..Len(t.lines) :
        /\ Before(t, k) + 1 <= Len(h) => h[Before(t, k) + 1] = <<Begin(t, k), Stop(t, k)>>
        /\ Len(t.eol) = 2 /\ Before(t, k) + 2 <= Len(h) =>
            h[Before(t, k) + 2] = <<Stop(t, k) + 1, Stop(t, k) + 1>>

\* In line k, and between the two characters of the line end after it.
InLineOf(k) ==
    /\ Len(handled) = Before(telegram, k)
    /\ line_start = Begin(telegram, k)
    /\ IF k = Len(telegram.lines) + 1
       THEN pos = Len(telegram.text) /\ ~open_bracket
       ELSE IsAt(telegram.lines[k], line_start, pos, open_bracket)

InEolOf(k) ==
    /\ Len(telegram.eol) = 2
    /\ Len(handled) = Before(telegram, k) + 1
    /\ pos = Stop(telegram, k) + 1 /\ line_start = pos /\ ~open_bracket

Ended ==
    IF result
    THEN Len(handled) = Before(telegram, Len(telegram.lines) + 1)
    ELSE \E k \in 1..Len(telegram.lines) : Len(handled) = Before(telegram, k) + 1 /\ IsBad(k)

LayoutInv ==
    /\ telegram \in Telegrams /\ input = telegram.text
    /\ Segmented(telegram, handled)
    /\ loop = "id_line" =>
        handled = <<>> /\ line_start = 0 /\ pos \in 0..Stop(telegram, 0) /\ ~open_bracket
    /\ loop = "data_lines" =>
        \/ \E k \in 1..(Len(telegram.lines) + 1) : InLineOf(k)
        \/ \E k \in 0..Len(telegram.lines) : InEolOf(k)
    /\ loop = "returned" => Ended

LEMMA LineIsIn ==
    ASSUME NEW t \in Telegrams, NEW k \in 1..Len(t.lines)
    PROVE  /\ IsIn(t.lines[k], t.text, Begin(t, k))
           /\ Stop(t, k) = Begin(t, k) + Len(Text(t.lines[k]))
<1> DEFINE y == Text(t.lines[k])
           s == Begin(t, k)
           stop == Stop(t, k)
           e == Len(t.eol)
           next == Begin(t, k + 1)
<1>1. /\ IsLine(t.lines[k]) /\ Len(y) \in Nat /\ s \in Nat /\ stop = s + Len(y)
      /\ stop + e = next
  BY DataLineAt
<1>2. /\ \A i \in 1..Len(y) : t.text[s + i] = y[i]
      /\ \A i \in 1..e : t.text[stop + i] \in LineBreak
  BY DataLineAt
<1>3. next \in 0..Len(t.text) /\ Len(t.text) \in Nat /\ e \in 1..2 /\ t.text \in Seq(Char)
  <2>1. Len(t.lines) \in Nat
    BY TelegramIs
  <2>2. k + 1 \in 0..(Len(t.lines) + 1)
    BY <2>1
  <2> QED
    BY <2>2, TelegramIs
<1> HIDE DEF y, s, stop, e, next
<1>4. s + Len(y) < Len(t.text)
  BY <1>1, <1>3
<1>5. 1 \in 1..e
  BY <1>3
<1>6. t.text[s + Len(y) + 1] \in LineBreak
  BY <1>1, <1>2, <1>5
<1> QED
  BY <1>1, <1>2, <1>3, <1>4, <1>6 DEF IsIn, y, s, stop

LEMMA BeforeIs ==
    ASSUME NEW t \in Telegrams, NEW j \in Nat, NEW k \in Nat
    PROVE  /\ Before(t, j) \in Nat /\ Before(t, 0) = 0
           /\ Before(t, j + 1) = Before(t, j) + Len(t.eol)
           /\ j <= k <=> Before(t, j) <= Before(t, k)
           /\ Before(t, j) = Before(t, k) => j = k
           /\ Len(t.eol) = 2 => Before(t, j) # Before(t, k) + 1
<1> DEFINE e == Len(t.eol)
<1>1. e \in 1..2
  BY TelegramIs
<1>2. \A i : Before(t, i) = IF e = 1 THEN i ELSE 2 * i
  BY DEF Before
<1> HIDE DEF e
<1>3. CASE e = 1
  <2>1. Before(t, j) = j /\ Before(t, k) = k /\ Before(t, 0) = 0 /\ Before(t, j + 1) = j + 1
    BY <1>2, <1>3
  <2> QED
    BY <1>3, <2>1 DEF e
<1>4. CASE e = 2
  <2>1. /\ Before(t, j) = 2 * j /\ Before(t, k) = 2 * k /\ Before(t, 0) = 0
        /\ Before(t, j + 1) = 2 * (j + 1)
    BY <1>2, <1>4
  <2> QED
    BY <1>4, <2>1 DEF e
<1> QED
  BY <1>1, <1>3, <1>4

LEMMA SegmentedOne ==
    ASSUME NEW t \in Telegrams, NEW h \in Seq(Int \X Int), Segmented(t, h),
           NEW k \in 0..Len(t.lines), NEW seg \in Int \X Int,
           \/ Len(h) = Before(t, k) /\ seg = <<Begin(t, k), Stop(t, k)>>
           \/ /\ Len(t.eol) = 2 /\ Len(h) = Before(t, k) + 1
              /\ seg = <<Stop(t, k) + 1, Stop(t, k) + 1>>
    PROVE  Segmented(t, Append(h, seg))
<1> DEFINE h2 == Append(h, seg)
           n == Len(h)
<1>1. n \in Nat /\ Len(h2) = n + 1 /\ h2[n + 1] = seg /\ \A i \in 1..n : h2[i] = h[i]
  OBVIOUS
<1>2. Len(t.eol) \in 1..2 /\ Len(t.lines) \in Nat
  BY TelegramIs
<1>3. \/ n = Before(t, k) /\ seg = <<Begin(t, k), Stop(t, k)>>
      \/ /\ Len(t.eol) = 2 /\ n = Before(t, k) + 1
         /\ seg = <<Stop(t, k) + 1, Stop(t, k) + 1>>
  OBVIOUS
<1>4. Segmented(t, h)
  OBVIOUS
<1> HIDE DEF h2, n
<1>5. ASSUME NEW j \in 0..Len(t.lines)
      PROVE  /\ Before(t, j) + 1 <= Len(h2) => h2[Before(t, j) + 1] = <<Begin(t, j), Stop(t, j)>>
             /\ Len(t.eol) = 2 /\ Before(t, j) + 2 <= Len(h2) =>
                    h2[Before(t, j) + 2] = <<Stop(t, j) + 1, Stop(t, j) + 1>>
  <2> DEFINE c == Before(t, j)
  <2>1. /\ c \in Nat /\ Before(t, k) \in Nat
        /\ c = Before(t, k) => j = k
        /\ Len(t.eol) = 2 => c # Before(t, k) + 1 /\ Before(t, k) # c + 1
    <3>1. j \in Nat /\ k \in Nat
      BY <1>2
    <3>2. /\ c \in Nat
          /\ c = Before(t, k) => j = k
          /\ Len(t.eol) = 2 => c # Before(t, k) + 1
      BY <3>1, BeforeIs
    <3>3. /\ Before(t, k) \in Nat
          /\ Len(t.eol) = 2 => Before(t, k) # c + 1
      BY <3>1, BeforeIs
    <3> QED
      BY <3>2, <3>3
  <2> HIDE DEF c
  <2>2. ASSUME c + 1 <= Len(h2) PROVE h2[c + 1] = <<Begin(t, j), Stop(t, j)>>
    <3>1. CASE c + 1 <= n
      <4>1. h[c + 1] = <<Begin(t, j), Stop(t, j)>>
        BY <1>4, <3>1 DEF Segmented, n, c
      <4>2. c + 1 \in 1..n
        BY <1>1, <2>1, <3>1
      <4> QED
        BY <1>1, <4>1, <4>2
    <3>2. CASE ~(c + 1 <= n)
      <4>1. c = n
        BY <1>1, <2>1, <2>2, <3>2
      <4>2. n # Before(t, k) + 1 \/ Len(t.eol) # 2
        BY <2>1, <4>1
      <4>3. seg = <<Begin(t, j), Stop(t, j)>>
        BY <1>3, <2>1, <4>1, <4>2
      <4> QED
        BY <1>1, <4>1, <4>3
    <3> QED
      BY <3>1, <3>2
  <2>3. ASSUME Len(t.eol) = 2, c + 2 <= Len(h2)
        PROVE  h2[c + 2] = <<Stop(t, j) + 1, Stop(t, j) + 1>>
    <3>1. CASE c + 2 <= n
      <4>1. h[c + 2] = <<Stop(t, j) + 1, Stop(t, j) + 1>>
        BY <1>4, <2>3, <3>1 DEF Segmented, n, c
      <4>2. c + 2 \in 1..n
        BY <1>1, <2>1, <3>1
      <4> QED
        BY <1>1, <4>1, <4>2
    <3>2. CASE ~(c + 2 <= n)
      <4>1. c + 1 = n
        BY <1>1, <2>1, <2>3, <3>2
      <4>2. n # Before(t, k) /\ (n = Before(t, k) + 1 => c = Before(t, k))
        BY <2>1, <2>3, <4>1
      <4>3. seg = <<Stop(t, j) + 1, Stop(t, j) + 1>>
        BY <1>3, <2>1, <4>2
      <4>4. c + 2 = n + 1
        BY <2>1, <4>1
      <4> QED
        BY <1>1, <4>3, <4>4
    <3> QED
      BY <3>1, <3>2
  <2> QED
    BY <2>2, <2>3 DEF c
<1> QED
  BY <1>5 DEF Segmented, h2

\* Whose line is the i-th that parse found.
LEMMA Numbered ==
    ASSUME NEW t \in Telegrams, NEW K \in Nat, NEW i \in 1..Before(t, K)
    PROVE  \E k \in 0..(K - 1) :
                \/ i = Before(t, k) + 1
                \/ Len(t.eol) = 2 /\ i = Before(t, k) + 2
<1> DEFINE e == Len(t.eol)
<1>1. e \in 1..2
  BY TelegramIs
<1>2. \A k : Before(t, k) = IF e = 1 THEN k ELSE 2 * k
  BY DEF Before
<1> HIDE DEF e
<1>3. CASE e = 1
  <2>1. i \in 1..K /\ i - 1 \in 0..(K - 1) /\ i = (i - 1) + 1
    BY <1>2, <1>3
  <2>2. Before(t, i - 1) = i - 1
    BY <1>2, <1>3
  <2> QED
    BY <2>1, <2>2
<1>4. CASE e = 2
  <2>1. i \in 1..(2 * K)
    BY <1>2, <1>4
  <2>2. PICK k \in 0..(K - 1) : i = 2 * k + 1 \/ i = 2 * k + 2
    <3>1. (i - 1) \div 2 \in 0..(K - 1)
      BY <2>1
    <3>2. i = 2 * ((i - 1) \div 2) + 1 \/ i = 2 * ((i - 1) \div 2) + 2
      BY <2>1
    <3> QED
      BY <3>1, <3>2
  <2>3. Before(t, k) = 2 * k
    BY <1>2, <1>4
  <2> QED
    BY <1>4, <2>2, <2>3 DEF e
<1> QED
  BY <1>1, <1>3, <1>4

\* The lines are cut out of the text.
LEMMA CutLine ==
    ASSUME NEW t \in Telegrams, NEW k \in 1..Len(t.lines)
    PROVE  SubSeq(t.text, Begin(t, k) + 1, Stop(t, k)) = Text(t.lines[k])
<1> DEFINE x == Text(t.lines[k])
           b == Begin(t, k)
           stop == Stop(t, k)
           m == Len(x)
           a == SubSeq(t.text, b + 1, stop)
<1>1. /\ m \in Nat /\ x \in Seq(Char) /\ b \in Nat /\ stop = b + m
      /\ \A i \in 1..m : t.text[b + i] = x[i]
  BY DataLineAt
<1>2. b + m < Len(t.text) /\ t.text \in Seq(Char)
  BY LineIsIn DEF IsIn
<1> HIDE DEF x, b, stop, m
<1>3. a \in Seq(Char) /\ Len(a) = m /\ \A i \in 1..m : a[i] = t.text[b + i]
  BY <1>1, <1>2
<1>4. \A i \in 1..m : a[i] = x[i]
  BY <1>1, <1>3
<1>5. Len(x) = m
  BY DEF m
<1> HIDE DEF a
<1>6. a = x
  BY <1>1, <1>3, <1>4, <1>5, SeqEqual
<1> QED
  BY <1>6 DEF a, b, stop, x

\* An id that parse_obis takes, and the field it is for.
LEMMA ObisOfText ==
    ASSUME NEW l, IsLine(l)
    PROVE  /\ Text(l) # <<>> /\ HasObis(Text(l)) <=> l.id \notin OverflowingId \cup {<<>>}
           /\ SubSeq(Text(l), 1, IdLength(Text(l))) = l.id
           /\ Rest(Text(l), IdLength(Text(l))) = l.payload
           /\ \A f : f \in TargetOf(l) <=>
                l.id \notin OverflowingId \cup {<<>>} /\ IsKnown(l.id) /\ f = FieldOf(l.id)
<1>1. /\ IdLength(Text(l)) = Len(l.id)
      /\ SubSeq(Text(l), 1, Len(l.id)) = l.id
      /\ Rest(Text(l), Len(l.id)) = l.payload
  BY IdOfText
<1>2. Text(l) = <<>> <=> l.id = <<>>
  BY TextIs
<1>3. Len(l.id) > 0 <=> l.id # <<>>
  <2>1. l.id \in Seq(Char) /\ Len(l.id) \in Nat
    BY PayloadBegins
  <2>2. l.id = <<>> <=> Len(l.id) = 0
    BY <2>1
  <2> QED
    BY <2>1, <2>2
<1>4. HasObis(Text(l)) <=> l.id # <<>> /\ l.id \notin OverflowingId
  BY <1>1, <1>3 DEF HasObis
<1>5. ASSUME NEW f
      PROVE  f \in TargetOf(l) <=>
                l.id \notin OverflowingId \cup {<<>>} /\ IsKnown(l.id) /\ f = FieldOf(l.id)
  <2>1. IsKnown(l.id) => Target(l.id) = {FieldOf(l.id)}
    BY TargetIs
  <2>2. ~IsKnown(l.id) => Target(l.id) = {}
    BY TargetIs
  <2> QED
    BY <2>1, <2>2 DEF TargetOf
<1> QED
  BY <1>1, <1>2, <1>4, <1>5

\* What a line of the telegram is once parse has found it: line i of those found is
\* line k of the telegram.
IsLineAt(i, k) ==
    /\ i # 1
    /\ LineOf(i) = Text(telegram.lines[k])
    /\ HasId(i) <=> telegram.lines[k].id \notin OverflowingId \cup {<<>>}
    /\ IdOf(i) = telegram.lines[k].id
    /\ TextOf(i) = telegram.lines[k].payload
    /\ \A f : IsFor(i, f) <=> f \in TargetOf(telegram.lines[k])

LEMMA LineSays ==
    ASSUME telegram \in Telegrams, input = telegram.text, Segmented(telegram, handled),
           NEW k \in 1..Len(telegram.lines), NEW i, i = Before(telegram, k) + 1, i <= Len(handled)
    PROVE  IsLineAt(i, k)
<1> DEFINE l == telegram.lines[k]
<1>1. IsLine(l)
  BY DataLineAt
<1>2. k \in 0..Len(telegram.lines) /\ k \in Nat /\ k # 0 /\ 0 \in Nat
  BY TelegramIs
<1>3. i # 1
  <2>1. /\ Before(telegram, 0) = 0 /\ Before(telegram, k) \in Nat
        /\ Before(telegram, k) = Before(telegram, 0) => k = 0
    BY <1>2, BeforeIs
  <2>2. Before(telegram, k) # 0
    BY <1>2, <2>1
  <2> QED
    BY <2>1, <2>2
<1>4. handled[i] = <<Begin(telegram, k), Stop(telegram, k)>>
  BY <1>2 DEF Segmented
<1>5. LineOf(i) = Text(l)
  BY <1>4, CutLine DEF LineOf, substr
<1>6. /\ HasId(i) <=> Text(l) # <<>> /\ HasObis(Text(l))
      /\ IdOf(i) = SubSeq(Text(l), 1, IdLength(Text(l)))
      /\ TextOf(i) = Rest(Text(l), IdLength(Text(l)))
  BY <1>3, <1>5 DEF HasId, IdOf, TextOf
<1>7. /\ HasId(i) <=> l.id \notin OverflowingId \cup {<<>>}
      /\ IdOf(i) = l.id /\ TextOf(i) = l.payload
  <2> HIDE DEF l
  <2> QED
    BY <1>1, <1>6, ObisOfText
<1>8. \A f : f \in TargetOf(l) <=>
                l.id \notin OverflowingId \cup {<<>>} /\ IsKnown(l.id) /\ f = FieldOf(l.id)
  <2> HIDE DEF l
  <2> QED
    BY <1>1, ObisOfText
<1>9. \A f : IsFor(i, f) <=> f \in TargetOf(l)
  <2> HIDE DEF l
  <2> QED
    BY <1>7, <1>8 DEF IsFor
<1> QED
  BY <1>3, <1>5, <1>7, <1>9 DEF IsLineAt

\* The first line is the identification.
LEMMA FirstSays ==
    ASSUME telegram \in Telegrams, input = telegram.text, Segmented(telegram, handled),
           1 <= Len(handled)
    PROVE  /\ LineOf(1) = FirstLine(telegram) /\ HasId(1) /\ IdOf(1) = identification
           /\ TextOf(1) = FirstLine(telegram)
           /\ \A f : IsFor(1, f) <=> f \in Target(identification)
<1>1. 0 \in 0..Len(telegram.lines) /\ 0 \in Nat
  BY TelegramIs
<1>2. Before(telegram, 0) = 0 /\ Begin(telegram, 0) = 0
  BY <1>1, BeforeIs DEF Begin
<1>3. Before(telegram, 0) + 1 = 1 /\ Begin(telegram, 0) + 1 = 1
  BY <1>2
<1>4. handled[1] = <<Begin(telegram, 0), Stop(telegram, 0)>>
  BY <1>1, <1>3 DEF Segmented
<1>5. LineOf(1) = SubSeq(telegram.text, 1, Stop(telegram, 0))
  <2>1. handled[1][1] = Begin(telegram, 0) /\ handled[1][2] = Stop(telegram, 0)
    BY <1>4
  <2>2. LineOf(1) = SubSeq(telegram.text, Begin(telegram, 0) + 1, Stop(telegram, 0))
    BY <2>1, Zenon DEF LineOf, substr
  <2> QED
    BY <1>3, <2>2
<1>6. LineOf(1) = FirstLine(telegram)
  BY <1>5, FirstLineAt
<1>7. HasId(1) /\ IdOf(1) = identification /\ TextOf(1) = FirstLine(telegram)
  BY <1>6 DEF HasId, IdOf, TextOf
<1>8. IsKnown(identification) => Target(identification) = {FieldOf(identification)}
  BY TargetIs
<1>9. ~IsKnown(identification) => Target(identification) = {}
  BY TargetIs
<1>10. \A f : IsFor(1, f) <=> f \in Target(identification)
  BY <1>7, <1>8, <1>9 DEF IsFor
<1> QED
  BY <1>6, <1>7, <1>10

\* Between two characters of a line end there is nothing.
LEMMA EolSays ==
    ASSUME telegram \in Telegrams, input = telegram.text, Segmented(telegram, handled),
           NEW k \in 0..Len(telegram.lines), Len(telegram.eol) = 2,
           NEW i, i = Before(telegram, k) + 2, i <= Len(handled)
    PROVE  i # 1 /\ LineOf(i) = <<>> /\ ~HasId(i) /\ \A f : ~IsFor(i, f)
<1>1. k \in Nat /\ Before(telegram, k) \in Nat
  <2>1. k \in Nat
    BY TelegramIs
  <2> QED
    BY <2>1, BeforeIs
<1>2. i # 1
  BY <1>1
<1> DEFINE stop == Stop(telegram, k)
<1>3. handled[i] = <<stop + 1, stop + 1>>
  BY DEF Segmented
<1>4. stop \in Int
  <2>1. k \in 1..Len(telegram.lines) \/ k = 0
    BY TelegramIs
  <2>2. stop \in Nat \/ stop \in Int
    <3>1. CASE k = 0
      BY <3>1, FirstLineAt
    <3>2. CASE k \in 1..Len(telegram.lines)
      <4>1. Begin(telegram, k) \in Nat /\ stop = Begin(telegram, k) + Len(Text(telegram.lines[k]))
            /\ Len(Text(telegram.lines[k])) \in Nat
        BY <3>2, DataLineAt
      <4> HIDE DEF stop
      <4> QED
        BY <4>1
    <3> QED
      BY <2>1, <3>1, <3>2
  <2> QED
    BY <2>2
<1> HIDE DEF stop
<1>5. LineOf(i) = <<>>
  <2>1. LineOf(i) = SubSeq(input, (stop + 1) + 1, stop + 1)
    <3>1. handled[i][1] = stop + 1 /\ handled[i][2] = stop + 1
      BY <1>3
    <3> QED
      BY <3>1, Zenon DEF LineOf, substr
  <2>2. input \in Seq(Char)
    BY TelegramIs
  <2>3. (stop + 1) + 1 > stop + 1
    BY <1>4
  <2> DEFINE a == (stop + 1) + 1
             c == stop + 1
  <2>4. a \in Int /\ c \in Int /\ a > c
    BY <1>4
  <2> HIDE DEF a, c
  <2>5. SubSeq(input, a, c) = <<>>
    BY <2>2, <2>4
  <2> QED
    BY <2>1, <2>5 DEF a, c
<1> QED
  BY <1>2, <1>5 DEF HasId, IsFor

LEMMA TargetsAre ==
    ASSUME NEW l, NEW f \in TargetOf(l)
    PROVE  /\ TargetOf(l) = {f} /\ f \in Field /\ f = FieldOf(l.id) /\ IsKnown(l.id)
           /\ TargetOf(l) = Target(l.id) /\ ObisId[f] = l.id
           /\ l.id \notin OverflowingId \cup {<<>>}
<1>1. l.id \notin OverflowingId \cup {<<>>} /\ TargetOf(l) = Target(l.id)
  BY DEF TargetOf
<1>2. IsKnown(l.id)
  BY <1>1, TargetIs
<1>3. Target(l.id) = {FieldOf(l.id)} /\ ObisId[FieldOf(l.id)] = l.id
  BY <1>2, TargetIs
<1>4. FieldOf(l.id) \in Field
  BY <1>2, FieldOfIsField
<1> QED
  BY <1>1, <1>2, <1>3, <1>4

LEMMA NamedIs ==
    ASSUME NEW f \in Target(identification)
    PROVE  /\ f \in Field /\ f \in RawField /\ ObisId[f] = identification
           /\ IsKnown(identification) /\ Target(identification) = {f} /\ f = FieldOf(identification)
<1>1. IsKnown(identification)
  BY TargetIs
<1>2. /\ Target(identification) = {FieldOf(identification)}
      /\ ObisId[FieldOf(identification)] = identification
  BY <1>1, TargetIs
<1> QED
  BY <1>1, <1>2, FieldOfIsField, TelegramAssumption

\* A field that is for a line found before line K, and for line K, has its id twice.
LEMMA EarlierIsRepeated ==
    ASSUME telegram \in Telegrams, input = telegram.text, Segmented(telegram, handled),
           NEW k \in 1..Len(telegram.lines), NEW f \in TargetOf(telegram.lines[k]),
           NEW i \in 1..Before(telegram, k), i <= Len(handled), IsFor(i, f)
    PROVE  IsRepeated(k)
<1> DEFINE n == Len(telegram.lines)
           id == telegram.lines[k].id
<1>1. n \in Nat /\ k \in Nat
  BY TelegramIs
<1>2. ObisId[f] = id
  BY TargetsAre
<1>3. PICK j \in 0..(k - 1) : \/ i = Before(telegram, j) + 1
                              \/ Len(telegram.eol) = 2 /\ i = Before(telegram, j) + 2
  BY <1>1, Numbered
<1>4. j \in 0..n /\ (j # 0 => j \in 1..n /\ j \in 1..(k - 1))
  BY <1>1
<1>5. i = Before(telegram, j) + 1
  BY <1>3, <1>4, EolSays
<1>6. CASE j = 0
  <2>1. 0 \in Nat
    OBVIOUS
  <2>2. Before(telegram, 0) = 0
    BY <2>1, BeforeIs
  <2>3. i = 1
    BY <1>5, <1>6, <2>2
  <2>4. f \in Target(identification)
    BY <2>3, FirstSays
  <2>5. ObisId[f] = identification
    BY <2>4, NamedIs
  <2> QED
    BY <1>2, <2>5 DEF IsRepeated
<1>7. CASE j # 0
  <2>1. IsLineAt(i, j)
    BY <1>4, <1>5, <1>7, LineSays
  <2>2. f \in TargetOf(telegram.lines[j])
    BY <2>1 DEF IsLineAt
  <2>3. ObisId[f] = telegram.lines[j].id
    BY <2>2, TargetsAre
  <2> QED
    BY <1>2, <1>4, <1>7, <2>3 DEF IsRepeated
<1> QED
  BY <1>6, <1>7

\* The lines that are found before line k include all that have its id.
LEMMA RepeatedIsEarlier ==
    ASSUME telegram \in Telegrams, input = telegram.text, Segmented(telegram, handled),
           NEW k \in 1..Len(telegram.lines), NEW f \in TargetOf(telegram.lines[k]),
           Before(telegram, k) <= Len(handled), IsRepeated(k), Len(handled) \in Nat
    PROVE  \/ IsFor(1, f) /\ f \in Target(identification)
           \/ \E j \in 1..(k - 1) : /\ IsFor(Before(telegram, j) + 1, f)
                                    /\ f \in TargetOf(telegram.lines[j])
<1> DEFINE n == Len(telegram.lines)
           id == telegram.lines[k].id
<1>1. n \in Nat /\ k \in Nat /\ k > 0 /\ k \in 0..n
  BY TelegramIs
<1>2. /\ TargetOf(telegram.lines[k]) = Target(id)
      /\ id \notin OverflowingId \cup {<<>>}
  BY TargetsAre
<1>3. CASE id = identification
  <2>1. f \in Target(identification)
    BY <1>2, <1>3
  <2>2. 1 <= Len(handled)
    <3>1. 0 \in Nat /\ k - 1 \in Nat /\ (k - 1) + 1 = k
      BY <1>1
    <3>2. /\ Before(telegram, k - 1) \in Nat
          /\ Before(telegram, k) = Before(telegram, k - 1) + Len(telegram.eol)
      BY <3>1, BeforeIs
    <3>3. Len(telegram.eol) \in 1..2
      BY TelegramIs
    <3> QED
      BY <3>2, <3>3
  <2>3. IsFor(1, f)
    BY <2>1, <2>2, FirstSays
  <2> QED
    BY <2>1, <2>3
<1>4. ASSUME NEW j \in 1..(k - 1), telegram.lines[j].id = id
      PROVE  IsFor(Before(telegram, j) + 1, f) /\ f \in TargetOf(telegram.lines[j])
  <2>1. f \in TargetOf(telegram.lines[j])
    BY <1>2, <1>4 DEF TargetOf
  <2>2. j \in 1..n /\ j \in Nat /\ j + 1 \in Nat /\ j + 1 <= k
    BY <1>1
  <2>3. Before(telegram, j) + 1 <= Len(handled)
    <3>1. /\ Before(telegram, j) \in Nat
          /\ Before(telegram, j + 1) = Before(telegram, j) + Len(telegram.eol)
      BY <2>2, BeforeIs
    <3>2. Before(telegram, j + 1) <= Before(telegram, k) /\ Before(telegram, k) \in Nat
      BY <1>1, <2>2, BeforeIs
    <3>3. Len(telegram.eol) \in 1..2
      BY TelegramIs
    <3> DEFINE a == Before(telegram, j)
               b == Before(telegram, j + 1)
               c == Before(telegram, k)
               e == Len(telegram.eol)
               h == Len(handled)
    <3>4. a \in Nat /\ b = a + e /\ e \in 1..2 /\ b <= c /\ c \in Nat /\ c <= h /\ h \in Nat
      BY <3>1, <3>2, <3>3
    <3> HIDE DEF a, b, c, e, h
    <3>5. a + 1 <= h
      BY <3>4
    <3> QED
      BY <3>5 DEF a, h
  <2>4. IsLineAt(Before(telegram, j) + 1, j)
    BY <2>2, <2>3, LineSays
  <2> QED
    BY <2>1, <2>4 DEF IsLineAt
<1> QED
  BY <1>3, <1>4 DEF IsRepeated

\* A line that parse fails on is bad.
LEMMA FailedIsBad ==
    ASSUME IInv, OutcomeInv, telegram \in Telegrams, input = telegram.text,
           Segmented(telegram, handled), NEW k \in 1..Len(telegram.lines),
           Len(handled) = Before(telegram, k), ~ParseLine(Text(telegram.lines[k])).ok
    PROVE  IsBad(k)
<1> DEFINE l == telegram.lines[k]
           id == l.id
           f == FieldOf(id)
           taken == ParsedDataParseLine(id, l.payload)
           parsed == ParseField(f, l.payload)
<1>1. IsLine(l)
  BY DataLineAt
<1>2. id # <<>>
  <2>1. Text(l) = <<>> <=> id = <<>>
    BY <1>1, TextIs
  <2>2. Text(l) = <<>> => ParseLine(Text(l)).ok
    BY DEF ParseLine
  <2> QED
    BY <2>1, <2>2
<1>3. CASE id \in OverflowingId
  BY <1>2, <1>3 DEF IsBad
<1>4. CASE id \notin OverflowingId
  <2>1. /\ Text(l) # <<>> /\ HasObis(Text(l))
        /\ SubSeq(Text(l), 1, IdLength(Text(l))) = id
        /\ Rest(Text(l), IdLength(Text(l))) = l.payload
    <3> HIDE DEF l
    <3> QED
      BY <1>1, <1>2, <1>4, ObisOfText
  <2>2. ~(/\ taken.ok
          /\ IsKnown(id) => taken.rest = <<>>
          /\ unknown_error => IsKnown(id))
    BY <2>1 DEF ParseLine
  <2>3. CASE ~IsKnown(id)
    <3>1. taken.ok
      BY <2>3 DEF ParsedDataParseLine
    <3>2. TargetOf(l) = {}
      BY <2>3, TargetIs DEF TargetOf
    <3> QED
      BY <1>2, <2>2, <2>3, <3>1, <3>2 DEF IsBad
  <2>4. CASE IsKnown(id)
    <3>1. f \in TargetOf(l)
      BY <1>2, <1>4, <2>4, TargetIs DEF TargetOf
    <3>2. CASE f \in present
      <4>1. f \in Field
        BY <2>4, FieldOfIsField
      <4>2. PICK i \in 1..Len(handled) : IsFor(i, f)
        BY <3>2, <4>1 DEF OutcomeInv, PresentHaveLines
      <4>3. i \in 1..Before(telegram, k) /\ i <= Len(handled)
        <5>1. Len(handled) \in Nat
          BY DEF IInv
        <5> QED
          BY <5>1
      <4>4. IsRepeated(k)
        <5> HIDE DEF f
        <5> QED
          BY <3>1, <4>2, <4>3, EarlierIsRepeated
      <4> QED
        BY <1>2, <3>1, <4>4 DEF IsBad
    <3>3. CASE f \notin present
      <4>1. taken.ok = parsed.ok /\ taken.rest = parsed.rest
        BY <2>4, <3>3 DEF ParsedDataParseLine, MayStore, Succeeds
      <4>2. ~parsed.ok \/ parsed.rest # <<>>
        BY <2>2, <2>4, <4>1
      <4>3. /\ parsed.ok <=> f \in RawField \/ Len(Expected(l, f)) \in MinLength..MaxLength
            /\ parsed.ok => (parsed.rest = <<>> <=> f \in RawField \/ Len(l.values) = 1)
        BY <1>1, <1>2, FieldOfLine
      <4>4. Len(l.values) \in Nat /\ Len(l.values) # 0
        <5>1. l.values # <<>> /\ l.values \in Seq(Seq(Char \ {OpenBracket, CloseBracket}))
          BY <1>1, <1>2 DEF IsLine
        <5> HIDE DEF l
        <5> QED
          BY <5>1
      <4>5. f \notin RawField /\ (Len(Expected(l, f)) \notin MinLength..MaxLength \/ Len(l.values) # 1)
        BY <4>2, <4>3
      <4>6. Len(l.values) # 1 => Len(l.values) > 1
        <5> DEFINE n == Len(l.values)
        <5>1. n \in Nat /\ n # 0
          BY <4>4
        <5> HIDE DEF n
        <5>2. n # 1 => n > 1
          BY <5>1
        <5> QED
          BY <5>2 DEF n
      <4> QED
        BY <1>2, <3>1, <4>5, <4>6 DEF IsBad
    <3> QED
      BY <3>2, <3>3
  <2> QED
    BY <2>3, <2>4
<1> QED
  BY <1>3, <1>4

\* A line that parse has accepted is not bad, and its field has its text.
LEMMA AcceptedIsGood ==
    ASSUME IInv, OutcomeInv, telegram \in Telegrams, input = telegram.text,
           Segmented(telegram, handled), NEW k \in 1..Len(telegram.lines),
           NEW i, i = Before(telegram, k) + 1, i <= Len(handled), ~IsRefused(i)
    PROVE  /\ ~IsBad(k)
           /\ \A f \in TargetOf(telegram.lines[k]) : val[f] = Expected(telegram.lines[k], f)
<1> DEFINE l == telegram.lines[k]
<1>1. IsLine(l) /\ IsLineAt(i, k)
  BY DataLineAt, LineSays
<1>2. /\ Len(handled) \in Nat /\ Before(telegram, k) \in Nat /\ k \in Nat
      /\ i \in 1..Len(handled) /\ Before(telegram, k) <= Len(handled)
      /\ \A j \in 1..(k - 1) : Before(telegram, j) + 1 \in 1..Len(handled) /\ Before(telegram, j) + 1 < i
  <2>1. k \in Nat /\ Len(handled) \in Nat
    BY TelegramIs DEF IInv
  <2>2. Before(telegram, k) \in Nat
    BY <2>1, BeforeIs
  <2>3. ASSUME NEW j \in 1..(k - 1)
        PROVE  Before(telegram, j) \in Nat /\ Before(telegram, j) < Before(telegram, k)
    <3>1. j \in Nat /\ j <= k /\ j # k
      BY <2>1
    <3>2. /\ Before(telegram, j) \in Nat
          /\ Before(telegram, j) <= Before(telegram, k)
          /\ Before(telegram, j) = Before(telegram, k) => j = k
      BY <2>1, <3>1, BeforeIs
    <3> QED
      BY <2>2, <3>1, <3>2
  <2> DEFINE B(j) == Before(telegram, j)
  <2> HIDE DEF B
  <2>4. B(k) \in Nat /\ \A j \in 1..(k - 1) : B(j) \in Nat /\ B(j) < B(k)
    BY <2>2, <2>3 DEF B
  <2>5. i = B(k) + 1
    BY DEF B
  <2>6. /\ i \in 1..Len(handled) /\ B(k) <= Len(handled)
        /\ \A j \in 1..(k - 1) : B(j) + 1 \in 1..Len(handled) /\ B(j) + 1 < i
    BY <2>1, <2>4, <2>5
  <2> QED
    BY <2>1, <2>2, <2>6 DEF B
<1>3. IsAccepted(i)
  BY <1>2 DEF OutcomeInv, LinesAreAccepted
\* No earlier line is for the field of this one.
<1>4. ASSUME NEW f \in TargetOf(l) PROVE ~IsRepeated(k)
  <2>1. f \in Field /\ IsFor(i, f)
    BY <1>1, <1>4, TargetsAre DEF IsLineAt
  <2>2. \A j \in 1..Len(handled) : IsFor(j, f) => ~(j < i)
    BY <1>2, <2>1 DEF OutcomeInv, OneLineEach
  <2>3. SUFFICES ASSUME IsRepeated(k) PROVE FALSE
    OBVIOUS
  <2>4. \/ IsFor(1, f)
        \/ \E j \in 1..(k - 1) : IsFor(Before(telegram, j) + 1, f)
    BY <1>2, <1>4, <2>3, RepeatedIsEarlier
  <2>5. 1 \in 1..Len(handled) /\ 1 < i
    <3>1. i # 1
      BY <1>1 DEF IsLineAt
    <3> QED
      BY <1>2, <3>1
  <2> QED
    BY <1>2, <2>2, <2>4, <2>5
<1>5. CASE LineOf(i) = <<>>
  <2>1. l.id = <<>>
    BY <1>1, <1>5, TextIs DEF IsLineAt
  <2> QED
    BY <2>1 DEF IsBad, TargetOf
<1>6. CASE HasId(i) /\ ~IsKnown(IdOf(i)) /\ ~unknown_error
  <2>1. l.id \notin OverflowingId /\ ~IsKnown(l.id)
    BY <1>1, <1>6 DEF IsLineAt
  <2>2. TargetOf(l) = {}
    BY <2>1, TargetIs DEF TargetOf
  <2> QED
    BY <1>6, <2>1, <2>2 DEF IsBad
<1>7. ASSUME NEW f \in Field, StoredFrom(i, f), ParseField(f, TextOf(i)).rest = <<>>
      PROVE  /\ ~IsBad(k)
             /\ \A g \in TargetOf(l) : val[g] = Expected(l, g)
  <2>1. /\ f \in TargetOf(l) /\ ParseField(f, l.payload).ok
        /\ val[f] = ParseField(f, l.payload).out /\ ParseField(f, l.payload).rest = <<>>
    BY <1>1, <1>7 DEF StoredFrom, IsLineAt
  <2>2. TargetOf(l) = {f} /\ l.id \notin OverflowingId \cup {<<>>}
    BY <2>1, TargetsAre
  <2>3. /\ f \in RawField \/ Len(Expected(l, f)) \in MinLength..MaxLength
        /\ val[f] = Expected(l, f)
        /\ f \in RawField \/ Len(l.values) = 1
    BY <1>1, <2>1, <2>2, FieldOfLine
  <2>4. ~IsRepeated(k)
    BY <1>4, <2>1
  <2>5. ~IsBad(k)
    <3>1. l.id \notin OverflowingId /\ TargetOf(l) # {}
      BY <2>2
    <3>2. ASSUME NEW g \in TargetOf(l) \ RawField
          PROVE  Len(Expected(l, g)) \in MinLength..MaxLength /\ ~(Len(l.values) > 1)
      <4>1. g = f /\ g \notin RawField
        BY <2>2, <3>2
      <4>2. Len(l.values) = 1
        BY <2>3, <4>1
      <4>3. ~(Len(l.values) > 1)
        BY <4>2
      <4> QED
        BY <2>3, <4>1, <4>3
    <3> HIDE DEF l
    <3> QED
      BY <2>4, <3>1, <3>2, Zenon DEF IsBad, l
  <2> QED
    BY <2>2, <2>3, <2>5
<1>8. i # 1
  BY <1>1 DEF IsLineAt
<1> QED
  BY <1>3, <1>5, <1>6, <1>7, <1>8 DEF IsAccepted

\* The identification is stored first.
LEMMA NamedIsStored ==
    ASSUME OutcomeInv, telegram \in Telegrams, input = telegram.text,
           Segmented(telegram, handled), 1 \in 1..Len(handled), ~IsRefused(1),
           NEW f \in Target(identification)
    PROVE  val[f] = FirstLine(telegram)
<1>1. IsAccepted(1)
  BY DEF OutcomeInv, LinesAreAccepted
<1>2. /\ IdOf(1) = identification /\ TextOf(1) = FirstLine(telegram)
      /\ \A g : IsFor(1, g) <=> g \in Target(identification)
  BY FirstSays
<1>3. IsKnown(identification) /\ Target(identification) = {f} /\ f \in RawField
  BY NamedIs
<1>4. StoredFrom(1, f)
  BY <1>1, <1>2, <1>3 DEF IsAccepted, StoredFrom
<1> QED
  BY <1>2, <1>3, <1>4 DEF StoredFrom, ParseField

\* How far parse has come when it returns: to the last line, or to a bad one.
EndsAt(M) ==
    /\ M \in 0..Len(telegram.lines)
    /\ IF result THEN M = Len(telegram.lines) ELSE M # 0 /\ IsBad(M)
    /\ 1 \in 1..Len(handled) /\ Len(handled) <= Before(telegram, M + 1)
    /\ ~IsRefused(1)
    /\ \A k \in 1..M :
        /\ Before(telegram, k) + 1 \in 1..Len(handled)
        /\ IsRefused(Before(telegram, k) + 1) => k = M /\ ~result

LEMMA ReturnsAtEnd ==
    ASSUME IInv, LayoutInv, loop = "returned"
    PROVE  \E M \in 0..Len(telegram.lines) : EndsAt(M)
<1> DEFINE n == Len(telegram.lines)
           e == Len(telegram.eol)
           h == Len(handled)
           B(k) == Before(telegram, k)
<1>1. telegram \in Telegrams /\ n \in Nat /\ e \in 1..2 /\ h \in Nat
  BY TelegramIs DEF LayoutInv, IInv
<1>2. \A k \in Nat : B(k) \in Nat /\ B(k + 1) = B(k) + e
  BY <1>1, BeforeIs
<1>3. \A j, k \in Nat : j <= k <=> B(j) <= B(k)
  BY <1>1, BeforeIs
<1>4. B(0) = 0 /\ 0 \in Nat /\ 1 \in Nat /\ 0 + 1 = 1
  <2>1. 0 \in Nat
    OBVIOUS
  <2> QED
    BY <1>1, <2>1, BeforeIs
<1>5. B(1) = e
  <2>1. B(0 + 1) = B(0) + e
    BY <1>2, <1>4
  <2> QED
    BY <1>1, <1>4, <2>1
<1> HIDE DEF B, n, e, h
<1>6. CASE result
  <2>1. h = B(n + 1) /\ n + 1 \in Nat
    BY <1>1, <1>6 DEF LayoutInv, Ended, B, n, h
  <2>2. h = B(n) + e /\ B(n) \in Nat
    BY <1>1, <1>2, <2>1
  <2>3. 1 \in 1..h
    BY <1>1, <2>2
  <2>4. ASSUME NEW k \in 1..n PROVE B(k) + 1 \in 1..h
    <3>1. k \in Nat /\ k <= n
      BY <1>1
    <3>2. B(k) <= B(n) /\ B(k) \in Nat
      BY <1>1, <1>2, <1>3, <3>1
    <3> QED
      BY <1>1, <2>2, <3>2
  <2>5. \A i : ~IsRefused(i)
    BY <1>6 DEF IsRefused, h
  <2>6. n \in 0..n /\ h <= B(n + 1)
    BY <1>1, <2>1
  <2>7. EndsAt(n)
    BY <1>6, <2>3, <2>4, <2>5, <2>6 DEF EndsAt, B, n, h
  <2> QED
    BY <2>6, <2>7 DEF n
<1>7. CASE ~result
  <2>1. PICK M \in 1..n : h = B(M) + 1 /\ IsBad(M)
    BY <1>7 DEF LayoutInv, Ended, B, n, h
  <2>2. M \in Nat /\ M \in 0..n /\ M # 0 /\ 1 <= M
    BY <1>1
  <2>3. B(M) \in Nat /\ B(M + 1) = B(M) + e /\ B(1) <= B(M)
    BY <1>2, <1>3, <1>4, <2>2
  <2>4. h <= B(M + 1) /\ 1 \in 1..h /\ h # 1
    BY <1>1, <1>5, <2>1, <2>3
  <2>5. ASSUME NEW k \in 1..M PROVE B(k) + 1 \in 1..h /\ (B(k) + 1 = h => k = M)
    <3>1. k \in Nat /\ k <= M
      BY <2>2
    <3>2. B(k) <= B(M) /\ B(k) \in Nat /\ (M <= k <=> B(M) <= B(k))
      BY <1>2, <1>3, <2>2, <3>1
    <3> QED
      BY <1>1, <2>1, <2>2, <2>3, <3>1, <3>2
  <2>6. \A i : IsRefused(i) <=> i = h
    BY <1>7 DEF IsRefused, h
  <2>7. ~IsRefused(1)
    BY <2>4, <2>6
  <2>8. ASSUME NEW k \in 1..M PROVE IsRefused(B(k) + 1) => k = M /\ ~result
    BY <1>7, <2>5, <2>6
  <2>9. EndsAt(M)
    BY <1>7, <2>1, <2>2, <2>4, <2>5, <2>7, <2>8 DEF EndsAt, B, n, h
  <2> QED
    BY <2>2, <2>9 DEF n
<1> QED
  BY <1>6, <1>7

\* What parse has found of the lines, and of which fields.
LEMMA LinesAtEnd ==
    ASSUME IInv, OutcomeInv, LayoutInv, loop = "returned", NEW M, EndsAt(M)
    PROVE  /\ M \in Nat /\ DOMAIN telegram.lines = 1..Len(telegram.lines)
           /\ \A k \in 1..M : k # M \/ result => ~IsBad(k)
           /\ \A k \in 1..M : ~IsBad(k) => \A f \in TargetOf(telegram.lines[k]) :
                val[f] = Expected(telegram.lines[k], f)
           /\ \A f \in Target(identification) : val[f] = FirstLine(telegram)
           /\ Reached = 1..M
           /\ result <=> \A k \in DOMAIN telegram.lines : ~IsBad(k)
<1> DEFINE n == Len(telegram.lines)
           B(k) == Before(telegram, k)
<1>1. /\ telegram \in Telegrams /\ input = telegram.text /\ Segmented(telegram, handled)
      /\ n \in Nat /\ M \in 0..n /\ M \in Nat /\ DOMAIN telegram.lines = 1..n
      /\ \A k \in 1..M : k \in 1..n
  BY TelegramIs DEF LayoutInv, EndsAt
<1>2. /\ IF result THEN M = n ELSE M # 0 /\ IsBad(M)
      /\ \A k \in 1..M : /\ B(k) + 1 \in 1..Len(handled)
                         /\ IsRefused(B(k) + 1) => k = M /\ ~result
      /\ ~IsRefused(1) /\ 1 \in 1..Len(handled)
  BY DEF EndsAt
<1>3. ASSUME NEW k \in 1..M, ~IsRefused(B(k) + 1)
      PROVE  /\ ~IsBad(k)
             /\ \A f \in TargetOf(telegram.lines[k]) : val[f] = Expected(telegram.lines[k], f)
  <2>1. B(k) + 1 <= Len(handled) /\ k \in 1..n
    BY <1>1, <1>2
  <2> QED
    BY <1>1, <1>3, <2>1, AcceptedIsGood
<1>4. \A k \in 1..M : k # M \/ result => ~IsBad(k)
  BY <1>2, <1>3
<1>5. ASSUME NEW k \in 1..M, ~IsBad(k)
      PROVE  \A f \in TargetOf(telegram.lines[k]) : val[f] = Expected(telegram.lines[k], f)
  BY <1>2, <1>3, <1>5
<1>6. \A f \in Target(identification) : val[f] = FirstLine(telegram)
  BY <1>1, <1>2, NamedIsStored
<1>7. Reached = 1..M
  <2>1. ASSUME NEW k \in 1..n, k <= M PROVE \A j \in 1..(k - 1) : ~IsBad(j)
    <3>1. \A j \in 1..(k - 1) : j \in 1..M /\ j # M
      BY <1>1, <2>1
    <3> QED
      BY <1>4, <3>1
  <2>2. ASSUME NEW k \in 1..n, ~(k <= M) PROVE ~\A j \in 1..(k - 1) : ~IsBad(j)
    <3>1. ~result
      BY <1>1, <1>2, <2>2
    <3>2. IsBad(M) /\ M \in 1..(k - 1)
      BY <1>1, <1>2, <2>2, <3>1
    <3> QED
      BY <3>2
  <2>3. Reached = {k \in 1..n : \A j \in 1..(k - 1) : ~IsBad(j)}
    BY <1>1 DEF Reached
  <2>4. \A k : k \in 1..M <=> k \in 1..n /\ k <= M
    BY <1>1
  <2> DEFINE Good(k) == \A j \in 1..(k - 1) : ~IsBad(j)
  <2>5. \A k \in 1..n : Good(k) <=> k <= M
    BY <2>1, <2>2
  <2> HIDE DEF Good
  <2>6. Reached = {k \in 1..n : Good(k)}
    BY <2>3 DEF Good
  <2> QED
    BY <2>4, <2>5, <2>6
<1>8. result <=> \A k \in 1..n : ~IsBad(k)
  <2>1. CASE result
    BY <1>2, <1>4, <2>1
  <2>2. CASE ~result
    <3>1. IsBad(M) /\ M \in 1..n
      BY <1>1, <1>2, <2>2
    <3> QED
      BY <2>2, <3>1
  <2> QED
    BY <2>1, <2>2
<1> QED
  BY <1>1, <1>4, <1>5, <1>6, <1>7, <1>8

\* Each line found is the identification, a line of the telegram or between two.
LEMMA ForAtEnd ==
    ASSUME IInv, LayoutInv, NEW M, EndsAt(M), NEW i \in 1..Len(handled), NEW f, IsFor(i, f)
    PROVE  \/ i = 1 /\ f \in Target(identification)
           \/ \E k \in 1..M : IsLineAt(i, k) /\ f \in TargetOf(telegram.lines[k])
<1> DEFINE n == Len(telegram.lines)
<1>1. /\ telegram \in Telegrams /\ input = telegram.text /\ Segmented(telegram, handled)
      /\ n \in Nat /\ M \in 0..n /\ M + 1 \in Nat /\ (M + 1) - 1 = M
      /\ Len(handled) \in Nat /\ Len(handled) <= Before(telegram, M + 1)
  BY TelegramIs DEF LayoutInv, EndsAt, IInv
<1>2. i \in 1..Before(telegram, M + 1) /\ i <= Len(handled)
  <2>1. Before(telegram, M + 1) \in Nat
    BY <1>1, BeforeIs
  <2> QED
    BY <1>1, <2>1
<1>3. PICK k \in 0..M : \/ i = Before(telegram, k) + 1
                        \/ Len(telegram.eol) = 2 /\ i = Before(telegram, k) + 2
  BY <1>1, <1>2, Numbered
<1>4. k \in 0..n /\ (k # 0 => k \in 1..n /\ k \in 1..M)
  BY <1>1
<1>5. i = Before(telegram, k) + 1
  BY <1>1, <1>2, <1>3, <1>4, EolSays
<1>6. CASE k = 0
  <2>1. 0 \in Nat
    OBVIOUS
  <2>2. Before(telegram, 0) = 0
    BY <1>1, <2>1, BeforeIs
  <2>3. i = 1
    BY <1>5, <1>6, <2>2
  <2>4. f \in Target(identification)
    BY <1>1, <1>2, <2>3, FirstSays
  <2> QED
    BY <2>3, <2>4
<1>7. CASE k # 0
  <2>1. IsLineAt(i, k)
    BY <1>1, <1>2, <1>4, <1>5, <1>7, LineSays
  <2> QED
    BY <1>4, <1>7, <2>1 DEF IsLineAt
<1> QED
  BY <1>6, <1>7

LEMMA OutcomeIsOfTelegram ==
    ASSUME IInv, OutcomeInv, LayoutInv
    PROVE  StoresLinesBeforeFirstBad
<1> SUFFICES ASSUME loop = "returned" PROVE StoresLinesBeforeFirstBad
  BY DEF StoresLinesBeforeFirstBad
<1> DEFINE lines == telegram.lines
           named == Target(identification)
<1>1. PICK M \in 0..Len(lines) : EndsAt(M)
  BY ReturnsAtEnd
<1>2. /\ M \in Nat /\ DOMAIN lines = 1..Len(lines)
      /\ \A k \in 1..M : k # M \/ result => ~IsBad(k)
      /\ \A f \in named : val[f] = FirstLine(telegram)
      /\ Reached = 1..M
      /\ result <=> \A k \in DOMAIN lines : ~IsBad(k)
  BY <1>1, LinesAtEnd
<1>3. \A k \in 1..M : ~IsBad(k) => \A f \in TargetOf(lines[k]) : val[f] = Expected(lines[k], f)
  BY <1>1, LinesAtEnd
<1>4. /\ telegram \in Telegrams /\ input = telegram.text /\ Segmented(telegram, handled)
      /\ Len(handled) \in Nat /\ 1 \in 1..Len(handled) /\ 1 <= Len(handled)
      /\ \A k \in 1..M : k \in 1..Len(lines) /\ Before(telegram, k) + 1 \in 1..Len(handled)
      /\ \A i \in 1..Len(handled) : i <= Len(handled)
  <2>1. Len(lines) \in Nat /\ M \in 0..Len(lines) /\ Len(handled) \in Nat
    BY <1>1, TelegramIs DEF LayoutInv, IInv
  <2>2. \A k \in 1..M : k \in 1..Len(lines)
    BY <2>1
  <2>3. \A i \in 1..Len(handled) : i <= Len(handled)
    BY <2>1
  <2> QED
    BY <1>1, <2>1, <2>2, <2>3 DEF LayoutInv, EndsAt
<1>5. ASSUME NEW f
      PROVE  f \in present <=> f \in named \cup UNION {TargetOf(lines[k]) : k \in Reached}
  <2>1. ASSUME f \in present
        PROVE  f \in named \/ \E k \in 1..M : f \in TargetOf(lines[k])
    <3>1. f \in Field
      BY <2>1 DEF IInv, ValuesTyped
    <3>2. PICK i \in 1..Len(handled) : IsFor(i, f)
      BY <2>1, <3>1 DEF OutcomeInv, PresentHaveLines
    <3> QED
      BY <1>1, <3>2, ForAtEnd
  <2>2. ASSUME f \in named PROVE f \in present
    <3>1. f \in Field
      BY <2>2, NamedIs
    <3>2. IsFor(1, f)
      BY <1>4, <2>2, FirstSays
    <3> QED
      BY <1>4, <3>1, <3>2 DEF OutcomeInv, PresentHaveLines
  <2>3. ASSUME NEW k \in 1..M, f \in TargetOf(lines[k]) PROVE f \in present
    <3>1. f \in Field
      BY <2>3, TargetsAre
    <3>2. IsFor(Before(telegram, k) + 1, f)
      BY <1>4, <2>3, LineSays DEF IsLineAt
    <3> QED
      BY <1>4, <3>1, <3>2 DEF OutcomeInv, PresentHaveLines
  <2> QED
    BY <1>2, <2>1, <2>2, <2>3
<1>6. present = named \cup UNION {TargetOf(lines[k]) : k \in Reached}
  BY <1>5
\* A value without a line of its own: the line is bad, but what it has of the field
\* was stored.
<1>7. ASSUME NEW f \in Field \ named, val[f] # nullopt
      PROVE  \E k \in Reached : /\ f \in TargetOf(lines[k])
                                /\ val[f] = Expected(lines[k], f)
                                /\ IsBad(k) => Len(lines[k].values) > 1
  <2>1. PICK i \in 1..Len(handled) : StoredFrom(i, f)
    BY <1>7 DEF OutcomeInv, ValuesHaveLines
  <2>2. PICK k \in 1..M : IsLineAt(i, k) /\ f \in TargetOf(lines[k])
    BY <1>1, <1>7, <2>1, ForAtEnd DEF StoredFrom
  <2>3. ParseField(f, lines[k].payload).ok /\ val[f] = ParseField(f, lines[k].payload).out
    BY <2>1, <2>2 DEF StoredFrom, IsLineAt
  <2>4. /\ IsLine(lines[k]) /\ lines[k].id \notin OverflowingId \cup {<<>>}
        /\ TargetOf(lines[k]) = {f}
    BY <1>4, <2>2, DataLineAt, TargetsAre
  <2>5. /\ f \in RawField \/ Len(Expected(lines[k], f)) \in MinLength..MaxLength
        /\ val[f] = Expected(lines[k], f)
    BY <2>3, <2>4, FieldOfLine
  <2>6. CASE ~IsBad(k) \/ Len(lines[k].values) > 1
    BY <1>2, <2>2, <2>5, <2>6
  <2>7. CASE IsBad(k) /\ ~(Len(lines[k].values) > 1)
    <3>1. IsRepeated(k)
      BY <2>4, <2>5, <2>7, Zenon DEF IsBad
    <3>2. Before(telegram, k) <= Len(handled)
      <4>1. k \in Nat
        BY <1>2
      <4>2. Before(telegram, k) \in Nat
        BY <1>4, <4>1, BeforeIs
      <4>3. Before(telegram, k) + 1 <= Len(handled)
        BY <1>4
      <4> QED
        BY <1>4, <4>2, <4>3
    <3>3. PICK j \in 1..(k - 1) : f \in TargetOf(lines[j])
      BY <1>4, <1>7, <2>2, <3>1, <3>2, RepeatedIsEarlier
    <3>4. j \in 1..M /\ j # M
      BY <1>2
    <3>5. ~IsBad(j)
      BY <1>2, <3>4
    <3> QED
      BY <1>2, <1>3, <3>3, <3>4, <3>5
  <2> QED
    BY <2>6, <2>7
<1> HIDE DEF lines, named
<1> QED
  BY <1>2, <1>3, <1>6, <1>7 DEF StoresLinesBeforeFirstBad, lines, named

-------------------------------------------------------------------------------
(* Every step leaves parse in a known place of the telegram *)

\* The end of line k, the identification being line 0.
LEMMA StopAt ==
    ASSUME NEW t \in Telegrams, NEW k \in 0..Len(t.lines)
    PROVE  /\ Stop(t, k) \in Nat /\ Stop(t, k) + Len(t.eol) = Begin(t, k + 1)
           /\ \A i \in 1..Len(t.eol) : t.text[Stop(t, k) + i] \in LineBreak
           /\ Begin(t, k + 1) \in Nat /\ Begin(t, k + 1) <= Len(t.text)
           /\ k + 1 \in 1..(Len(t.lines) + 1) /\ k \in Nat
<1>1. Len(t.lines) \in Nat
  BY TelegramIs
<1>2. k + 1 \in 1..(Len(t.lines) + 1) /\ k \in Nat /\ k + 1 \in 0..(Len(t.lines) + 1)
  BY <1>1
<1>3. Begin(t, k + 1) \in 0..Len(t.text) /\ Len(t.text) \in Nat
  BY <1>2, TelegramIs
<1>4. Begin(t, k + 1) \in Nat /\ Begin(t, k + 1) <= Len(t.text)
  <2> DEFINE b == Begin(t, k + 1)
  <2>1. b \in 0..Len(t.text) /\ Len(t.text) \in Nat
    BY <1>3
  <2> HIDE DEF b
  <2>2. b \in Nat /\ b <= Len(t.text)
    BY <2>1
  <2> QED
    BY <2>2 DEF b
<1>5. CASE k = 0
  <2>1. /\ Stop(t, 0) \in Nat /\ Stop(t, 0) + Len(t.eol) = Begin(t, 1)
        /\ \A i \in 1..Len(t.eol) : t.text[Stop(t, 0) + i] \in LineBreak
    BY FirstLineAt
  <2>2. k + 1 = 1
    BY <1>5
  <2> QED
    BY <1>2, <1>4, <1>5, <2>1, <2>2
<1>6. CASE k # 0
  <2>1. k \in 1..Len(t.lines)
    BY <1>1, <1>6
  <2>2. /\ Stop(t, k) = Begin(t, k) + Len(Text(t.lines[k]))
        /\ Len(Text(t.lines[k])) \in Nat /\ Begin(t, k) \in Nat
        /\ Stop(t, k) + Len(t.eol) = Begin(t, k + 1)
        /\ \A i \in 1..Len(t.eol) : t.text[Stop(t, k) + i] \in LineBreak
    BY <2>1, DataLineAt
  <2>3. Stop(t, k) \in Nat
    BY <2>2
  <2> QED
    BY <1>2, <1>4, <2>2, <2>3
<1> QED
  BY <1>5, <1>6

\* At a line end parse sees no bracket among the next two characters.
LEMMA EndsLine ==
    ASSUME NEW t \in Telegrams, NEW k \in 0..Len(t.lines), NEW p,
           p = Stop(t, k) \/ (Len(t.eol) = 2 /\ p = Stop(t, k) + 1)
    PROVE  /\ p \in Nat /\ p < Len(t.text)
           /\ t.text[p + 1] \in LineBreak
           /\ ~OpensNear(t.text, p)
<1> DEFINE e == Len(t.eol)
           b == Begin(t, k + 1)
           stop == Stop(t, k)
           m == Len(t.text)
<1>1. /\ stop \in Nat /\ stop + e = b /\ b <= m /\ m \in Nat /\ e \in 1..2
      /\ \A i \in 1..e : t.text[stop + i] \in LineBreak
  BY StopAt, TelegramIs
<1>2. k + 1 \in 1..(Len(t.lines) + 1)
  BY StopAt
<1>3. b < m => t.text[b + 1] # OpenBracket
  BY <1>2, NoBracketFirst
<1>4. b + 1 < m => t.text[b + 2] # OpenBracket
  BY <1>2, NoBracketSecond
<1>5. p = stop \/ (e = 2 /\ p = stop + 1)
  OBVIOUS
<1> HIDE DEF e, b, stop, m
<1>6. p \in Nat /\ p < m
  BY <1>1, <1>5
<1>7. t.text[p + 1] \in LineBreak
  <2>1. p + 1 - stop \in 1..e /\ stop + (p + 1 - stop) = p + 1
    BY <1>1, <1>5
  <2> QED
    BY <1>1, <2>1
<1>8. \/ p + 1 = b
      \/ e = 2 /\ p = stop /\ p + 2 = b
  BY <1>1, <1>5
<1>9. CASE p + 1 = b
  <2>1. p + 2 = b + 1 /\ p + 3 = b + 2 /\ (m - p > 2 => b < m /\ b + 1 < m)
    BY <1>1, <1>6, <1>9
  <2> QED
    BY <1>3, <1>4, <1>6, <1>7, <2>1 DEF OpensNear, m
<1>10. CASE e = 2 /\ p = stop /\ p + 2 = b
  <2>1. p + 3 = b + 1 /\ (m - p > 2 => b < m) /\ p + 2 = stop + 2 /\ 2 \in 1..e
    BY <1>1, <1>6, <1>10
  <2>2. t.text[p + 2] \in LineBreak
    BY <1>1, <2>1
  <2>3. OpenBracket \notin LineBreak
    BY CharAssumption
  <2> QED
    BY <1>3, <1>6, <1>7, <2>1, <2>2, <2>3 DEF OpensNear, m
<1> QED
  BY <1>8, <1>9, <1>10

LEMMA InitLayout == TelegramInit => LayoutInv
<1> SUFFICES ASSUME TelegramInit PROVE LayoutInv
  OBVIOUS
<1>1. /\ telegram \in Telegrams /\ input = telegram.text
      /\ handled = <<>> /\ line_start = 0 /\ pos = 0 /\ open_bracket = FALSE /\ loop = "id_line"
  BY DEF TelegramInit, Init
<1>2. Stop(telegram, 0) \in Nat
  BY <1>1, FirstLineAt
<1>3. pos \in 0..Stop(telegram, 0)
  BY <1>1, <1>2
<1>4. Segmented(telegram, handled)
  <2>1. ASSUME NEW k \in 0..Len(telegram.lines)
        PROVE  ~(Before(telegram, k) + 1 <= Len(handled)) /\ ~(Before(telegram, k) + 2 <= Len(handled))
    <3>1. k \in Nat
      BY <1>1, TelegramIs
    <3>2. Before(telegram, k) \in Nat /\ Len(handled) = 0
      BY <1>1, <3>1, BeforeIs
    <3> QED
      BY <3>2
  <2> QED
    BY <2>1 DEF Segmented
<1> QED
  BY <1>1, <1>3, <1>4 DEF LayoutInv

\* A line that begins.
LEMMA LineBegins ==
    ASSUME telegram \in Telegrams, UNCHANGED telegram,
           NEW k \in 1..(Len(telegram.lines) + 1),
           Len(handled') = Before(telegram, k), open_bracket' = FALSE,
           line_start' = Begin(telegram, k), pos' = Begin(telegram, k)
    PROVE  InLineOf(k)'
<1>1. CASE k = Len(telegram.lines) + 1
  <2>1. pos' = Len(telegram.text)
    BY <1>1, TelegramIs
  <2> QED
    BY <1>1, <2>1 DEF InLineOf
<1>2. CASE k # Len(telegram.lines) + 1
  <2>1. k \in 1..Len(telegram.lines)
    <3>1. Len(telegram.lines) \in Nat
      BY TelegramIs
    <3> QED
      BY <1>2, <3>1
  <2>2. IsAt(telegram.lines[k], Begin(telegram, k), Begin(telegram, k), FALSE)
    BY <2>1, LineIsIn, AtStart
  <2> QED
    BY <1>2, <2>2 DEF InLineOf
<1> QED
  BY <1>1, <1>2

\* The end of a line: the next one begins, or there is a character of the line end left,
\* or parse returns because of it.
LEMMA LineEnds ==
    ASSUME IInv, LayoutInv, loop # "returned", UNCHANGED telegram, ~open_bracket,
           NEW res, AfterLine(res), NEW k \in 0..Len(telegram.lines),
           \/ /\ Len(handled) = Before(telegram, k)
              /\ line_start = Begin(telegram, k) /\ pos = Stop(telegram, k)
           \/ /\ Len(telegram.eol) = 2 /\ Len(handled) = Before(telegram, k) + 1
              /\ pos = Stop(telegram, k) + 1 /\ line_start = pos,
           res.ok \/ (k # 0 /\ Len(handled) = Before(telegram, k) /\ IsBad(k))
    PROVE  LayoutInv'
<1> DEFINE t == telegram
           stop == Stop(t, k)
           e == Len(t.eol)
           b == Before(t, k)
           h == Len(handled)
<1>1. /\ t \in Telegrams /\ input = t.text /\ Segmented(t, handled)
      /\ handled \in Seq(Int \X Int) /\ h \in Nat /\ e \in 1..2
  BY TelegramIs DEF LayoutInv, IInv
<1>2. /\ UNCHANGED <<arguments, open_bracket>>
      /\ handled' = Append(handled, <<line_start, pos>>)
  BY DEF AfterLine, Store
<1>3. /\ input' = t.text /\ unknown_error' = unknown_error /\ open_bracket' = FALSE
  BY <1>1, <1>2, InLine DEF arguments
<1>4. /\ stop \in Nat /\ stop + e = Begin(t, k + 1)
      /\ k + 1 \in 1..(Len(t.lines) + 1) /\ k \in Nat
  BY <1>1, StopAt
<1>5. b \in Nat /\ Before(t, k + 1) = b + e
  BY <1>1, <1>4, BeforeIs
<1>6. Len(handled') = h + 1
  BY <1>1, <1>2
<1>7. <<line_start, pos>> \in Int \X Int
  BY InLine
<1>8. Segmented(t, handled')
  <2> HIDE DEF t
  <2>1. \/ Len(handled) = Before(t, k) /\ <<line_start, pos>> = <<Begin(t, k), Stop(t, k)>>
        \/ /\ Len(t.eol) = 2 /\ Len(handled) = Before(t, k) + 1
           /\ <<line_start, pos>> = <<Stop(t, k) + 1, Stop(t, k) + 1>>
    BY DEF t
  <2>2. k \in 0..Len(t.lines)
    BY DEF t
  <2>3. Segmented(t, Append(handled, <<line_start, pos>>))
    BY <1>1, <1>7, <2>1, <2>2, SegmentedOne
  <2> QED
    BY <1>2, <2>3
<1>9. Segmented(telegram, handled)'
  BY <1>8
<1>10. CASE ~res.ok
  <2>1. /\ loop' = "returned" /\ result' = FALSE
    BY <1>10 DEF AfterLine, Return
  <2>2. IsBad(k)'
    BY <1>3, <1>10 DEF IsBad, IsRepeated
  <2>3. k \in 1..Len(t.lines)
    BY <1>4, <1>10
  <2>4. Len(handled') = b + 1
    BY <1>6, <1>10
  <2>5. Ended'
    BY <2>1, <2>2, <2>3, <2>4 DEF Ended
  <2> QED
    BY <1>1, <1>3, <1>9, <2>1, <2>5 DEF LayoutInv
<1>11. CASE res.ok
  <2>1. loop' = "data_lines" /\ pos' = pos + 1 /\ line_start' = pos + 1
    BY <1>11 DEF AfterLine, NextLine
  <2>2. CASE h = b /\ e = 2 /\ pos = stop
    <3>1. pos' = stop + 1 /\ Len(handled') = b + 1
      BY <1>6, <2>1, <2>2
    <3>2. InEolOf(k)'
      BY <1>3, <2>1, <2>2, <3>1 DEF InEolOf
    <3> QED
      BY <1>1, <1>3, <1>9, <2>1, <3>2 DEF LayoutInv
  <2>3. CASE h = b /\ e = 1 /\ pos = stop
    <3>1. pos' = Begin(t, k + 1) /\ line_start' = Begin(t, k + 1) /\ Len(handled') = Before(t, k + 1)
      BY <1>4, <1>5, <1>6, <2>1, <2>3
    <3>2. InLineOf(k + 1)'
      BY <1>1, <1>3, <1>4, <3>1, LineBegins
    <3> QED
      BY <1>1, <1>3, <1>4, <1>9, <2>1, <3>2 DEF LayoutInv
  <2>4. CASE h = b + 1 /\ e = 2 /\ pos = stop + 1
    <3>1. pos' = Begin(t, k + 1) /\ line_start' = Begin(t, k + 1) /\ Len(handled') = Before(t, k + 1)
      BY <1>4, <1>5, <1>6, <2>1, <2>4
    <3>2. InLineOf(k + 1)'
      BY <1>1, <1>3, <1>4, <3>1, LineBegins
    <3> QED
      BY <1>1, <1>3, <1>4, <1>9, <2>1, <3>2 DEF LayoutInv
  <2>5. e = 1 \/ e = 2
    BY <1>1
  <2> QED
    BY <2>2, <2>3, <2>4, <2>5
<1> QED
  BY <1>10, <1>11

\* The line of the identification.
LEMMA IdLineLayout ==
    ASSUME IInv, OutcomeInv, LayoutInv, UNCHANGED telegram, loop = "id_line", Next
    PROVE  LayoutInv'
<1> DEFINE stop == Stop(telegram, 0)
<1>1. /\ telegram \in Telegrams /\ input = telegram.text /\ Segmented(telegram, handled)
      /\ handled = <<>> /\ line_start = 0 /\ pos \in 0..stop /\ ~open_bracket
      /\ 0 \in 0..Len(telegram.lines) /\ 0 \in Nat
  BY TelegramIs DEF LayoutInv
<1>2. stop \in Nat /\ stop < Size /\ At(stop) \in LineBreak
  BY <1>1, EndsLine DEF Size, At
<1>3. \A i \in 1..stop : input[i] \notin LineBreak
  BY <1>1, TelegramIs
<1>4. pos < Size /\ pos \in Nat
  BY <1>1, <1>2, InLine
<1>5. IdLineByte \/ IdLineEnd
  <2>1. ~IdLineMissing
    BY <1>4, InLine DEF IdLineMissing
  <2> QED
    BY <2>1 DEF Next, OpenByte, CloseByte, BracketByte, BreakInLine, LineEnd, OtherByte, Finish,
                InDataLine
<1>6. CASE IdLineByte
  <2>1. /\ pos' = pos + 1 /\ loop' = loop /\ UNCHANGED arguments /\ handled' = handled
        /\ line_start' = line_start /\ open_bracket' = open_bracket
    BY <1>6 DEF IdLineByte, ToNextChar, Continue, StoreNothing
  <2>2. pos # stop
    BY <1>2, <1>6 DEF IdLineByte
  <2>3. pos' \in 0..stop
    BY <1>1, <1>2, <2>1, <2>2
  <2>4. input' = input /\ Segmented(telegram, handled)'
    BY <1>1, <2>1 DEF arguments
  <2> QED
    BY <1>1, <2>1, <2>3, <2>4 DEF LayoutInv
<1>7. CASE IdLineEnd
  <2> DEFINE text == substr(line_start, pos)
             res == ParsedDataParseLine(identification, text)
             f == FieldOf(identification)
  <2>1. AfterLine(res) /\ At(pos) \in LineBreak
    BY <1>7 DEF IdLineEnd
  <2>2. pos = stop
    <3>1. SUFFICES ASSUME pos # stop PROVE FALSE
      OBVIOUS
    <3>2. pos + 1 \in 1..stop
      BY <1>1, <1>2, <3>1
    <3> QED
      BY <1>3, <2>1, <3>2 DEF At
  <2>3. res.ok
    <3>1. CASE ~IsKnown(identification)
      BY <3>1 DEF ParsedDataParseLine
    <3>2. CASE IsKnown(identification)
      <4>1. f \in Target(identification)
        BY <3>2, TargetIs
      <4>2. f \in Field /\ f \in RawField
        BY <4>1, NamedIs
      <4>3. f \notin present
        <5>1. 1..Len(handled) = {}
          BY <1>1
        <5> QED
          BY <4>2, <5>1 DEF OutcomeInv, PresentHaveLines
      <4>4. ParseField(f, text).ok
        BY <4>2 DEF ParseField
      <4> QED
        BY <3>2, <4>3, <4>4 DEF ParsedDataParseLine, MayStore, Succeeds
    <3> QED
      BY <3>1, <3>2
  <2>4. Before(telegram, 0) = 0 /\ Begin(telegram, 0) = 0
    BY <1>1, BeforeIs DEF Begin
  <2>5. Len(handled) = Before(telegram, 0) /\ line_start = Begin(telegram, 0)
    BY <1>1, <2>4
  <2> HIDE DEF res
  <2> QED
    BY <1>1, <2>1, <2>2, <2>3, <2>5, LineEnds
<1> QED
  BY <1>5, <1>6, <1>7

\* What parse may do where it sees the end of a line.
LEMMA OnlyLineEnd ==
    ASSUME IInv, loop = "data_lines", Next, ~open_bracket,
           pos < Size, At(pos) \in LineBreak, ~OpensNear(input, pos)
    PROVE  LineEnd
<1>1. ~Continuation
  <2>1. pos \in Nat /\ Size = Len(input)
    BY InLine DEF Size
  <2>2. At(pos + 1) = input[pos + 2] /\ At(pos + 2) = input[pos + 3]
    <3>1. (pos + 1) + 1 = pos + 2 /\ (pos + 2) + 1 = pos + 3
      BY <2>1
    <3> QED
      BY <3>1 DEF At
  <2> QED
    BY <2>1, <2>2 DEF Continuation, OpensNear
<1>2. At(pos) \notin {OpenBracket, CloseBracket}
  BY CharAssumption
<1>3. ~Finish
  BY InLine DEF Finish
<1> QED
  BY <1>1, <1>2, <1>3 DEF Next, IdLineByte, IdLineEnd, IdLineMissing, OpenByte, CloseByte,
     BracketByte, BreakInLine, OtherByte

\* Between the two characters of a line end.
LEMMA EolLayout ==
    ASSUME IInv, OutcomeInv, LayoutInv, UNCHANGED telegram, loop = "data_lines", Next,
           NEW k \in 0..Len(telegram.lines), InEolOf(k)
    PROVE  LayoutInv'
<1>1. telegram \in Telegrams /\ input = telegram.text
  BY DEF LayoutInv
<1>2. /\ Len(telegram.eol) = 2 /\ Len(handled) = Before(telegram, k) + 1
      /\ pos = Stop(telegram, k) + 1 /\ line_start = pos /\ ~open_bracket
  BY DEF InEolOf
<1>3. pos < Size /\ At(pos) \in LineBreak /\ ~OpensNear(input, pos)
  BY <1>1, <1>2, EndsLine DEF Size, At
<1>4. LineEnd
  BY <1>2, <1>3, OnlyLineEnd
<1> DEFINE res == ParseLine(substr(line_start, pos))
<1>5. AfterLine(res)
  BY <1>4 DEF LineEnd
<1>6. res.ok
  <2>1. input \in Seq(Char) /\ pos \in Nat
    BY InLine DEF IInv, TypeOK
  <2>2. SubSeq(input, pos + 1, pos) = <<>>
    BY <2>1
  <2>3. substr(line_start, pos) = <<>>
    BY <1>2, <2>2 DEF substr
  <2> QED
    BY <2>3 DEF ParseLine
<1> HIDE DEF res
<1> QED
  BY <1>2, <1>5, <1>6, LineEnds

\* The end of the text.
LEMMA EndLayout ==
    ASSUME IInv, LayoutInv, UNCHANGED telegram, loop = "data_lines", Next,
           InLineOf(Len(telegram.lines) + 1)
    PROVE  LayoutInv'
<1> DEFINE n == Len(telegram.lines)
<1>1. telegram \in Telegrams /\ input = telegram.text /\ Segmented(telegram, handled)
  BY DEF LayoutInv
<1>2. Len(handled) = Before(telegram, n + 1) /\ line_start = pos /\ pos = Size
  BY <1>1, TelegramIs DEF InLineOf, Size
<1>3. Finish
  <2>1. ~(pos < Size)
    BY <1>2, InLine
  <2> QED
    BY <2>1 DEF Next, IdLineByte, IdLineEnd, IdLineMissing, OpenByte, CloseByte, BracketByte,
                BreakInLine, LineEnd, OtherByte, InDataLine
<1>4. /\ loop' = "returned" /\ result' = (pos = line_start)
      /\ UNCHANGED arguments /\ handled' = handled
  BY <1>3 DEF Finish, Return, StoreNothing
<1>5. result' = TRUE
  BY <1>2, <1>4
<1>6. Ended'
  BY <1>2, <1>4, <1>5 DEF Ended
<1>7. input' = input /\ Segmented(telegram, handled)'
  BY <1>1, <1>4 DEF arguments
<1> QED
  BY <1>1, <1>4, <1>6, <1>7 DEF LayoutInv

\* A turn inside a line.
LEMMA InsideStays ==
    ASSUME LayoutInv, UNCHANGED <<arguments, telegram, loop, line_start, handled>>,
           loop = "data_lines", NEW k \in 1..Len(telegram.lines), InLineOf(k),
           IsAt(telegram.lines[k], line_start, pos', open_bracket')
    PROVE  LayoutInv'
<1>1. /\ telegram \in Telegrams /\ input = telegram.text /\ Segmented(telegram, handled)
      /\ Len(telegram.lines) \in Nat
  BY TelegramIs DEF LayoutInv
<1>2. input' = input /\ Segmented(telegram, handled)'
  BY <1>1 DEF arguments
<1>3. k # Len(telegram.lines) + 1 /\ k \in 1..(Len(telegram.lines) + 1)
  BY <1>1
<1>4. InLineOf(k)'
  BY <1>3 DEF InLineOf
<1> QED
  BY <1>1, <1>2, <1>3, <1>4 DEF LayoutInv

LEMMA LineLayout ==
    ASSUME IInv, OutcomeInv, LayoutInv, UNCHANGED telegram, loop = "data_lines", Next,
           NEW k \in 1..Len(telegram.lines), InLineOf(k)
    PROVE  LayoutInv'
<1> DEFINE l == telegram.lines[k]
<1>1. /\ telegram \in Telegrams /\ input = telegram.text /\ Segmented(telegram, handled)
      /\ Len(telegram.lines) \in Nat
  BY TelegramIs DEF LayoutInv
<1>2. k # Len(telegram.lines) + 1 /\ k \in 0..Len(telegram.lines) /\ k # 0
  BY <1>1
<1>3. /\ Len(handled) = Before(telegram, k) /\ line_start = Begin(telegram, k)
      /\ IsAt(l, line_start, pos, open_bracket)
  BY <1>2 DEF InLineOf
<1>4. IsIn(l, input, line_start) /\ Stop(telegram, k) = line_start + Len(Text(l))
  BY <1>1, <1>3, LineIsIn
<1>5. pos \in Nat /\ open_bracket \in BOOLEAN /\ pos < Size /\ Size = Len(input)
  <2>1. pos \in Nat /\ open_bracket \in BOOLEAN /\ Size = Len(input) /\ Size \in Nat
    BY InLine DEF Size
  <2> DEFINE stop == line_start + Len(Text(l))
  <2>2. pos \in line_start..stop /\ stop < Len(input) /\ line_start \in Nat
    BY <1>3, <1>4, <2>1, AtBounds, InLine
  <2>3. stop \in Nat
    BY <1>1, <1>4, <1>2, StopAt
  <2> HIDE DEF stop
  <2> QED
    BY <2>1, <2>2, <2>3
<1>6. At(pos) = input[pos + 1] /\ At(pos + 1) = input[pos + 2] /\ At(pos + 2) = input[pos + 3]
  <2>1. (pos + 1) + 1 = pos + 2 /\ (pos + 2) + 1 = pos + 3
    BY <1>5
  <2> QED
    BY <2>1 DEF At
<1>7. OpenBracket # CloseBracket /\ {OpenBracket, CloseBracket} \cap LineBreak = {}
  BY CharAssumption
<1>8. ~Finish
  BY <1>5, InLine DEF Finish
<1>9. CASE pos = line_start + Len(Text(l)) /\ ~open_bracket
  <2>1. pos = Stop(telegram, k)
    BY <1>4, <1>9
  <2>2. At(pos) \in LineBreak /\ ~OpensNear(input, pos)
    BY <1>1, <1>2, <2>1, EndsLine DEF At
  <2>3. LineEnd
    BY <1>5, <1>9, <2>2, OnlyLineEnd
  <2>4. substr(line_start, pos) = Text(l)
    BY <1>1, <1>3, <2>1, CutLine DEF substr
  <2> DEFINE res == ParseLine(Text(l))
  <2>5. AfterLine(res)
    BY <2>3, <2>4 DEF LineEnd
  <2>6. res.ok \/ (k # 0 /\ Len(handled) = Before(telegram, k) /\ IsBad(k))
    BY <1>1, <1>2, <1>3, FailedIsBad
  <2> HIDE DEF res
  <2> QED
    BY <1>2, <1>3, <1>9, <2>1, <2>5, <2>6, LineEnds
<1>10. CASE /\ input[pos + 1] \notin {OpenBracket, CloseBracket}
            /\ input[pos + 1] \in LineBreak => open_bracket \/ OpensNear(input, pos)
            /\ IsAt(l, line_start, pos + 1, open_bracket)
  <2>1. At(pos) \in LineBreak => Continuation
    BY <1>5, <1>6, <1>10 DEF Continuation, OpensNear
  <2>2. ToNextChar
    BY <1>6, <1>8, <1>10, <2>1 DEF Next, IdLineByte, IdLineEnd, IdLineMissing, OpenByte, CloseByte,
       BracketByte, BreakInLine, LineEnd, OtherByte
  <2>3. /\ UNCHANGED <<arguments, loop, line_start, handled>>
        /\ pos' = pos + 1 /\ open_bracket' = open_bracket
    BY <2>2 DEF ToNextChar, Continue, StoreNothing
  <2> QED
    BY <1>10, <2>3, InsideStays
<1>11. At(pos) \in {OpenBracket, CloseBracket} =>
            Taken(input, pos) = IF Doubled THEN pos + 2 ELSE pos + 1
  BY <1>5, <1>6 DEF Taken, Doubled
<1>12. ASSUME NEW bracket \in {OpenBracket, CloseBracket}, NEW opens \in BOOLEAN,
              BracketByte(bracket, opens), open_bracket # opens,
              IsAt(l, line_start, Taken(input, pos), opens)
       PROVE  LayoutInv'
  <2>1. At(pos) = bracket /\ ~(open_bracket = opens)
    BY <1>12 DEF BracketByte
  <2>2. /\ UNCHANGED <<arguments, loop, line_start, handled>>
        /\ pos' = (IF Doubled THEN pos + 2 ELSE pos + 1) /\ open_bracket' = opens
    BY <1>12, <2>1 DEF BracketByte, Continue, StoreNothing
  <2>3. pos' = Taken(input, pos)
    BY <1>11, <2>1, <2>2
  <2> QED
    BY <1>12, <2>2, <2>3, InsideStays
<1>13. CASE /\ input[pos + 1] = OpenBracket /\ ~open_bracket
            /\ IsAt(l, line_start, Taken(input, pos), TRUE)
  <2>1. BracketByte(OpenBracket, TRUE)
    BY <1>6, <1>7, <1>8, <1>13 DEF Next, IdLineByte, IdLineEnd, IdLineMissing, OpenByte, CloseByte,
       BracketByte, BreakInLine, LineEnd, OtherByte
  <2> QED
    BY <1>12, <1>13, <2>1
<1>14. CASE /\ input[pos + 1] = CloseBracket /\ open_bracket
            /\ IsAt(l, line_start, Taken(input, pos), FALSE)
  <2>1. BracketByte(CloseBracket, FALSE)
    BY <1>6, <1>7, <1>8, <1>14 DEF Next, IdLineByte, IdLineEnd, IdLineMissing, OpenByte, CloseByte,
       BracketByte, BreakInLine, LineEnd, OtherByte
  <2> QED
    BY <1>12, <1>14, <2>1
<1>15. Turn(l, input, line_start, pos, open_bracket)
  BY <1>3, <1>4, <1>5, LineStep
<1> QED
  BY <1>9, <1>10, <1>13, <1>14, <1>15 DEF Turn

LEMMA NextLayout ==
    IInv /\ OutcomeInv /\ LayoutInv /\ [TelegramNext]_telegramVars => LayoutInv'
<1> SUFFICES ASSUME IInv, OutcomeInv, LayoutInv, [TelegramNext]_telegramVars PROVE LayoutInv'
  OBVIOUS
<1>1. CASE UNCHANGED telegramVars
  <2>1. /\ telegram' = telegram /\ input' = input /\ unknown_error' = unknown_error
        /\ handled' = handled /\ loop' = loop /\ result' = result /\ pos' = pos
        /\ line_start' = line_start /\ open_bracket' = open_bracket
    BY <1>1 DEF telegramVars, vars, arguments
  <2>2. \A k : /\ InLineOf(k)' <=> InLineOf(k)
               /\ InEolOf(k)' <=> InEolOf(k)
               /\ IsBad(k)' <=> IsBad(k)
    BY <2>1 DEF InLineOf, InEolOf, IsBad, IsRepeated
  <2>3. Ended' <=> Ended
    BY <2>1, <2>2 DEF Ended
  <2> QED
    BY <2>1, <2>2, <2>3 DEF LayoutInv
<1>2. CASE Next /\ UNCHANGED telegram
  <2>1. loop = "id_line" \/ loop = "data_lines"
    BY <1>2 DEF Next, IdLineByte, IdLineEnd, IdLineMissing, OpenByte, CloseByte, BracketByte,
                BreakInLine, LineEnd, OtherByte, Finish, InDataLine
  <2>2. CASE loop = "id_line"
    BY <1>2, <2>2, IdLineLayout
  <2>3. CASE loop = "data_lines"
    <3>1. \/ \E k \in 1..(Len(telegram.lines) + 1) : InLineOf(k)
          \/ \E k \in 0..Len(telegram.lines) : InEolOf(k)
      BY <2>3 DEF LayoutInv
    <3>2. ASSUME NEW k \in 1..(Len(telegram.lines) + 1), InLineOf(k) PROVE LayoutInv'
      <4>1. CASE k = Len(telegram.lines) + 1
        BY <1>2, <2>3, <3>2, <4>1, EndLayout
      <4>2. CASE k # Len(telegram.lines) + 1
        <5>1. Len(telegram.lines) \in Nat
          BY TelegramIs DEF LayoutInv
        <5>2. k \in 1..Len(telegram.lines)
          BY <4>2, <5>1
        <5> QED
          BY <1>2, <2>3, <3>2, <5>2, LineLayout
      <4> QED
        BY <4>1, <4>2
    <3> QED
      BY <1>2, <2>3, <3>1, <3>2, EolLayout
  <2> QED
    BY <2>1, <2>2, <2>3
<1> QED
  BY <1>1, <1>2 DEF TelegramNext

\* parse finds the lines of a telegram again, whatever their layout and number, the
\* fields and the length of their values: it succeeds exactly if no line is bad; it
\* stores every line before the first bad one with its exact text and no line after it.
THEOREM TelegramsAreStored == TelegramSpec => []StoresLinesBeforeFirstBad
<1> DEFINE Whole == IInv /\ WholeInv /\ OutcomeInv /\ LayoutInv
<1>1. TelegramInit => Whole
  BY InitIInv, InitWhole, InitOutcome, InitLayout DEF TelegramInit
<1>2. Whole /\ [TelegramNext]_telegramVars => Whole'
  <2> SUFFICES ASSUME Whole, [TelegramNext]_telegramVars PROVE Whole'
    OBVIOUS
  <2>1. [Next]_vars
    BY DEF TelegramNext, telegramVars
  <2> QED
    BY <2>1, NextIInv, NextWhole, NextOutcome, NextLayout
<1>3. Whole => StoresLinesBeforeFirstBad
  BY OutcomeIsOfTelegram
<1> HIDE DEF Whole
<1> QED
  BY <1>1, <1>2, <1>3, PTL DEF TelegramSpec
===============================================================================
