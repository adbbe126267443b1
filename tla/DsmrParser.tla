------------------------------ MODULE DsmrParser -------------------------------
(***************************************************************************)
(* DsmrParser::parse and ParsedData::parse_line (parser.h): one pass over  *)
(* the text of a telegram that finds its lines, telling the ends of lines  *)
(* from the line breaks inside values, and stores each line in the field   *)
(* whose OBIS id it carries.                                               *)
(*                                                                         *)
(* A step is one turn of a loop of parse, with every call it makes.  pos   *)
(* and line_start count from 0, as in the code.                            *)
(***************************************************************************)
EXTENDS StringParser

CONSTANTS
    Char,               \* characters of a telegram
    LineBreak,          \* the characters '\r' and '\n'
    IdChar,             \* digits, '-', ':' and '.': what an OBIS id is made of
    OverflowingId,      \* ids parse_obis refuses: one of their numbers is over 255
    Ts,                 \* the fields of the ParsedData, in the order they are declared
    ObisId,             \* the id of each field; two fields may have the same one
    identification,     \* the id parse gives the first line, 255-255:255.255.255.255
    RawField,           \* the fields that are RawFields; the others are StringFields
    MinLength, MaxLength,   \* bounds on the length of a StringField
    nullopt             \* a value that was never assigned

ASSUME CharAssumption ==
    /\ {OpenBracket, CloseBracket} \cup LineBreak \cup IdChar \subseteq Char
    /\ OpenBracket # CloseBracket
    /\ {OpenBracket, CloseBracket} \cap (LineBreak \cup IdChar) = {}
    /\ LineBreak \cap IdChar = {}

Field == {Ts[k] : k \in DOMAIN Ts}

ASSUME FieldAssumption == Ts \in Seq(Field)

ASSUME NulloptAssumption == nullopt \notin Seq(Char)

VARIABLES
    input, unknown_error,   \* the arguments of parse, input without its '/' and '!'
    pos, line_start, open_bracket,
    loop,           \* the loop that runs: "id_line", "data_lines", or "returned"
    result,         \* what parse returned
    present,        \* the fields whose present() is true
    val,            \* val() of every field
    handled         \* history: the segments <<from, to>> of input parsed as lines

arguments == <<input, unknown_error>>
data == <<present, val>>
vars == <<arguments, pos, line_start, open_bracket, loop, result, data, handled>>

-------------------------------------------------------------------------------
(* Views of the input *)

Size == Len(input)

At(i) == input[i + 1]

substr(from, to) == SubSeq(input, from + 1, to)

-------------------------------------------------------------------------------
(* parse_obis and the fields *)

\* The number of characters parse_obis takes.
IdLength(line) ==
    CHOOSE n \in 0..Len(line) :
        /\ \A i \in 1..n : line[i] \in IdChar
        /\ n < Len(line) => line[n + 1] \notin IdChar

HasObis(line) ==
    IdLength(line) > 0 /\ SubSeq(line, 1, IdLength(line)) \notin OverflowingId

\* The parse() of a field: a RawField takes everything.
ParseField(f, s) ==
    IF f \in RawField
    THEN [ok |-> TRUE, out |-> s, rest |-> <<>>]
    ELSE ParseString(s, MinLength, MaxLength)

Matching(id) == {k \in DOMAIN Ts : ObisId[Ts[k]] = id}

IsKnown(id) == Matching(id) # {}

\* Mutants: the last field with the id is taken; a field may be stored twice; a
\* field that fails to parse is accepted.
FieldOfLast(id) == Ts[CHOOSE k \in Matching(id) : \A j \in Matching(id) : k >= j]

MayStoreAgain(f) == TRUE

SucceedsAlways(res) == TRUE

\* Of two fields with one id only the first is ever tried.
FieldOf(id) == Ts[CHOOSE k \in Matching(id) : \A j \in Matching(id) : k <= j]

MayStore(f) == f \notin present

Succeeds(res) == res.ok

\* ParsedData::parse_line: what becomes of the fields, whether it succeeds, and
\* what it leaves unread of s.  present is set before the field is parsed.
ParsedDataParseLine(id, s) ==
    LET f == FieldOf(id)
        res == ParseField(f, s)
    IN  IF ~IsKnown(id) \/ ~MayStore(f)
        THEN [ok |-> ~IsKnown(id), rest |-> s, present |-> present, val |-> val]
        ELSE [ok |-> Succeeds(res), rest |-> res.rest,
              present |-> present \cup {f},
              val |-> IF res.ok THEN [val EXCEPT ![f] = res.out] ELSE val]

\* DsmrParser::parse_line.  An unread rest is an error on a known line; an
\* unknown line is one if the caller says so.
ParseLine(line) ==
    LET id == SubSeq(line, 1, IdLength(line))
        res == ParsedDataParseLine(id, Rest(line, IdLength(line)))
    IN  IF line = <<>> \/ ~HasObis(line)
        THEN [ok |-> line = <<>>, present |-> present, val |-> val]
        ELSE [ok |-> /\ res.ok
                     /\ IsKnown(id) => res.rest = <<>>
                     /\ unknown_error => IsKnown(id),
              present |-> res.present, val |-> res.val]

-------------------------------------------------------------------------------
Init ==
    /\ input \in Seq(Char)
    /\ unknown_error \in BOOLEAN
    /\ pos = 0
    /\ line_start = 0
    /\ open_bracket = FALSE
    /\ loop = "id_line"
    /\ result = FALSE
    /\ present = {}
    /\ val = [f \in Field |-> nullopt]
    /\ handled = <<>>

Return(res) == loop' = "returned" /\ result' = res

Continue == UNCHANGED <<loop, result>>

Store(res) ==
    /\ present' = res.present
    /\ val' = res.val
    /\ handled' = Append(handled, <<line_start, pos>>)

StoreNothing == UNCHANGED <<data, handled>>

\* Mutant of ToNextChar: pos is not moved on.
ToNextCharStuck ==
    UNCHANGED vars

ToNextChar ==
    /\ pos' = pos + 1
    /\ Continue
    /\ StoreNothing
    /\ UNCHANGED <<arguments, line_start, open_bracket>>

\* The first line is the meter's identification, up to the first line break.
IdLineByte ==
    /\ loop = "id_line"
    /\ pos < Size
    /\ At(pos) \notin LineBreak
    /\ ToNextChar

\* Mutants of NextLine: it starts one character late, or early.
NextLineLate == pos + 2

NextLineEarly == pos

NextLine == pos + 1

\* What parse does at the end of a line after it was parsed with this result.
AfterLine(res) ==
    /\ Store(res)
    /\ IF res.ok
       THEN /\ pos' = pos + 1
            /\ line_start' = NextLine
            /\ loop' = "data_lines"
            /\ UNCHANGED result
       ELSE /\ Return(FALSE)
            /\ UNCHANGED <<pos, line_start>>
    /\ UNCHANGED <<arguments, open_bracket>>

IdLineEnd ==
    /\ loop = "id_line"
    /\ pos < Size
    /\ At(pos) \in LineBreak
    /\ AfterLine(ParsedDataParseLine(identification, substr(line_start, pos)))

\* No line break at all: the second loop has nothing to do either.
IdLineMissing ==
    /\ loop = "id_line"
    /\ pos >= Size
    /\ loop' = "data_lines"
    /\ StoreNothing
    /\ UNCHANGED <<arguments, pos, line_start, open_bracket, result>>

-------------------------------------------------------------------------------
(* The loop over the data lines *)

\* "((" and "))" are taken as one bracket.
Doubled ==
    /\ At(pos) \in {OpenBracket, CloseBracket}
    /\ pos + 1 < Size
    /\ At(pos + 1) = At(pos)

InDataLine == loop = "data_lines" /\ pos < Size

\* A bracket must not be open when one opens and must be open when one closes.
BracketByte(bracket, opens) ==
    /\ InDataLine
    /\ At(pos) = bracket
    /\ IF open_bracket = opens
       THEN /\ Return(FALSE)
            /\ pos' = (IF Doubled THEN pos + 1 ELSE pos)
       ELSE /\ pos' = (IF Doubled THEN pos + 2 ELSE pos + 1)
            /\ Continue
    /\ open_bracket' = opens
    /\ StoreNothing
    /\ UNCHANGED <<arguments, line_start>>

OpenByte == BracketByte(OpenBracket, TRUE)

CloseByte == BracketByte(CloseBracket, FALSE)

\* Mutant of Continuation: only the look-ahead.
ContinuationByLookahead ==
    /\ Size - pos > 2
    /\ At(pos + 1) = OpenBracket \/ At(pos + 2) = OpenBracket

\* A line break within a value, or before a further bracket of the same line:
\* the break may be two characters long.
Continuation ==
    \/ open_bracket
    \/ /\ Size - pos > 2
       /\ At(pos + 1) = OpenBracket \/ At(pos + 2) = OpenBracket

BreakInLine ==
    /\ InDataLine
    /\ At(pos) \in LineBreak
    /\ Continuation
    /\ ToNextChar

LineEnd ==
    /\ InDataLine
    /\ At(pos) \in LineBreak
    /\ ~Continuation
    /\ AfterLine(ParseLine(substr(line_start, pos)))

OtherByte ==
    /\ InDataLine
    /\ At(pos) \notin {OpenBracket, CloseBracket} \cup LineBreak
    /\ ToNextChar

\* The text is used up: a last line without a line break is an error.
Finish ==
    /\ loop = "data_lines"
    /\ pos >= Size
    /\ Return(pos = line_start)
    /\ StoreNothing
    /\ UNCHANGED <<arguments, pos, line_start, open_bracket>>

Next ==
    \/ IdLineByte
    \/ IdLineEnd
    \/ IdLineMissing
    \/ OpenByte
    \/ CloseByte
    \/ BreakInLine
    \/ LineEnd
    \/ OtherByte
    \/ Finish

\* parse is one call on one thread: its loops keep running until it returns.
Spec == Init /\ [][Next]_vars /\ WF_vars(Next)

-------------------------------------------------------------------------------
(* Properties *)

TypeOK ==
    /\ input \in Seq(Char)
    /\ unknown_error \in BOOLEAN
    /\ pos \in 0..Size
    /\ line_start \in 0..pos
    /\ open_bracket \in BOOLEAN
    /\ loop \in {"id_line", "data_lines", "returned"}
    /\ result \in BOOLEAN
    /\ present \subseteq Field
    /\ \A f \in Field : val[f] = nullopt \/ val[f] \in Seq(Char)

\* The lines handed to the fields are consecutive pieces of the text, separated
\* by one line break each: no character is lost or read twice.  If parse succeeds
\* they are the whole of it.
LinesCoverInput ==
    /\ \A k \in 1..Len(handled) :
        LET from == handled[k][1]
            to == handled[k][2]
        IN  /\ from = (IF k = 1 THEN 0 ELSE handled[k - 1][2] + 1)
            /\ from <= to /\ to < Size
            /\ At(to) \in LineBreak
    /\ loop = "returned" /\ result =>
        Size = (IF handled = <<>> THEN 0 ELSE handled[Len(handled)][2] + 1)

Positions(from, to, c) == {i \in from..(to - 1) : At(i) = c}

\* Every bracket opened in a piece of the text is closed in it, and the line breaks
\* it contains are inside its brackets or at most two characters before one.
IsWhole(from, to) ==
    LET opens == Positions(from, to, OpenBracket)
        closes == Positions(from, to, CloseBracket)
    IN  /\ opens = {} <=> closes = {}
        /\ \A i \in opens : \E j \in closes : i < j
        /\ \A j \in closes : \E i \in opens : i < j
        /\ \A i \in from..(to - 1) : At(i) \in LineBreak =>
            \/ \E j \in Positions(i + 1, Size, OpenBracket) : j <= i + 2
            \/ \E a \in opens : a < i /\ closes \cap (a..i) = {}

\* No data line ends inside brackets or begins with the rest of a value.
LinesAreWhole == \A k \in 2..Len(handled) : IsWhole(handled[k][1], handled[k][2])

\* A field that is present after a successful parse has the value of its line.
\* After a failure at most one has none, and it is the one that failed.
PresentMeansParsed ==
    LET unparsed == {f \in present : val[f] = nullopt}
    IN  /\ unparsed # {} => loop = "returned" /\ ~result
        /\ \A f, g \in unparsed : f = g
        /\ \A f \in Field \ present : val[f] = nullopt

\* A field is assigned at most once: what parse stored it never overwrites.
ValuesAreFinal ==
    [][\A f \in Field : val[f] # nullopt => val'[f] = val[f]]_vars

\* parse returns for every input.
Terminates == <>(loop = "returned")
===============================================================================
