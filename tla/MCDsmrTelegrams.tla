---------------------------- MODULE MCDsmrTelegrams ----------------------------
(***************************************************************************)
(* TelegramLines for TLC: telegrams in every layout the parser's tests     *)
(* show, with every defect a line can have.                                *)
(***************************************************************************)
EXTENDS TelegramLines

LOCAL INSTANCE SequencesExt

CONSTANT MaxLines       \* bound: lines of a telegram after its first

MCChar == {"(", ")", "CR", "LF", "1", "2"}

A == <<"1", "1">>           \* the id of a StringField
B == <<"1", "2">>           \* the id of a RawField
Unknown == <<"2", "1">>     \* no field
TooLarge == <<"2", "2">>    \* a number over 255

MCIdentification == <<"identification">>

\* Two fields have the id A, as gas_delivered and gas_delivered_gj do (fields.h:579).
MCTs == <<"first line", "a", "b", "a again">>
MCObisId == [f \in {"first line", "a", "b", "a again"} |->
    IF f = "first line" THEN MCIdentification ELSE IF f = "b" THEN B ELSE A]
MCRawField == {"first line", "b", "a again"}
MCOverflowingId == {TooLarge}

-------------------------------------------------------------------------------
(* Lines.  broken: a line break before the second value. *)

Line(id, values, doubled, broken) ==
    [id |-> id, values |-> values, doubled |-> doubled, broken |-> broken]

Short == <<"1">>
WithBreak == <<"1", "LF", "2">>
TooLong == <<"1", "2", "1", "2">>

MeterLines ==
    {Line(A, <<v>>, FALSE, FALSE) : v \in {<<>>, Short, WithBreak, TooLong}}
    \cup {Line(A, <<Short>>, TRUE, FALSE)}
    \cup {Line(id, <<Short, WithBreak>>, d, b) :
            id \in {A, B}, d \in BOOLEAN, b \in BOOLEAN}
    \cup {Line(id, <<Short>>, FALSE, FALSE) : id \in {Unknown, TooLarge}}
    \cup {Line(<<>>, <<>>, FALSE, FALSE)}

\* A line with its text, where the line end is eol.
Written(line, eol) ==
    LET gap(j) == IF line.broken /\ j = 2 THEN eol ELSE <<>>
        parts == [j \in DOMAIN line.values |-> gap(j) \o Bracketed(line.values[j], line.doubled)]
    IN  [id |-> line.id, values |-> line.values, doubled |-> line.doubled,
         payload |-> FlattenSeq(parts),
         at |-> [j \in DOMAIN parts |-> Len(FlattenSeq(SubSeq(parts, 1, j - 1)) \o gap(j))]]

Telegram(lines, eol) ==
    LET first == <<"1", "2">> \o eol
        rows == [k \in DOMAIN lines |-> lines[k].id \o lines[k].payload \o eol]
    IN  [text |-> first \o FlattenSeq(rows), eol |-> eol, lines |-> lines,
         start |-> [k \in 1..(Len(rows) + 1) |->
            Len(first) + Len(FlattenSeq(SubSeq(rows, 1, k - 1)))]]

LineLists(eol) == UNION {[1..n -> {Written(l, eol) : l \in MeterLines}] : n \in 0..MaxLines}

MCTelegrams ==
    UNION {{Telegram(lines, eol) : lines \in LineLists(eol)} :
           eol \in {<<"LF">>, <<"CR", "LF">>}}
===============================================================================
