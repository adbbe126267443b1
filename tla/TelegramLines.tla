----------------------------- MODULE TelegramLines -----------------------------
(***************************************************************************)
(* What telegrams mean.  DsmrParser reads a telegram that is written from  *)
(* abstract lines, each an id and the values after it, in any layout that  *)
(* meters use: either line end, doubled brackets, line breaks within and   *)
(* between values.  The parser must find these lines again.                *)
(***************************************************************************)
EXTENDS DsmrParser

CONSTANT Telegrams      \* telegrams as meters write them

VARIABLE telegram       \* the one that input is the text of

telegramVars == <<vars, telegram>>

-------------------------------------------------------------------------------
(* Telegrams *)

\* t stands at place p of s; places count from 0.
Stands(s, p, t) == p + Len(t) <= Len(s) /\ \A i \in 1..Len(t) : s[p + i] = t[i]

Bracketed(v, doubled) ==
    IF doubled
    THEN <<OpenBracket, OpenBracket>> \o v \o <<CloseBracket, CloseBracket>>
    ELSE <<OpenBracket>> \o v \o <<CloseBracket>>

\* Where the values of a line end: at is where they begin.
EndOf(l, j) == IF j = 0 THEN 0 ELSE l.at[j] + Len(Bracketed(l.values[j], l.doubled))

\* The payload is what follows the id: values in brackets, with a line end at most
\* between two of them.  A line is empty, or it has an id and values.
IsLine(l) ==
    /\ l.id \in Seq(IdChar) /\ Len(l.id) # 1
    /\ l.values \in Seq(Seq(Char \ {OpenBracket, CloseBracket}))
    /\ l.id = <<>> <=> l.values = <<>>
    /\ l.doubled \in BOOLEAN
    /\ l.payload \in Seq(Char)
    /\ l.at \in [DOMAIN l.values -> Nat]
    /\ \A j \in DOMAIN l.values :
        /\ Stands(l.payload, l.at[j], Bracketed(l.values[j], l.doubled))
        /\ l.at[j] - EndOf(l, j - 1) \in (IF j = 1 THEN {0} ELSE 0..2)
        /\ \A i \in (EndOf(l, j - 1) + 1)..l.at[j] : l.payload[i] \in LineBreak
    /\ Len(l.payload) = EndOf(l, Len(l.values))

\* A telegram begins with its identification; line k begins at start[k] and ends
\* where the next one begins, with a line end of one or two characters.
IsTelegram(t) ==
    LET n == Len(t.lines)
        first == t.start[1] - Len(t.eol)
    IN  /\ t.text \in Seq(Char)
        /\ t.eol \in Seq(LineBreak) /\ Len(t.eol) \in 1..2
        /\ t.lines \in Seq({t.lines[k] : k \in DOMAIN t.lines})
        /\ t.start \in [1..(n + 1) -> 0..Len(t.text)]
        /\ first >= 0 /\ \A i \in 1..first : t.text[i] \notin LineBreak
        /\ Stands(t.text, first, t.eol)
        /\ \A k \in 1..n :
            LET line == t.lines[k].id \o t.lines[k].payload \o t.eol
            IN  /\ IsLine(t.lines[k])
                /\ Stands(t.text, t.start[k], line)
                /\ t.start[k + 1] = t.start[k] + Len(line)
        /\ t.start[n + 1] = Len(t.text)

FirstLine(t) == SubSeq(t.text, 1, t.start[1] - Len(t.eol))

\* The field of the lines with an id is the first that has this id.
Target(id) ==
    {Ts[k] : k \in {k \in DOMAIN Ts :
        ObisId[Ts[k]] = id /\ \A j \in 1..(k - 1) : ObisId[Ts[j]] # id}}

\* The identification is a RawField (fields.h:276).
ASSUME TelegramAssumption ==
    /\ \A t \in Telegrams : IsTelegram(t)
    /\ Target(identification) \subseteq RawField

TelegramInit ==
    /\ telegram \in Telegrams
    /\ input = telegram.text
    /\ Init

TelegramNext == Next /\ UNCHANGED telegram

TelegramSpec == TelegramInit /\ [][TelegramNext]_telegramVars

-------------------------------------------------------------------------------
(* What a telegram means, line by line *)

\* The text a field has of a line.
Expected(l, f) ==
    IF f \in RawField
    THEN l.payload
    ELSE IF l.doubled
    THEN <<OpenBracket>> \o l.values[1] \o <<CloseBracket>>
    ELSE l.values[1]

\* The field a line is for.
TargetOf(l) == IF l.id \in OverflowingId \cup {<<>>} THEN {} ELSE Target(l.id)

\* Line k has the id of an earlier one.
IsRepeated(k) ==
    LET id == telegram.lines[k].id
    IN  id = identification \/ \E j \in 1..(k - 1) : telegram.lines[j].id = id

\* A line parse fails on, given that it got there.
IsBad(k) ==
    LET l == telegram.lines[k]
    IN  /\ l.id # <<>>
        /\ \/ l.id \in OverflowingId
           \/ TargetOf(l) = {} /\ unknown_error
           \/ TargetOf(l) # {} /\ IsRepeated(k)
           \/ \E f \in TargetOf(l) \ RawField :
                Len(Expected(l, f)) \notin MinLength..MaxLength \/ Len(l.values) > 1

Reached == {k \in DOMAIN telegram.lines : \A j \in 1..(k - 1) : ~IsBad(j)}

\* The outcome of parse is that of its lines, whatever their layout: it succeeds
\* if no line is bad, and it stores every line before the first bad one with its
\* exact text and no line after it.  The field of the bad line is present all
\* the same (parser.h:25); it has a value only if the line is bad for what
\* follows the value (parser.h:213).  Of two fields with one id the second is never
\* present (parser.h:31).
StoresLinesBeforeFirstBad ==
    loop = "returned" =>
        LET lines == telegram.lines
            named == Target(identification)
        IN  /\ result <=> \A k \in DOMAIN lines : ~IsBad(k)
            /\ present = named \cup UNION {TargetOf(lines[k]) : k \in Reached}
            /\ \A f \in named : val[f] = FirstLine(telegram)
            /\ \A k \in Reached : \A f \in TargetOf(lines[k]) :
                    ~IsBad(k) => val[f] = Expected(lines[k], f)
            /\ \A f \in Field \ named : val[f] # nullopt =>
                    \E k \in Reached :
                        /\ f \in TargetOf(lines[k])
                        /\ val[f] = Expected(lines[k], f)
                        /\ IsBad(k) => Len(lines[k].values) > 1
===============================================================================
