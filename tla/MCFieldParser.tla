----------------------------- MODULE MCFieldParser -----------------------------
(***************************************************************************)
(* FieldLines for TLC, with lines as meters write them, well and badly.    *)
(***************************************************************************)
EXTENDS FieldLines

LOCAL INSTANCE SequencesExt
LOCAL INSTANCE TLC

MCDigit == [c \in {"0", "1", "2", "9"} |->
    CASE c = "0" -> 0 [] c = "1" -> 1 [] c = "2" -> 2 [] c = "9" -> 9]
MCChar ==
    DOMAIN MCDigit \cup {"(", ")", "-", ".", "*", "kWh", "kwh", "Wh", "m3", "T", "3", "4", "A", "a"}
MCDecode == (<<"3", "1">> :> "1") @@ (<<"3", "9">> :> "9") @@ (<<"4", "1">> :> "A")

-------------------------------------------------------------------------------
(* The lines *)

Strings(set, lengths) == UNION {[1..n -> set] : n \in lengths}

Readings(wholes, fracs, units) ==
    [neg : BOOLEAN, whole : wholes, frac : fracs, unit : units]

AllUnits == {None, <<"*", "kWh">>, <<"*", "kwh">>, <<"*", "Wh">>, <<"*", "m3">>, <<"*">>}

Single == Readings(Strings({"0", "1", "9"}, 0..3), Strings({"0", "1"}, 0..2), AllUnits)

Few ==
    Readings({<<"1">>, <<"9">>}, {<<>>, <<"1">>}, {<<"*", "kWh">>})
        \cup Readings({<<"1", "1", "0">>}, {<<>>}, {<<"*", "Wh">>, <<"*", "m3">>})

Counts == Readings({<<>>, <<"0">>, <<"1">>, <<"0", "2">>, <<"1", "9", "9">>}, {<<>>}, {None})

\* A reading among the parts of a line is a record, a text is a sequence.
Text(t) == [text |-> t]

\* The line of these parts.
Line(k, parts) ==
    LET IsText(j) == "text" \in DOMAIN parts[j]
    IN  [kind |-> k,
         texts |-> [j \in DOMAIN parts |-> IF IsText(j) THEN parts[j].text ELSE Inner(parts[j])],
         readings |-> [j \in {n \in DOMAIN parts : ~IsText(n)} |-> parts[j]]]

Stamp == Text(<<"T", "T">>)
Stamps == <<Stamp, Stamp>>

\* The readings of an average come with two timestamps each.
WithStamps(rs) == FlattenSeq([j \in DOMAIN rs |-> Append(Stamps, rs[j])])

MCLines ==
    {Line(k, <<r>>) : k \in {"fixed", "int"}, r \in Single}
    \cup {Line("timestamped", <<Text(stamp), r>>) :
            stamp \in {<<"T">>, <<"T", "T">>, <<"T", "T", "T">>}, r \in Few}
    \cup {Line("last", rs) : rs \in Strings(Few, 0..2)}
    \cup {Line("last", <<Text(text), r>>) :
            text \in {<<>>, <<"1">>, [j \in 1..8 |-> "T"]}, r \in Few}
    \cup {Line("averaged", <<c>> \o Stamps \o WithStamps(rs)) : c \in Counts, rs \in Strings(Few, 0..2)}
    \cup {Line("averaged", <<Text(text)>> \o head \o WithStamps(<<r>>)) :
            text \in {<<>>, <<"9", "9", "9">>, <<"1">>}, head \in {<<>>, <<Stamp>>}, r \in Few}
    \cup {Line("averaged", <<c, Stamp>>) : c \in Counts}
    \cup {Line("hex", <<Text(text)>>) : text \in Strings({"1", "3", "4", "9", "A", "a"}, 0..4)}
    \cup {Line("hex", <<Text([j \in 1..5 |-> "1"])>>)}

-------------------------------------------------------------------------------
\* fields.h:118: "Some smart meters publish int values instead of a float."  A
\* reading whose value an int32_t can hold is read without an overflow.
FittingReadingNeverOverflows ==
    kind = "fixed" /\ Fits(line.readings[1]) /\ IsFixed(line.readings[1]) => ~overflowed
===============================================================================
