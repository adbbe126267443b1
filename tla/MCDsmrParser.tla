----------------------------- MODULE MCDsmrParser ------------------------------
(***************************************************************************)
(* DsmrParser for TLC on every text of up to MaxText characters that       *)
(* begins with a line break, and on the short ones that do not: whatever   *)
(* brackets and line breaks a damaged telegram may have, in any order.     *)
(***************************************************************************)
EXTENDS DsmrParser

CONSTANT MaxText    \* bound: characters between '/' and '!'

MCChar == {"(", ")", "NL", "1"}

Texts(n) == UNION {[1..k -> MCChar] : k \in 0..n}

MCInput == Texts(3) \cup {<<"NL">> \o text : text \in Texts(MaxText - 1)}

\* "1" is a known field, "11" an id with a number that is too large, "111" is
\* unknown.
MCIdentification == <<"identification">>
MCTs == <<"first line", "one">>
MCObisId == [f \in {"first line", "one"} |-> IF f = "one" THEN <<"1">> ELSE MCIdentification]
MCOverflowingId == {<<"1", "1">>}

MCInit == input \in MCInput /\ Init

MCSpec == MCInit /\ [][Next]_vars /\ WF_vars(Next)
===============================================================================
