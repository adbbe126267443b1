----------------------------- MODULE StringParser ------------------------------
(***************************************************************************)
(* parse_string (parser.h).  A view is a sequence of characters; a parser  *)
(* returns whether it succeeded, what it read and the view that is left.   *)
(***************************************************************************)
EXTENDS Integers, Sequences

CONSTANTS OpenBracket, CloseBracket

\* Mutant of Rest: nothing is taken off.
RestAll(s, n) == s

Rest(s, n) == SubSeq(s, n + 1, Len(s))

Failed(s) == [ok |-> FALSE, out |-> <<>>, rest |-> s]

\* The number of characters before the first ')' of s, Len(s) if there is none.
BeforeClose(s) ==
    CHOOSE n \in 0..Len(s) :
        /\ \A i \in 1..n : s[i] # CloseBracket
        /\ n < Len(s) => s[n + 1] = CloseBracket

\* parse_string: the text between brackets, with the first ')' of a "))" in it.
ParseString(s, min, max) ==
    LET first == BeforeClose(s)
        close == IF first + 1 < Len(s) /\ s[first + 2] = CloseBracket
                 THEN first + 1
                 ELSE first
    IN  IF /\ s # <<>>
           /\ s[1] = OpenBracket
           /\ close # Len(s)
           /\ close - 1 \in min..max
        THEN [ok |-> TRUE, out |-> SubSeq(s, 2, close), rest |-> Rest(s, close + 1)]
        ELSE Failed(s)
===============================================================================
