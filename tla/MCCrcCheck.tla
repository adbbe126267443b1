------------------------------ MODULE MCCrcCheck ------------------------------
(***************************************************************************)
(* CrcCheck for TLC: bodies of a few bytes, and what a line does to them.  *)
(***************************************************************************)
EXTENDS CrcCheck

CONSTANT MaxBody    \* bound: bytes in a body, other than those of MCStories

\* '!', '1', which a single bit tells from it, and bytes with their high or all bits set.
MCBodyChar == {EndSymbol, 49, 128, 255}

\* What the line may XOR onto one of them: nothing, single bits, bursts of two to eight.
MCNoise == {0, 1, 16, 128, 129, 255}

\* The ends of the three ranges of hexadecimal digits, and their neighbours.
MCCrcChar == (47..58) \cup (64..71) \cup (96..103)

\* Bodies with their noise.  One is "/128DC!": a bit makes its '1' a '!', and 28DC is the
\* CRC of "/!".  The other has the shortest change that the CRC does not show, the 17
\* bits of its generator.
MCStories == {
    << <<47, 0>>, <<49, 16>>, <<50, 0>>, <<56, 0>>, <<68, 0>>, <<67, 0>>, <<33, 0>> >>,
    << <<47, 0>>, <<49, 3>>, <<49, 64>>, <<49, 1>>, <<33, 0>> >>}

Changed == [char \in Char, noise \in MCNoise \cup {3, 64} |->
    CHOOSE c \in Char : Bits(c) = Xor(Bits(char), Bits(noise))]

-------------------------------------------------------------------------------
MCSendBody(char, noise) == SendBody(char, Changed[char, noise])

SendStory(story) ==
    LET n == Len(sent)
    IN  /\ n < Len(story)
        /\ sent = [k \in 1..n |-> Bits(story[k][1])]
        /\ MCSendBody(story[n + 1][1], story[n + 1][2])

\* Bound: where the body changed, the CRC arrives in upper case, or with a '!' for the
\* one that was lost.
MCNext ==
    \/ \E char \in MCBodyChar \cup {StartSymbol}, noise \in MCNoise :
        /\ Len(sent) < MaxBody /\ (Len(sent) = MaxBody - 1 => char = EndSymbol)
        /\ char = StartSymbol <=> sent = <<>>
        /\ char \in {StartSymbol, EndSymbol} => noise \in {0, 1, 255}
        /\ MCSendBody(char, noise)
    \/ \E story \in MCStories : SendStory(story)
    \/ \E c \in MCCrcChar \cup {EndSymbol} :
        /\ \/ errors = {}
           \/ c \in 48..70 /\ IsSentDigit(c)
           \/ c = EndSymbol /\ BehindLostEnd
        /\ SendDigit(c)

MCSpec == Init /\ [][MCNext]_vars
===============================================================================
