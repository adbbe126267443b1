------------------------------- MODULE Telegram -------------------------------
(***************************************************************************)
(* DsmrUnencryptedTelegram (util.h): how a byte string is recognised as a  *)
(* telegram.  A telegram is a string_view into memory it does not own, so  *)
(* it is modelled as what the view adds to those bytes: how many leading   *)
(* bytes it spans, and whether the last four of them are the CRC.          *)
(* Positions are 1-based, as sequences are; the code counts from 0.        *)
(***************************************************************************)
EXTENDS Integers, Sequences

CONSTANTS
    Byte,               \* the values of a uint8_t that the model tells apart
    StartSymbol,        \* '/'
    EndSymbol,          \* '!'
    nullopt,            \* the empty std::optional
    CrcMatches(_, _)    \* CrcMatches(body, crc): to_crc(crc) has a value and
                        \* it equals calculate_crc16(body)

CrcLength == 4

\* What a DsmrUnencryptedTelegram remembers about the bytes it was made from.
View == [size : Nat, has_crc_suffix : BOOLEAN]

ASSUME SymbolsAssumption ==
    /\ StartSymbol \in Byte
    /\ EndSymbol \in Byte
    /\ StartSymbol # EndSymbol

ASSUME NulloptAssumption == nullopt \notin View

StartsWithSlash(bytes) == Len(bytes) > 0 /\ bytes[1] = StartSymbol

EndPositions(bytes) == {i \in 1..Len(bytes) : bytes[i] = EndSymbol}

\* std::string_view::find('!'), where it finds something.
FindEnd(bytes) ==
    CHOOSE e \in EndPositions(bytes) : \A i \in EndPositions(bytes) : e <= i

\* Mutant: the CRC only counts if a byte follows it.
HasCrcSuffixStrict(bytes) == FindEnd(bytes) + CrcLength < Len(bytes)

HasCrcSuffix(bytes) == FindEnd(bytes) + CrcLength <= Len(bytes)

CrcVerified(bytes) ==
    LET e == FindEnd(bytes)
    IN  CrcMatches(SubSeq(bytes, 1, e), SubSeq(bytes, e + 1, e + CrcLength))

\* Mutant: a telegram without a CRC is forgotten.
from_bytes_with_crc(bytes, crc_check) ==
    IF /\ StartsWithSlash(bytes)
       /\ EndPositions(bytes) # {}
       /\ crc_check => HasCrcSuffix(bytes) /\ CrcVerified(bytes)
    THEN [size |-> FindEnd(bytes) + CrcLength, has_crc_suffix |-> TRUE]
    ELSE nullopt

\* The telegram at the start of bytes, or nullopt.  What follows its last
\* byte is ignored.
from_bytes(bytes, crc_check) ==
    IF /\ StartsWithSlash(bytes)
       /\ EndPositions(bytes) # {}
       /\ crc_check => HasCrcSuffix(bytes) /\ CrcVerified(bytes)
    THEN [size |-> FindEnd(bytes) + (IF HasCrcSuffix(bytes) THEN CrcLength ELSE 0),
          has_crc_suffix |-> HasCrcSuffix(bytes)]
    ELSE nullopt

full_content(bytes, view) == SubSeq(bytes, 1, view.size)

content_without_crc(bytes, view) ==
    SubSeq(bytes, 1, IF view.has_crc_suffix THEN view.size - CrcLength ELSE view.size)
===============================================================================
