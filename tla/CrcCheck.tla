------------------------------- MODULE CrcCheck -------------------------------
(***************************************************************************)
(* The CRC of a telegram (util.h): calculate_crc16 over the body, to_crc   *)
(* over the four characters after it, and the comparison in from_bytes,    *)
(* at the receiving end of a line that may change characters.              *)
(*                                                                         *)
(* A meter sends a telegram; from_bytes is given all that arrives of it,   *)
(* and nothing after.  Each end has a place of its own in it: the meter    *)
(* knows where its body ends, from_bytes goes by the first '!' it finds.   *)
(*                                                                         *)
(* An unsigned integer is the set of its one bits: XOR is the symmetric    *)
(* difference and a shift moves the members.                               *)
(***************************************************************************)
EXTENDS Integers, Sequences, FiniteSets

CONSTANT nullopt    \* the empty std::optional

Char == 0..255      \* what a meter sends and the line delivers, as codes

StartSymbol == 47   \* '/'
EndSymbol == 33     \* '!'

Word == SUBSET (0..15)      \* uint16_t

ASSUME NulloptAssumption == \A w \in Word : nullopt # w

Xor(x, y) == (x \ y) \cup (y \ x)

\* The bits of a number below 16.
BitsOf(n) == {i \in 0..3 : (n \div 2^i) % 2 = 1}

\* static_cast<uint8_t>(c)
Bits(c) == BitsOf(c % 16) \cup {i + 4 : i \in BitsOf(c \div 16)}

-------------------------------------------------------------------------------
(* calculate_crc16 *)

\* Mutant: the wrong direction.
ShiftLeft(x) == {i + 1 : i \in x}

ShiftRight(x) == {i \in 0..14 : i + 1 \in x}

\* Mutant: the polynomial is not reflected.
PolynomialAsWritten == {0, 2, 15}

Polynomial == {0, 13, 15}   \* 0xa001

\* Mutant: the polynomial is forgotten.
BitStepShiftOnly(crc) == ShiftRight(crc)

\* One turn of the inner loop.
BitStep(crc) ==
    IF 0 \in crc THEN Xor(ShiftRight(crc), Polynomial) ELSE ShiftRight(crc)

\* Mutant: the byte is ORed in.
ByteStepOr(crc, byte) ==
    BitStep(BitStep(BitStep(BitStep(BitStep(BitStep(BitStep(BitStep(
        crc \cup byte))))))))

\* One turn of the outer loop: XOR a byte in, then the inner loop eight times.
ByteStep(crc, byte) ==
    BitStep(BitStep(BitStep(BitStep(BitStep(BitStep(BitStep(BitStep(
        Xor(crc, byte)))))))))

-------------------------------------------------------------------------------
(* to_crc *)

\* Mutants: lower case is refused; the range of the digits is one too long.
IsUpperHexDigit(c) == c \in (48..57) \cup (65..70)
IsHexDigitOrColon(c) == c \in (48..58) \cup (65..70) \cup (97..102)

IsHexDigit(c) == c \in (48..57) \cup (65..70) \cup (97..102)

\* The value of a hexadecimal digit of either case, from its char code.
HexValue(c) ==
    IF c <= 57 THEN c - 48 ELSE IF c <= 70 THEN c - 65 + 10 ELSE c - 97 + 10

\* One turn of the loop: nullopt stands for the early return.
DigitStep(crc, c) ==
    IF crc = nullopt \/ ~IsHexDigit(c)
    THEN nullopt
    ELSE {i + 4 : i \in crc \cap (0..11)} \cup BitsOf(HexValue(c))

-------------------------------------------------------------------------------
VARIABLES
    (* the meter *)
    sent_crc,       \* its CRC register
    sent_digits,    \* CRC characters sent; -1 while the body is
    (* from_bytes *)
    crc,            \* the local of calculate_crc16
    parsed,         \* the local of to_crc; nullopt once it has returned nullopt
    digits,         \* characters read of the four after '!'; -1 before it is found
    (* history *)
    sent, received, \* the body as sent, and as from_bytes takes it up to end_pos
    errors          \* positions of the characters the line changed

vars == <<sent_crc, sent_digits, crc, parsed, digits, sent, received, errors>>

Init ==
    /\ sent_crc = {}
    /\ sent_digits = -1
    /\ crc = {}
    /\ parsed = {}
    /\ digits = -1
    /\ sent = <<>>
    /\ received = <<>>
    /\ errors = {}

\* find('!') has not found the end yet: c belongs to the body.
TakeBody(c) ==
    /\ digits = -1
    /\ crc' = ByteStep(crc, Bits(c))
    /\ received' = Append(received, Bits(c))
    /\ digits' = IF c = EndSymbol THEN 0 ELSE -1
    /\ UNCHANGED parsed

\* c is one of the four characters after the '!' that was found.
TakeDigit(c) ==
    /\ digits \in 0..3
    /\ parsed' = DigitStep(parsed, c)
    /\ digits' = digits + 1
    /\ UNCHANGED <<crc, received>>

\* What follows these four is not looked at.
TakeRest == digits = 4 /\ UNCHANGED <<crc, parsed, digits, received>>

Take(c) == TakeBody(c) \/ TakeDigit(c) \/ TakeRest

\* The meter sends a character of the body, c arrives.  A body begins with '/' and
\* has its only '!' at its end.
SendBody(char, c) ==
    /\ sent_digits = -1
    /\ sent = <<>> => char = StartSymbol
    /\ sent_crc' = ByteStep(sent_crc, Bits(char))
    /\ sent' = Append(sent, Bits(char))
    /\ sent_digits' = IF char = EndSymbol THEN 0 ELSE -1
    /\ errors' = IF c = char THEN errors ELSE errors \cup {Len(sent) + 1}
    /\ Take(c)

\* The digit the meter sends next, most significant first.
SentDigit == {i \in 0..3 : i + 4 * (3 - sent_digits) \in sent_crc}

\* The two ways to write it.
HexCodes(d) == IF d < 10 THEN {48 + d} ELSE {55 + d, 87 + d}

IsSentDigit(c) == \E d \in 0..15 : BitsOf(d) = SentDigit /\ c \in HexCodes(d)

\* The meter sends a character of the CRC.  What arrives is that digit, in either
\* case, or has been changed.
SendDigit(c) ==
    /\ sent_digits \in 0..3
    /\ sent_digits' = sent_digits + 1
    /\ errors' = IF IsSentDigit(c)
                 THEN errors
                 ELSE errors \cup {Len(sent) + sent_digits + 1}
    /\ Take(c)
    /\ UNCHANGED <<sent_crc, sent>>

Next ==
    \/ \E char, c \in Char : SendBody(char, c)
    \/ \E c \in Char : SendDigit(c)

Spec == Init /\ [][Next]_vars

\* from_bytes(telegram, true) accepts what it was given.
Accepted ==
    /\ digits = 4
    /\ received[1] = Bits(StartSymbol)
    /\ parsed # nullopt /\ parsed = crc

-------------------------------------------------------------------------------
(* A reference for the CRC, which shares nothing with the loops of the code: the *)
(* remainder of a division of polynomials over GF(2), each the set of its powers. *)

Generator == {16, 15, 2, 0}     \* of CRC-16/ARC

\* p less a multiple of the generator, so that its power top is gone.
Subtracted(p, top) ==
    IF top \in p THEN Xor(p, {top - 16 + g : g \in Generator}) ELSE p

\* The remainder of p, a polynomial of powers below n + 16.
Remainder(p, n) ==
    LET left[k \in 0..n] ==
            IF k = 0 THEN p ELSE Subtracted(left[k - 1], n + 16 - k)
    IN  left[n]

\* The bits of a body in the order in which they are on the line.
LineBits(body) == UNION {{8 * (k - 1) + i : i \in body[k]} : k \in DOMAIN body}

\* The first bit on the line is the highest power; the message is multiplied by x^16.
MessagePolynomial(body) == {8 * Len(body) + 15 - b : b \in LineBits(body)}

\* The register has the highest power in its low bit.
ReferenceCrc(body) ==
    {15 - i : i \in Remainder(MessagePolynomial(body), 8 * Len(body))}

-------------------------------------------------------------------------------
(* Properties *)

TypeOK ==
    /\ {sent_crc, crc} \subseteq Word
    /\ parsed = nullopt \/ parsed \in Word
    /\ {sent_digits, digits} \subseteq -1..4
    /\ {sent, received} \subseteq Seq(SUBSET (0..7))
    /\ errors \subseteq Nat

\* A telegram that arrives as it was sent is accepted, whichever case the meter
\* writes the hexadecimal digits in.
IntactIsAccepted == sent_digits = 4 /\ errors = {} => Accepted

\* calculate_crc16 computes CRC-16/ARC of what from_bytes takes for the body.
IsReferenceCrc == crc = ReferenceCrc(received)

InBody == errors \cap (1..Len(sent))

\* A character before the meter's '!' has become one: from_bytes takes the body to
\* end there, and the four characters after it for the CRC.
EndedEarly == Len(received) < Len(sent)

\* The bits of the body that the line changed, unless EndedEarly.
Flipped == Xor(LineBits(sent), LineBits(received))

IsBurst(bits) == \E first \in bits : bits \subseteq first..(first + 15)

\* A telegram of any length is rejected if the line changed its '/'.  Unless a '!' is
\* made before its own, it is rejected if the line changed that '!'; or one character
\* of its CRC; or, in its body, bits that are no more than 16 apart, as in one byte or
\* two neighbours, or any odd number of bits.
ErrorIsDetected ==
    /\ sent_digits = 4
    /\ \/ 1 \in errors
       \/ /\ ~EndedEarly
          /\ \/ Len(sent) \in errors
             \/ InBody = {} /\ \E i \in errors : errors = {i}
             \/ errors = InBody /\ (IsBurst(Flipped) \/ Cardinality(Flipped) % 2 = 1)
    => ~Accepted

\* While both ends have taken the same number of bytes for the body, their registers
\* agree until the first that was changed, and after exactly one they differ for
\* good: no later byte can hide it.
OneChangeIsNeverMasked ==
    Len(received) = Len(sent) =>
        /\ InBody = {} => crc = sent_crc
        /\ (\E i \in InBody : InBody = {i}) => crc # sent_crc

-------------------------------------------------------------------------------
(* The inductive invariant of the proofs, checked by TLC first *)

\* CRC characters sent, and read; 0 while the body is.
Sent == IF sent_digits > 0 THEN sent_digits ELSE 0
Read == IF digits > 0 THEN digits ELSE 0

ChangedPositions == errors \subseteq 1..(Len(sent) + Sent)

\* from_bytes sees the start as the meter sent it, or changed.
StartSeen == received # <<>> => (received[1] = Bits(StartSymbol) <=> 1 \notin errors)

\* Where from_bytes is, compared with the meter: at the same place; past an end that
\* it found too early; or behind the meter, whose end it missed.
InStep ==
    /\ digits = sent_digits
    /\ Len(received) = Len(sent)
    /\ digits >= 0 => Len(sent) \notin errors

PastFalseEnd ==
    /\ digits >= 0
    /\ Len(received) <= Len(sent) /\ Len(received) \in errors
    /\ sent_digits >= 0 => EndedEarly

BehindLostEnd ==
    /\ sent_digits > digits
    /\ Len(received) + Read = Len(sent) + Sent
    /\ sent_digits >= 0 /\ Len(sent) \in errors

Places ==
    /\ received = <<>> <=> sent = <<>>
    /\ sent_digits >= 0 => sent # <<>>
    /\ digits >= 0 => received # <<>>
    /\ InStep \/ PastFalseEnd \/ BehindLostEnd

\* A hexadecimal digit of a register, numbered from the least significant one.
Nibble(w, k) == {i \in 0..3 : i + 4 * k \in w}

\* In step with the meter, to_crc holds the digits read so far, each the meter's
\* unless the line changed its character; and it gives up only over a character that
\* was changed.
DigitsRead ==
    InStep =>
        /\ parsed # nullopt =>
            /\ parsed \subseteq 0..(4 * Read - 1)
            /\ \A k \in 0..(Read - 1) :
                Len(sent) + k + 1 \in errors
                    <=> Nibble(parsed, Read - 1 - k) # Nibble(sent_crc, 3 - k)
        /\ parsed = nullopt => \E k \in 0..(Read - 1) : Len(sent) + k + 1 \in errors

IInv ==
    /\ TypeOK
    /\ ChangedPositions
    /\ StartSeen
    /\ Places
    /\ OneChangeIsNeverMasked
    /\ IsReferenceCrc /\ sent_crc = ReferenceCrc(sent)
    /\ DigitsRead
===============================================================================
