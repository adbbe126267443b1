------------------------------- MODULE DlmsMeter -------------------------------
(***************************************************************************)
(* The meter at the other end of a DlmsPacketDecryptor: how it seals a     *)
(* telegram in a packet, and what it may expect of the client that has its *)
(* keys.                                                                   *)
(***************************************************************************)
EXTENDS DlmsPacketDecryptor

CONSTANTS
    Message,                    \* what the meter sends
    Text(_), Crc(_),            \* the telegram of a message and its CRC
    MeterNonce(_),              \* its system title and invocation counter
    MeterKey, MeterAuthKey

CrLf == <<13, 10>>

Plain(m) == Text(m) \o Crc(m) \o CrLf

Cipher(m) == Crypt(MeterKey, MeterNonce(m), Plain(m))

MeterTag(m) == TagOf(MeterKey, MeterNonce(m), MeterAuthKey, Cipher(m))

\* A telegram begins with '/' and ends with its only '!'.
IsText(text) ==
    /\ text \in Seq(Byte)
    /\ Len(text) > 1
    /\ text[1] = StartSymbol
    /\ text[Len(text)] = EndSymbol
    /\ \A i \in 1..(Len(text) - 1) : text[i] # EndSymbol

\* The meter and the client agree on the CRC and on AES-GCM.
ASSUME MeterAssumption ==
    /\ nullopt \notin Key \cup AuthKey
    /\ MeterKey \in Key /\ MeterAuthKey \in AuthKey
    /\ \A m \in Message :
        /\ IsText(Text(m))
        /\ Crc(m) \in Seq(Byte) /\ Len(Crc(m)) = CrcLength
        /\ CrcMatches(Text(m), Crc(m))
        /\ MeterNonce(m) \in Seq(Byte) /\ Len(MeterNonce(m)) = 12
        /\ Cipher(m) \in Seq(Byte) /\ Len(Cipher(m)) = Len(Plain(m))
        /\ Crypt(MeterKey, MeterNonce(m), Cipher(m)) = Plain(m)
        /\ MeterTag(m) \in Seq(Byte) /\ Len(MeterTag(m)) = TagLength

\* The header of a packet, and the length in it: what follows that length.
Header(n, total) ==
    <<219, 8>> \o SubSeq(n, 1, 8) \o <<130, total \div 256, total % 256, 48>>
        \o SubSeq(n, 9, 12)

Sealed(m) == Header(MeterNonce(m), 5 + Len(Cipher(m)) + TagLength) \o Cipher(m) \o MeterTag(m)

\* The longest telegram with a length of 16 bits, and the shortest that is taken.
FitsPacket(m) == Len(Plain(m)) >= 10 /\ Len(Plain(m)) + 17 <= 65535

-------------------------------------------------------------------------------
(* Properties *)

\* With an authentication key or the CRC check, every telegram returned is the
\* text of one the meter sent, up to its CRC: nothing that was changed, cut,
\* merged, or deciphered with another key gets through, and calling again on the
\* same memory does not change that.
OnlyGenuineIsReturned ==
    telegram # nullopt /\ (aad # nullopt \/ check_crc) =>
        \E m \in Message :
            full_content(encrypted_telegram(bytes), telegram) = Text(m) \o Crc(m)

\* An intact packet is deciphered and returned by the first call, if the keys are
\* the meter's: with or without an authentication key, with or without CRC check.
IntactIsReturned ==
    \A m \in Message :
        /\ received = Sealed(m) /\ calls = 1
        /\ key = MeterKey /\ aad \in {nullopt, MeterAuthKey}
        /\ FitsPacket(m)
        => /\ telegram # nullopt
           /\ full_content(encrypted_telegram(bytes), telegram) = Text(m) \o Crc(m)
           /\ content_without_crc(encrypted_telegram(bytes), telegram) = Text(m)
===============================================================================
