-------------------------- MODULE DlmsPacketDecryptor --------------------------
(***************************************************************************)
(* DlmsPacketDecryptor (dlms_packet_decryptor.h): a DLMS packet in the     *)
(* memory of the client is checked, deciphered in place by the decryptor   *)
(* behind the Aes128GcmDecryptor interface, and recognised as a telegram.  *)
(* A packet is                                                             *)
(*     header (18 bytes) | encrypted telegram | GCM tag (12 bytes).        *)
(***************************************************************************)
EXTENDS Telegram

CONSTANTS
    Key, AuthKey,
    Crypt(_, _, _), TagOf(_, _, _, _),  \* AES-GCM on byte strings
    LibraryFails,
    SizeT,          \* 2^w, for a size_t of w bits
    Received        \* byte strings the client may have in its memory

ASSUME ByteAssumption == Byte = 0..255

\* No sum of a 16-bit length and the other parts of a packet wraps.
ASSUME SizeAssumption == SizeT \in Nat /\ SizeT > 65535 + 30

ASSUME ReceivedAssumption == \A b \in Received : b \in Seq(Byte) /\ Len(b) < SizeT

VARIABLES
    bytes,          \* dlms_packet_bytes
    key, aad,       \* state of the decryptor
    check_crc,
    res,            \* what its decrypt_inplace returned
    telegram,       \* what decrypt_inplace returned: a view of the deciphered bytes
    received,       \* history: bytes as they were received
    calls           \* history: calls of decrypt_inplace since; 2 stands for more

config == <<key, aad, check_crc>>
history == <<received, calls>>
vars == <<bytes, config, res, telegram, history>>

-------------------------------------------------------------------------------
(* DlmsPacket *)

HeaderLength == 18
TagLength == 12

size(n) == n % SizeT

\* The length in the header counts the security control field, the invocation
\* counter and the tag; if it is less than their 17 bytes this wraps.
telegram_length(p) == size((p[12] * 256 + p[13]) - 5 - 12)

encrypted_telegram(p) == SubSeq(p, HeaderLength + 1, HeaderLength + telegram_length(p))

gcm_tag(p) ==
    SubSeq(p, HeaderLength + telegram_length(p) + 1,
              HeaderLength + telegram_length(p) + TagLength)

\* Mutant: the invocation counter is turned round like the length.
NonceTurned(p) == SubSeq(p, 3, 10) \o <<p[18], p[17], p[16], p[15]>>

nonce(p) == SubSeq(p, 3, 10) \o SubSeq(p, 15, 18)

header_bytes_consistent(p) ==
    /\ p[1] = 219       \* 0xDB
    /\ p[2] = 8
    /\ p[11] = 130      \* 0x82
    /\ p[14] = 48       \* 0x30, security_control_field

expected_length(p) == size(HeaderLength + TagLength + telegram_length(p))

\* Mutant: the header is all a packet must have.
IsPacketIfHeader(p) ==
    /\ Len(p) >= HeaderLength
    /\ expected_length(p) = Len(p)
    /\ telegram_length(p) >= 10
    /\ header_bytes_consistent(p)

\* DlmsPacket::from_bytes does not return nullptr.
IsPacket(p) ==
    /\ Len(p) >= HeaderLength + TagLength
    /\ expected_length(p) = Len(p)
    /\ telegram_length(p) >= 10
    /\ header_bytes_consistent(p)

\* The bytes of p with its encrypted telegram replaced.
Overwritten(p, c) ==
    [i \in DOMAIN p |-> IF i - HeaderLength \in DOMAIN c THEN c[i - HeaderLength] ELSE p[i]]

-------------------------------------------------------------------------------
Gcm == INSTANCE Aes128Gcm WITH
    Nonce <- Seq(Byte), Tag <- Seq(Byte), Content <- Seq(Byte), Packet <- {},
    content <- encrypted_telegram(bytes), result <- res, alive <- TRUE

\* What the libraries may leave of an encrypted telegram: they do not touch it,
\* wipe it or decipher it.  The contract allows anything.
Leftovers ==
    LET c == encrypted_telegram(bytes)
    IN  {c, [i \in DOMAIN c |-> 0]}
            \cup (IF key = nullopt THEN {} ELSE {Crypt(key, nonce(bytes), c)})

\* The client has set the keys it wants, and received something.
Init ==
    /\ bytes \in Received
    /\ key \in Key \cup {nullopt}
    /\ aad \in AuthKey \cup {nullopt}
    /\ check_crc \in BOOLEAN
    /\ res = FALSE
    /\ telegram = nullopt
    /\ received = bytes
    /\ calls = 0

Called ==
    /\ calls' = IF calls < 2 THEN calls + 1 ELSE 2
    /\ UNCHANGED <<received, check_crc>>

RejectPacket ==
    /\ ~IsPacket(bytes)
    /\ telegram' = nullopt
    /\ Called
    /\ UNCHANGED <<bytes, key, aad, res>>

FailToDecipher ==
    /\ IsPacket(bytes)
    /\ \E c \in Leftovers :
        /\ bytes' = Overwritten(bytes, c)
        /\ Gcm!Fail(nonce(bytes), gcm_tag(bytes))
    /\ telegram' = nullopt
    /\ Called

\* Mutants: the telegram's CRC is not checked; the tag is written over.
DecipherUnchecked ==
    /\ IsPacket(bytes)
    /\ \E c \in Leftovers :
        /\ bytes' = Overwritten(bytes, c)
        /\ Gcm!Succeed(nonce(bytes), gcm_tag(bytes))
    /\ telegram' = from_bytes(encrypted_telegram(bytes'), FALSE)
    /\ Called

DecipherTag ==
    /\ IsPacket(bytes)
    /\ \E c \in Leftovers :
        /\ bytes' = Overwritten(bytes, c \o [i \in 1..TagLength |-> 0])
        /\ Gcm!Succeed(nonce(bytes), gcm_tag(bytes))
    /\ telegram' = from_bytes(encrypted_telegram(bytes'), check_crc)
    /\ Called

Decipher ==
    /\ IsPacket(bytes)
    /\ \E c \in Leftovers :
        /\ bytes' = Overwritten(bytes, c)
        /\ Gcm!Succeed(nonce(bytes), gcm_tag(bytes))
    /\ telegram' = from_bytes(encrypted_telegram(bytes'), check_crc)
    /\ Called

decrypt_inplace ==
    \/ RejectPacket
    \/ FailToDecipher
    \/ Decipher

\* The client may call it again on the same memory.
Next == decrypt_inplace

Spec == Init /\ [][Next]_vars

-------------------------------------------------------------------------------
(* Properties *)

\* The memory keeps its length, and a telegram that is returned lies in the part of it
\* that was deciphered, with the CRC it is said to end in.
TypeOK ==
    /\ bytes \in Seq(Byte)
    /\ Len(bytes) = Len(received)
    /\ key \in Key \cup {nullopt}
    /\ aad \in AuthKey \cup {nullopt}
    /\ check_crc \in BOOLEAN
    /\ res \in BOOLEAN
    /\ telegram \in View \cup {nullopt}
    /\ telegram # nullopt => telegram.size <= telegram_length(bytes)
    /\ received \in Seq(Byte)
    /\ calls \in 0..2

\* The spans handed to the decryptor lie in the memory and are all of it: no
\* length in a header, however small, makes the wrapped telegram_length pass the
\* checks of from_bytes.
SpansInBounds ==
    IsPacket(bytes) =>
        /\ Len(bytes) = HeaderLength + telegram_length(bytes) + TagLength
        /\ Len(encrypted_telegram(bytes)) = telegram_length(bytes)
        /\ Len(gcm_tag(bytes)) = TagLength

\* Decryption writes over the encrypted telegram of a packet and nothing else:
\* not the header or the tag, and no byte of what is not a packet.
OnlyTelegramIsWritten ==
    \A i \in DOMAIN received : bytes[i] # received[i] =>
        /\ IsPacket(received)
        /\ i \in (HeaderLength + 1)..(HeaderLength + telegram_length(received))
===============================================================================
