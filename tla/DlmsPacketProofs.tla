--------------------------- MODULE DlmsPacketProofs ----------------------------
(***************************************************************************)
(* What DlmsPacketDecryptor reads and writes, for every packet, every      *)
(* cipher that keeps the length of a telegram, and every width of size_t   *)
(* above 16 bits: the lengths in a header cannot lead it out of the        *)
(* client's memory, however often it is called on it.                      *)
(***************************************************************************)
EXTENDS DlmsMeter, SequenceTheorems, WellFoundedInduction, TLAPS

\* A size_t keeps what fits, and adds 2^w to what is negative.
LEMMA SizeOfNat ==
    ASSUME NEW n \in Int, 0 <= n, n < SizeT
    PROVE  size(n) = n
BY SizeAssumption DEF size

LEMMA SizeOfNegative ==
    ASSUME NEW n \in Int, -SizeT <= n, n < 0
    PROVE  size(n) = n + SizeT
BY SizeAssumption DEF size

LEMMA SizeOfSum ==
    ASSUME NEW n \in Int, SizeT <= n, n < 2 * SizeT
    PROVE  size(n) = n - SizeT
BY SizeAssumption DEF size

-------------------------------------------------------------------------------
(* One packet *)

\* total_length_big_endian
Total(p) == p[12] * 256 + p[13]

\* The bytes of a length are bytes.  (The lemmas on numbers do not say that p is
\* a sequence: the provers are better at arithmetic without it.)
HasLength(p) == p[12] \in Byte /\ p[13] \in Byte

LEMMA TotalIsShort ==
    ASSUME NEW p, HasLength(p)
    PROVE  Total(p) \in Int /\ 0 <= Total(p) /\ Total(p) <= 65535
<1>1. /\ p[12] \in Int /\ 0 <= p[12] /\ p[12] <= 255
      /\ p[13] \in Int /\ 0 <= p[13] /\ p[13] <= 255
  BY ByteAssumption DEF HasLength
<1> QED
  BY <1>1 DEF Total

\* The two wrapped lengths, as functions of the length in the header.
LEMMA WrappedLength ==
    ASSUME NEW t \in Int, 0 <= t, t <= 65535
    PROVE  /\ size(t - 5 - 12) \in Nat
           /\ t >= 17 => size(t - 5 - 12) = t - 17
           /\ size(30 + size(t - 5 - 12)) = t + 13
<1>1. t - 5 - 12 = t - 17
  OBVIOUS
<1>2. CASE t >= 17
  <2>1. size(t - 17) = t - 17
    BY <1>2, SizeOfNat, SizeAssumption
  <2>2. size(t + 13) = t + 13
    BY <1>2, SizeOfNat, SizeAssumption
  <2>3. 30 + (t - 17) = t + 13
    OBVIOUS
  <2> QED
    BY <1>1, <1>2, <2>1, <2>2, <2>3
<1>3. CASE ~(t >= 17)
  <2>1. size(t - 17) = t - 17 + SizeT
    BY <1>3, SizeOfNegative, SizeAssumption
  <2>2. size(t + 13 + SizeT) = t + 13
    BY <1>3, SizeOfSum, SizeAssumption
  <2>3. 30 + (t - 17 + SizeT) = t + 13 + SizeT /\ t - 17 + SizeT \in Nat
    BY SizeAssumption
  <2> QED
    BY <1>1, <1>3, <2>1, <2>2, <2>3
<1> QED
  BY <1>2, <1>3

\* Either the length in the header is at least 17 and nothing wraps, or both
\* telegram_length and expected_length do.
LEMMA LengthCases ==
    ASSUME NEW p, HasLength(p)
    PROVE  /\ telegram_length(p) \in Nat
           /\ Total(p) >= 17 => telegram_length(p) = Total(p) - 17
           /\ expected_length(p) = Total(p) + 13
<1>1. telegram_length(p) = size(Total(p) - 5 - 12)
  BY Zenon DEF telegram_length, Total
<1>2. expected_length(p) = size(HeaderLength + TagLength + telegram_length(p))
  BY Zenon DEF expected_length
<1>3. HeaderLength + TagLength = 30
  BY DEF HeaderLength, TagLength
<1>4. /\ size(Total(p) - 5 - 12) \in Nat
      /\ Total(p) >= 17 => size(Total(p) - 5 - 12) = Total(p) - 17
      /\ size(30 + size(Total(p) - 5 - 12)) = Total(p) + 13
  BY TotalIsShort, WrappedLength
<1> QED
  BY <1>1, <1>2, <1>3, <1>4, Zenon

\* A packet that from_bytes accepts is its three parts, without a gap.
HasParts(p) ==
    /\ telegram_length(p) \in Nat
    /\ Len(p) = HeaderLength + telegram_length(p) + TagLength

LEMMA LengthDecides ==
    ASSUME NEW p, HasLength(p), Len(p) \in Nat, Len(p) >= 30,
           expected_length(p) = Len(p)
    PROVE  HasParts(p)
<1>1. Total(p) \in Int /\ 0 <= Total(p) /\ Total(p) <= 65535
  BY TotalIsShort
<1>2. /\ telegram_length(p) \in Nat
      /\ Total(p) >= 17 => telegram_length(p) = Total(p) - 17
      /\ Len(p) = Total(p) + 13
  BY LengthCases
<1>3. Len(p) = 18 + telegram_length(p) + 12
  BY <1>1, <1>2
<1> QED
  BY <1>2, <1>3 DEF HasParts, HeaderLength, TagLength

LEMMA PacketParts ==
    ASSUME NEW p \in Seq(Byte), IsPacket(p)
    PROVE  HasParts(p)
<1>1. Len(p) \in Nat /\ Len(p) >= 30
  BY DEF IsPacket, HeaderLength, TagLength
<1>2. HasLength(p)
  BY <1>1 DEF HasLength
<1>3. expected_length(p) = Len(p)
  BY Zenon DEF IsPacket
<1> QED
  BY <1>1, <1>2, <1>3, LengthDecides, Zenon

\* The two spans are where the packet has them.
LEMMA SpansOfPacket ==
    ASSUME NEW p \in Seq(Byte), IsPacket(p)
    PROVE  /\ encrypted_telegram(p) \in Seq(Byte)
           /\ Len(encrypted_telegram(p)) = telegram_length(p)
           /\ Len(gcm_tag(p)) = TagLength
<1>1. /\ telegram_length(p) \in Nat
      /\ Len(p) = HeaderLength + telegram_length(p) + TagLength
  BY PacketParts, Zenon DEF HasParts
<1> QED
  BY <1>1 DEF encrypted_telegram, gcm_tag, HeaderLength, TagLength

\* What IsPacket and telegram_length depend on.
LEMMA HeaderDecides ==
    ASSUME NEW p \in Seq(Byte), NEW q \in Seq(Byte), Len(p) = Len(q),
           Len(p) >= HeaderLength => \A i \in 1..HeaderLength : p[i] = q[i]
    PROVE  /\ IsPacket(p) <=> IsPacket(q)
           /\ IsPacket(p) => telegram_length(p) = telegram_length(q)
<1>1. CASE Len(p) >= HeaderLength
  <2>1. /\ p[1] = q[1] /\ p[2] = q[2] /\ p[11] = q[11]
        /\ p[12] = q[12] /\ p[13] = q[13] /\ p[14] = q[14]
    BY <1>1 DEF HeaderLength
  <2>2. telegram_length(p) = telegram_length(q)
    BY <2>1 DEF telegram_length
  <2>3. expected_length(p) = expected_length(q)
    BY <2>2 DEF expected_length
  <2> QED
    BY <2>1, <2>2, <2>3 DEF IsPacket, header_bytes_consistent
<1>2. CASE ~(Len(p) >= HeaderLength)
  BY <1>2 DEF IsPacket, HeaderLength, TagLength
<1> QED
  BY <1>1, <1>2

-------------------------------------------------------------------------------
(* Recognising a telegram *)

\* A set of natural numbers has a least element.
LEMMA LeastElement ==
    ASSUME NEW T, T \subseteq Nat, T # {}
    PROVE  \E x \in T : \A y \in T : x <= y
<1> DEFINE R == OpToRel(<, Nat)
<1>1. \E x \in T : \A y \in T : ~(<<y, x>> \in R)
  BY NatLessThanWellFounded, WFMin, Zenon
<1>2. \A x, y \in Nat : y < x => <<y, x>> \in R
  BY Zenon DEF OpToRel
<1>3. \A x, y \in Nat : ~(y < x) => x <= y
  OBVIOUS
<1> QED
  BY <1>1, <1>2, <1>3

\* find('!') returns the first place there is.
LEMMA FindEndFinds ==
    ASSUME NEW s \in Seq(Byte), EndPositions(s) # {}
    PROVE  /\ FindEnd(s) \in EndPositions(s)
           /\ \A i \in EndPositions(s) : FindEnd(s) <= i
           /\ EndPositions(s) \subseteq 1..Len(s)
<1>1. EndPositions(s) \subseteq 1..Len(s)
  BY DEF EndPositions
<1>2. EndPositions(s) \subseteq Nat
  BY <1>1
<1>3. \E e \in EndPositions(s) : \A i \in EndPositions(s) : e <= i
  BY <1>2, LeastElement
<1> QED
  BY <1>1, <1>3, Zenon DEF FindEnd

\* A telegram that is recognised lies in the bytes it was found in.
LEMMA FromBytesStays ==
    ASSUME NEW s \in Seq(Byte), NEW crc, from_bytes(s, crc) # nullopt
    PROVE  from_bytes(s, crc) \in View /\ from_bytes(s, crc).size <= Len(s)
<1>1. /\ EndPositions(s) # {}
      /\ from_bytes(s, crc)
            = [size |-> FindEnd(s) + (IF HasCrcSuffix(s) THEN CrcLength ELSE 0),
               has_crc_suffix |-> HasCrcSuffix(s)]
  BY DEF from_bytes
<1>2. FindEnd(s) \in 1..Len(s) /\ Len(s) \in Nat
  BY <1>1, FindEndFinds
<1>3. HasCrcSuffix(s) \in BOOLEAN
  BY SMT DEF HasCrcSuffix
<1>4. HasCrcSuffix(s) => FindEnd(s) + 4 <= Len(s)
  BY DEF HasCrcSuffix, CrcLength
<1> DEFINE n == FindEnd(s) + (IF HasCrcSuffix(s) THEN CrcLength ELSE 0)
<1>5. n \in Nat /\ n <= Len(s)
  BY <1>2, <1>4 DEF CrcLength
<1> HIDE DEF n
<1>6. from_bytes(s, crc) = [size |-> n, has_crc_suffix |-> HasCrcSuffix(s)]
  BY <1>1, Zenon DEF n
<1>7. from_bytes(s, crc).size = n
  BY <1>6
<1> QED
  BY <1>3, <1>5, <1>6, <1>7 DEF View

-------------------------------------------------------------------------------
(* Calls of decrypt_inplace *)

\* AES-GCM keeps the length of a telegram.
CryptKeepsLength ==
    \A k \in Key, n \in Seq(Byte), c \in Seq(Byte) :
        Crypt(k, n, c) \in Seq(Byte) /\ Len(Crypt(k, n, c)) = Len(c)

\* What is returned has passed the checks there are: of its packet, of the tag if
\* there is an authentication key, and of the CRC if it is asked for; and it lies
\* in what was deciphered.
ReturnedIsChecked ==
    telegram # nullopt =>
        /\ IsPacket(bytes)
        /\ telegram = from_bytes(encrypted_telegram(bytes), check_crc)
        /\ telegram.size <= telegram_length(bytes)
        /\ key # nullopt
        /\ \E c \in Seq(Byte) :
            /\ encrypted_telegram(bytes) = Crypt(key, nonce(bytes), c)
            /\ aad # nullopt => gcm_tag(bytes) = TagOf(key, nonce(bytes), aad, c)

\* The memory is the packet that was received, apart from its telegram; so its
\* header still says where the telegram is.
IInv ==
    /\ TypeOK
    /\ OnlyTelegramIsWritten
    /\ ReturnedIsChecked

\* What the decryptor leaves of an encrypted telegram is as long as it was.
LEMMA LeftoversFit ==
    ASSUME CryptKeepsLength, key \in Key \cup {nullopt},
           bytes \in Seq(Byte), IsPacket(bytes), NEW c \in Leftovers
    PROVE  c \in Seq(Byte) /\ Len(c) = telegram_length(bytes)
<1> DEFINE e == encrypted_telegram(bytes)
<1>1. e \in Seq(Byte) /\ Len(e) = telegram_length(bytes)
  BY SpansOfPacket
<1>2. nonce(bytes) \in Seq(Byte)
  BY DEF nonce, IsPacket, HeaderLength, TagLength
<1>3. CASE c = e
  BY <1>1, <1>3
<1>4. CASE c = [i \in DOMAIN e |-> 0]
  <2>1. 0 \in Byte
    BY ByteAssumption
  <2> HIDE DEF e
  <2> QED
    BY <1>1, <1>4, <2>1
<1>5. CASE key # nullopt /\ c = Crypt(key, nonce(bytes), e)
  <2>1. key \in Key
    BY <1>5
  <2> HIDE DEF e
  <2> QED
    BY <1>1, <1>2, <1>5, <2>1 DEF CryptKeepsLength
<1> QED
  BY <1>3, <1>4, <1>5 DEF Leftovers

\* Overwriting a packet leaves all but its telegram.
LEMMA OverwrittenFits ==
    ASSUME NEW p \in Seq(Byte), HasParts(p), NEW c \in Seq(Byte),
           Len(c) = telegram_length(p)
    PROVE  /\ Overwritten(p, c) \in Seq(Byte)
           /\ Len(Overwritten(p, c)) = Len(p)
           /\ \A i \in DOMAIN p : Overwritten(p, c)[i] # p[i] =>
                i \in (HeaderLength + 1)..(HeaderLength + telegram_length(p))
<1> DEFINE q == Overwritten(p, c)
<1>1. \A i \in DOMAIN p :
        q[i] = IF i - HeaderLength \in DOMAIN c THEN c[i - HeaderLength] ELSE p[i]
  BY DEF Overwritten
<1>2. \A i \in DOMAIN p : q[i] \in Byte
  BY <1>1
<1>3. q \in Seq(Byte) /\ Len(q) = Len(p)
  BY <1>2 DEF Overwritten
<1>4. ASSUME NEW i \in DOMAIN p, q[i] # p[i]
      PROVE  i \in (HeaderLength + 1)..(HeaderLength + telegram_length(p))
  <2>1. i - HeaderLength \in 1..telegram_length(p)
    BY <1>1, <1>4
  <2>2. telegram_length(p) \in Nat /\ i \in Int
    BY DEF HasParts
  <2> QED
    BY <2>1, <2>2 DEF HeaderLength
<1> QED
  BY <1>3, <1>4

\* What differs from a packet only in its telegram is a packet with the same nonce
\* and the same tag.
LEMMA SameOutsideTelegram ==
    ASSUME NEW p \in Seq(Byte), NEW q \in Seq(Byte), Len(q) = Len(p), IsPacket(p),
           \A i \in DOMAIN p : q[i] # p[i] =>
                i \in (HeaderLength + 1)..(HeaderLength + telegram_length(p))
    PROVE  /\ IsPacket(q) /\ telegram_length(q) = telegram_length(p)
           /\ nonce(q) = nonce(p)
           /\ gcm_tag(q) = gcm_tag(p)
<1>1. telegram_length(p) \in Nat /\ Len(p) = 18 + telegram_length(p) + 12
  BY PacketParts DEF HasParts, HeaderLength, TagLength
<1>2. \A i \in 1..18 : q[i] = p[i]
  <2> TAKE i \in 1..18
  <2>1. i \in DOMAIN p /\ i \notin (HeaderLength + 1)..(HeaderLength + telegram_length(p))
    BY <1>1 DEF HeaderLength
  <2> QED
    BY <2>1
<1>3. IsPacket(q) /\ telegram_length(q) = telegram_length(p)
  <2>1. \A i \in 1..HeaderLength : p[i] = q[i]
    BY <1>2 DEF HeaderLength
  <2> QED
    BY <2>1, HeaderDecides
<1>4. nonce(q) = nonce(p)
  <2>1. /\ SubSeq(q, 3, 10) = SubSeq(p, 3, 10)
        /\ SubSeq(q, 15, 18) = SubSeq(p, 15, 18)
    <3>1. Len(p) >= 18 /\ Len(q) >= 18
      BY <1>1
    <3> QED
      BY <1>2, <3>1
  <2> QED
    BY <2>1, Zenon DEF nonce
<1>5. gcm_tag(q) = gcm_tag(p)
  <2> DEFINE from == HeaderLength + telegram_length(p) + 1
             to == HeaderLength + telegram_length(p) + TagLength
  <2>1. from \in Nat /\ to \in Nat /\ 1 <= from /\ to = Len(p) /\ to = Len(q)
    BY <1>1 DEF HeaderLength, TagLength
  <2>2. \A i \in from..to : q[i] = p[i]
    <3> TAKE i \in from..to
    <3>1. i \in DOMAIN p /\ i \notin (HeaderLength + 1)..(HeaderLength + telegram_length(p))
      BY <1>1 DEF HeaderLength, TagLength
    <3> QED
      BY <3>1
  <2> HIDE DEF from, to
  <2>3. SubSeq(q, from, to) = SubSeq(p, from, to)
    BY <2>1, <2>2
  <2> QED
    BY <1>3, <2>3, Zenon DEF gcm_tag, from, to
<1> QED
  BY <1>3, <1>4, <1>5

LEMMA InitIInv == Init => IInv
<1> SUFFICES ASSUME Init PROVE IInv
  OBVIOUS
<1>1. TypeOK
  <2>1. bytes \in Seq(Byte) /\ received = bytes
    BY ReceivedAssumption DEF Init
  <2>2. telegram = nullopt /\ res = FALSE /\ calls = 0
    BY DEF Init
  <2>3. /\ key \in Key \cup {nullopt}
        /\ aad \in AuthKey \cup {nullopt}
        /\ check_crc \in BOOLEAN
    BY Zenon DEF Init
  <2>4. calls \in 0..2
    BY <2>2
  <2> QED
    BY <2>1, <2>2, <2>3, <2>4, Zenon DEF TypeOK
<1>2. OnlyTelegramIsWritten
  BY DEF Init, OnlyTelegramIsWritten
<1>3. ReturnedIsChecked
  BY DEF Init, ReturnedIsChecked
<1> QED
  BY <1>1, <1>2, <1>3 DEF IInv

LEMMA CalledTypes ==
    ASSUME TypeOK, Called
    PROVE  calls' \in 0..2
BY DEF TypeOK, Called

\* What a call that writes leaves: a packet with the same header and tag.
LEMMA WriteKeepsPacket ==
    ASSUME CryptKeepsLength, IInv, IsPacket(bytes), NEW c \in Leftovers,
           bytes' = Overwritten(bytes, c), UNCHANGED received
    PROVE  /\ bytes' \in Seq(Byte)
           /\ Len(bytes') = Len(received')
           /\ OnlyTelegramIsWritten'
           /\ IsPacket(bytes') /\ telegram_length(bytes') = telegram_length(bytes)
           /\ nonce(bytes') = nonce(bytes)
           /\ gcm_tag(bytes') = gcm_tag(bytes)
<1>0. bytes \in Seq(Byte) /\ received \in Seq(Byte) /\ Len(bytes) = Len(received)
  BY DEF IInv, TypeOK
<1>1. HasParts(bytes)
  BY <1>0, PacketParts
<1>2. c \in Seq(Byte) /\ Len(c) = telegram_length(bytes)
  BY <1>0, LeftoversFit DEF IInv, TypeOK
<1>3. /\ bytes' \in Seq(Byte)
      /\ Len(bytes') = Len(bytes)
      /\ \A i \in DOMAIN bytes : bytes'[i] # bytes[i] =>
            i \in (HeaderLength + 1)..(HeaderLength + telegram_length(bytes))
  BY <1>0, <1>1, <1>2, OverwrittenFits
<1>4. Len(received) >= HeaderLength => \A i \in 1..HeaderLength : received[i] = bytes[i]
  <2> SUFFICES ASSUME Len(received) >= HeaderLength, NEW i \in 1..HeaderLength
               PROVE  received[i] = bytes[i]
    OBVIOUS
  <2>1. i \in DOMAIN received /\ i \notin (HeaderLength + 1)..(HeaderLength + telegram_length(received))
    BY <1>0 DEF HeaderLength
  <2> QED
    BY <2>1 DEF IInv, OnlyTelegramIsWritten
<1>5. IsPacket(received) /\ telegram_length(received) = telegram_length(bytes)
  BY <1>0, <1>4, HeaderDecides
<1>6. OnlyTelegramIsWritten'
  <2> SUFFICES ASSUME NEW i \in DOMAIN received, bytes'[i] # received[i]
               PROVE  i \in (HeaderLength + 1)..(HeaderLength + telegram_length(received))
    BY <1>5 DEF OnlyTelegramIsWritten
  <2>1. i \in DOMAIN bytes
    BY <1>0
  <2>2. bytes[i] # received[i] \/ bytes'[i] # bytes[i]
    OBVIOUS
  <2> QED
    BY <1>3, <1>5, <2>1, <2>2 DEF IInv, OnlyTelegramIsWritten
<1>7. /\ IsPacket(bytes') /\ telegram_length(bytes') = telegram_length(bytes)
      /\ nonce(bytes') = nonce(bytes)
      /\ gcm_tag(bytes') = gcm_tag(bytes)
  BY <1>0, <1>3, SameOutsideTelegram
<1> QED
  BY <1>0, <1>3, <1>6, <1>7

LEMMA FailIInv ==
    ASSUME CryptKeepsLength, IInv, FailToDecipher
    PROVE  IInv'
<1>1. PICK c \in Leftovers :
        /\ bytes' = Overwritten(bytes, c)
        /\ Gcm!Fail(nonce(bytes), gcm_tag(bytes))
  BY DEF FailToDecipher
<1>2. IsPacket(bytes) /\ telegram' = nullopt /\ Called
  BY DEF FailToDecipher
<1>3. res' = FALSE /\ UNCHANGED <<key, aad, received, check_crc>>
  BY <1>1, <1>2 DEF Gcm!Fail, Called
<1>4. bytes' \in Seq(Byte) /\ Len(bytes') = Len(received') /\ OnlyTelegramIsWritten'
  BY <1>1, <1>2, <1>3, WriteKeepsPacket
<1>5. TypeOK'
  BY <1>2, <1>3, <1>4, CalledTypes DEF IInv, TypeOK
<1>6. ReturnedIsChecked'
  BY <1>2 DEF ReturnedIsChecked
<1> QED
  BY <1>4, <1>5, <1>6 DEF IInv

LEMMA DecipherIInv ==
    ASSUME CryptKeepsLength, IInv, Decipher
    PROVE  IInv'
<1>1. PICK c \in Leftovers :
        /\ bytes' = Overwritten(bytes, c)
        /\ Gcm!Succeed(nonce(bytes), gcm_tag(bytes))
  BY DEF Decipher
<1>2. /\ IsPacket(bytes) /\ Called
      /\ telegram' = from_bytes(encrypted_telegram(bytes'), check_crc)
  BY DEF Decipher
<1>3. res' = TRUE /\ UNCHANGED <<key, aad, received, check_crc>>
  BY <1>1, <1>2 DEF Gcm!Succeed, Called
<1>4. /\ bytes' \in Seq(Byte) /\ Len(bytes') = Len(received') /\ OnlyTelegramIsWritten'
      /\ IsPacket(bytes')
      /\ nonce(bytes') = nonce(bytes) /\ gcm_tag(bytes') = gcm_tag(bytes)
  BY <1>1, <1>2, <1>3, WriteKeepsPacket
<1>5. /\ encrypted_telegram(bytes') \in Seq(Byte)
      /\ Len(encrypted_telegram(bytes')) = telegram_length(bytes')
  BY <1>4, SpansOfPacket
<1>6. telegram' # nullopt =>
        telegram' \in View /\ telegram'.size <= telegram_length(bytes')
  BY <1>2, <1>5, FromBytesStays
<1>7. TypeOK'
  BY <1>2, <1>3, <1>4, <1>6, CalledTypes DEF IInv, TypeOK
<1>8. /\ key # nullopt
      /\ encrypted_telegram(bytes') = Crypt(key, nonce(bytes), encrypted_telegram(bytes))
      /\ aad # nullopt =>
            gcm_tag(bytes) = TagOf(key, nonce(bytes), aad, encrypted_telegram(bytes))
  BY <1>1 DEF Gcm!Succeed, Gcm!Authentic
<1>9. encrypted_telegram(bytes) \in Seq(Byte)
  BY <1>2, SpansOfPacket DEF IInv, TypeOK
<1>10. ReturnedIsChecked'
  <2> SUFFICES ASSUME telegram' # nullopt
               PROVE  /\ IsPacket(bytes')
                      /\ telegram' = from_bytes(encrypted_telegram(bytes'), check_crc')
                      /\ telegram'.size <= telegram_length(bytes')
                      /\ key' # nullopt
                      /\ \E d \in Seq(Byte) :
                            /\ encrypted_telegram(bytes') = Crypt(key', nonce(bytes'), d)
                            /\ aad' # nullopt =>
                                gcm_tag(bytes') = TagOf(key', nonce(bytes'), aad', d)
    BY Zenon DEF ReturnedIsChecked
  <2>1. \E d \in Seq(Byte) :
            /\ encrypted_telegram(bytes') = Crypt(key', nonce(bytes'), d)
            /\ aad' # nullopt => gcm_tag(bytes') = TagOf(key', nonce(bytes'), aad', d)
    BY <1>3, <1>4, <1>8, <1>9
  <2> QED
    BY <1>2, <1>3, <1>4, <1>6, <1>8, <2>1
<1> QED
  BY <1>4, <1>7, <1>10 DEF IInv

LEMMA NextIInv ==
    ASSUME CryptKeepsLength
    PROVE  IInv /\ [Next]_vars => IInv'
<1> SUFFICES ASSUME IInv, [Next]_vars PROVE IInv'
  OBVIOUS
<1>1. CASE RejectPacket
  <2>1. /\ telegram' = nullopt /\ UNCHANGED <<bytes, key, aad, res, received, check_crc>>
        /\ calls' \in 0..2
    BY <1>1, CalledTypes DEF RejectPacket, Called, IInv
  <2> QED
    BY <2>1 DEF IInv, TypeOK, OnlyTelegramIsWritten, ReturnedIsChecked
<1>2. CASE FailToDecipher
  BY <1>2, FailIInv
<1>3. CASE Decipher
  BY <1>3, DecipherIInv
<1>4. CASE UNCHANGED vars
  BY <1>4 DEF IInv, TypeOK, OnlyTelegramIsWritten, ReturnedIsChecked, vars, config, history
<1> QED
  BY <1>1, <1>2, <1>3, <1>4 DEF Next, decrypt_inplace

\* However often decrypt_inplace is called on a packet, the memory keeps its
\* length and its header.
THEOREM Invariance ==
    ASSUME CryptKeepsLength
    PROVE  Spec => []IInv
<1>1. IInv /\ [Next]_vars => IInv'
  BY NextIInv
<1> QED
  BY <1>1, InitIInv, PTL DEF Spec

\* The spans of DlmsPacket lie in the packet, whatever its header says: no
\* length of 16 bits makes telegram_length wrap and pass from_bytes.
THEOREM Bounds ==
    ASSUME CryptKeepsLength
    PROVE  Spec => []SpansInBounds
<1>1. IInv => SpansInBounds
  BY PacketParts, SpansOfPacket DEF IInv, TypeOK, SpansInBounds, HasParts
<1> QED
  BY <1>1, Invariance, PTL

\* decrypt_inplace writes over the encrypted telegram and nothing else.
THEOREM Frame ==
    ASSUME CryptKeepsLength
    PROVE  Spec => []OnlyTelegramIsWritten
<1>1. IInv => OnlyTelegramIsWritten
  BY DEF IInv
<1> QED
  BY <1>1, Invariance, PTL

\* What is held and returned keeps its type; a telegram that is returned is found
\* by a '!' that there is.
THEOREM TypeCorrect ==
    ASSUME CryptKeepsLength
    PROVE  Spec => []TypeOK
<1>1. IInv => TypeOK
  BY DEF IInv
<1> QED
  BY <1>1, Invariance, PTL

\* decrypt_inplace returns a telegram only from a packet it has deciphered with the
\* key it has, whose tag it has compared if it has an authentication key, and whose
\* CRC it has compared if it is to; and the view it returns lies in that packet.
THEOREM ReturnedTelegramIsChecked ==
    ASSUME CryptKeepsLength
    PROVE  Spec => []ReturnedIsChecked
<1>1. IInv => ReturnedIsChecked
  BY DEF IInv
<1> QED
  BY <1>1, Invariance, PTL

\* Only the meter has put a tag on what the client receives: what a tag is right for,
\* with a key and an authentication key of the client, is a telegram of the meter.
Unforged ==
    \A p \in Received, k \in Key, a \in AuthKey, c \in Seq(Byte) :
        IsPacket(p) /\ gcm_tag(p) = TagOf(k, nonce(p), a, c) =>
            \E m \in Message : k = MeterKey /\ nonce(p) = MeterNonce(m) /\ c = Cipher(m)

\* The first part of OnlyGenuineIsReturned.
AuthenticIsReturned ==
    telegram # nullopt /\ aad # nullopt =>
        \E m \in Message :
            /\ full_content(encrypted_telegram(bytes), telegram) = Text(m) \o Crc(m)
            /\ content_without_crc(encrypted_telegram(bytes), telegram) = Text(m)

-------------------------------------------------------------------------------
(* The packet of a meter *)

\* The parts of a sequence put together from two.
LEMMA Joined ==
    ASSUME NEW S, NEW a \in Seq(S), NEW b \in Seq(S)
    PROVE  /\ a \o b \in Seq(S)
           /\ Len(a \o b) = Len(a) + Len(b)
           /\ \A i \in 1..Len(a) : (a \o b)[i] = a[i]
           /\ \A i \in 1..Len(b) : (a \o b)[Len(a) + i] = b[i]
<1>1. \A i \in 1..(Len(a) + Len(b)) : (a \o b)[i] = IF i <= Len(a) THEN a[i] ELSE b[i - Len(a)]
  BY ConcatProperties
<1>2. \A i \in 1..Len(b) : Len(a) + i \in 1..(Len(a) + Len(b)) /\ ~(Len(a) + i <= Len(a))
                            /\ Len(a) + i - Len(a) = i
  OBVIOUS
<1>3. \A i \in 1..Len(a) : i \in 1..(Len(a) + Len(b)) /\ i <= Len(a)
  OBVIOUS
<1> QED
  BY <1>1, <1>2, <1>3, ConcatProperties

\* Where a slice of a sequence put together is that of its first or second part.
LEMMA FirstPart ==
    ASSUME NEW S, NEW a \in Seq(S), NEW b \in Seq(S)
    PROVE  SubSeq(a \o b, 1, Len(a)) = a
<1>1. /\ a \o b \in Seq(S) /\ Len(a \o b) = Len(a) + Len(b)
      /\ \A i \in 1..Len(a) : (a \o b)[i] = a[i]
  BY Joined
<1> DEFINE ab == a \o b
<1> HIDE DEF ab
<1>2. ab \in Seq(S) /\ Len(ab) >= Len(a) /\ \A i \in 1..Len(a) : ab[i] = a[i]
  BY <1>1 DEF ab
<1>3. SubSeq(ab, 1, Len(a)) = a
  BY <1>2
<1> QED
  BY <1>3 DEF ab

LEMMA SecondPart ==
    ASSUME NEW S, NEW a \in Seq(S), NEW b \in Seq(S)
    PROVE  SubSeq(a \o b, Len(a) + 1, Len(a) + Len(b)) = b
<1>1. /\ a \o b \in Seq(S) /\ Len(a \o b) = Len(a) + Len(b)
      /\ \A i \in 1..Len(b) : (a \o b)[Len(a) + i] = b[i]
  BY Joined
<1> DEFINE ab == a \o b
           la == Len(a)
<1> HIDE DEF ab, la
<1>2. ab \in Seq(S) /\ la \in Nat /\ Len(ab) = la + Len(b) /\ \A i \in 1..Len(b) : ab[la + i] = b[i]
  BY <1>1 DEF ab, la
<1> DEFINE sub == SubSeq(ab, la + 1, la + Len(b))
<1>3. sub \in Seq(S) /\ Len(sub) = Len(b) /\ \A i \in 1..Len(b) : sub[i] = ab[la + i]
  BY <1>2, SubSeqProperties
<1> HIDE DEF sub
<1>4. sub = b
  BY <1>2, <1>3
<1> QED
  BY <1>4 DEF ab, la, sub

LEMMA SliceOfFirst ==
    ASSUME NEW S, NEW a \in Seq(S), NEW b \in Seq(S),
           NEW i \in Nat, NEW j \in Nat, 1 <= i, j <= Len(a)
    PROVE  SubSeq(a \o b, i, j) = SubSeq(a, i, j)
<1>1. /\ a \o b \in Seq(S) /\ Len(a \o b) = Len(a) + Len(b)
      /\ \A k \in 1..Len(a) : (a \o b)[k] = a[k]
  BY Joined
<1> DEFINE ab == a \o b
<1> HIDE DEF ab
<1>2. ab \in Seq(S) /\ Len(ab) >= Len(a) /\ \A k \in 1..Len(a) : ab[k] = a[k]
  BY <1>1 DEF ab
<1>3. SubSeq(ab, i, j) = SubSeq(a, i, j)
  BY <1>2
<1> QED
  BY <1>3 DEF ab

\* Byte strings of a length, two of them joined, and a slice of one.  (The provers
\* fail on a length that is a literal where they see these definitions: the leaves
\* about a header leave them alone and cite the lemmas that follow.)
Bytes(n) == {s \in Seq(Byte) : Len(s) = n}

Join(a, b) == a \o b

Slice(s, from, to) == SubSeq(s, from, to)

LEMMA JoinedBytes ==
    ASSUME NEW i \in Nat, NEW j \in Nat, NEW a \in Bytes(i), NEW b \in Bytes(j)
    PROVE  Join(a, b) \in Bytes(i + j)
<1>1. a \in Seq(Byte) /\ b \in Seq(Byte) /\ Len(a) = i /\ Len(b) = j
  BY DEF Bytes
<1>2. a \o b \in Seq(Byte) /\ Len(a \o b) = i + j
  BY <1>1
<1> QED
  BY <1>2 DEF Bytes, Join

LEMMA JoinedFirst ==
    ASSUME NEW i \in Nat, NEW j \in Nat, NEW a \in Bytes(i), NEW b \in Bytes(j), NEW k \in 1..i
    PROVE  Join(a, b)[k] = a[k]
BY DEF Bytes, Join

LEMMA JoinedSecond ==
    ASSUME NEW i \in Nat, NEW j \in Nat, NEW a \in Bytes(i), NEW b \in Bytes(j), NEW k \in 1..j
    PROVE  Join(a, b)[i + k] = b[k]
BY DEF Bytes, Join

LEMMA SliceIsFirst ==
    ASSUME NEW i \in Nat, NEW j \in Nat, NEW a \in Bytes(i), NEW b \in Bytes(j)
    PROVE  Slice(Join(a, b), 1, i) = a
BY FirstPart DEF Bytes, Join, Slice

LEMMA SliceIsSecond ==
    ASSUME NEW i \in Nat, NEW j \in Nat, NEW a \in Bytes(i), NEW b \in Bytes(j)
    PROVE  Slice(Join(a, b), i + 1, i + j) = b
BY SecondPart DEF Bytes, Join, Slice

LEMMA SliceOfJoined ==
    ASSUME NEW i \in Nat, NEW j \in Nat, NEW a \in Bytes(i), NEW b \in Bytes(j),
           NEW from \in Nat, NEW to \in Nat, 1 <= from, to <= i
    PROVE  Slice(Join(a, b), from, to) = Slice(a, from, to)
BY SliceOfFirst DEF Bytes, Join, Slice

\* A byte string that is cut in two is what the two parts make.
LEMMA TwoParts ==
    ASSUME NEW i \in Nat, NEW j \in Nat, NEW n \in Bytes(i + j)
    PROVE  /\ Slice(n, 1, i) \in Bytes(i)
           /\ Slice(n, i + 1, i + j) \in Bytes(j)
           /\ Join(Slice(n, 1, i), Slice(n, i + 1, i + j)) = n
<1>1. n \in Seq(Byte) /\ Len(n) = i + j
  BY DEF Bytes
<1>2. PICK a : a = SubSeq(n, 1, i)
  BY Zenon
<1>3. PICK b : b = SubSeq(n, i + 1, i + j)
  BY Zenon
<1>4. a \in Seq(Byte) /\ Len(a) = i /\ \A k \in 1..i : a[k] = n[k]
  BY <1>1, <1>2
<1>5. b \in Seq(Byte) /\ Len(b) = j /\ \A k \in 1..j : b[k] = n[i + k]
  BY <1>1, <1>3
<1>6. PICK h : h = Join(a, b)
  BY Zenon
<1>7. /\ h \in Seq(Byte) /\ Len(h) = i + j
      /\ \A k \in 1..i : h[k] = a[k]
      /\ \A k \in 1..j : h[i + k] = b[k]
  <2>1. a \in Bytes(i) /\ b \in Bytes(j)
    BY <1>4, <1>5 DEF Bytes
  <2>2. h \in Bytes(i + j)
    BY <1>6, <2>1, JoinedBytes
  <2>3. /\ \A k \in 1..i : h[k] = a[k]
        /\ \A k \in 1..j : h[i + k] = b[k]
    BY <1>6, <2>1, JoinedFirst, JoinedSecond
  <2> QED
    BY <2>2, <2>3 DEF Bytes
<1>8. ASSUME NEW k \in 1..(i + j)
      PROVE  h[k] = n[k]
  <2>1. CASE k <= i
    BY <1>4, <1>7, <2>1
  <2>2. CASE k > i
    <3>1. k - i \in 1..j /\ i + (k - i) = k
      BY <2>2
    <3> QED
      BY <1>5, <1>7, <3>1
  <2> QED
    BY <2>1, <2>2
<1>9. h = n
  BY <1>1, <1>7, <1>8
<1> QED
  BY <1>2, <1>3, <1>4, <1>5, <1>6, <1>9, Zenon DEF Slice, Bytes

\* Four parts, as long as those of a header are.
LEMMA FourParts ==
    ASSUME NEW a \in Bytes(2), NEW b \in Bytes(8), NEW c \in Bytes(4), NEW d \in Bytes(4),
           NEW h, h = Join(Join(Join(a, b), c), d)
    PROVE  /\ h \in Bytes(18)
           /\ h[1] = a[1] /\ h[2] = a[2]
           /\ h[11] = c[1] /\ h[12] = c[2] /\ h[13] = c[3] /\ h[14] = c[4]
           /\ Slice(h, 3, 10) = b
           /\ Slice(h, 15, 18) = d
<1>1. PICK ab : ab = Join(a, b)
  BY Zenon
<1>2. PICK abc : abc = Join(ab, c)
  BY Zenon
<1>3. h = Join(abc, d)
  BY <1>1, <1>2, Zenon
<1>4. ab \in Bytes(10)
  BY <1>1, JoinedBytes
<1>5. abc \in Bytes(14)
  BY <1>2, <1>4, JoinedBytes
<1>6. h \in Bytes(18)
  BY <1>3, <1>5, JoinedBytes
<1>7. h[1] = a[1] /\ h[2] = a[2]
  <2>1. ab[1] = a[1] /\ ab[2] = a[2]
    BY <1>1, JoinedFirst
  <2>2. abc[1] = ab[1] /\ abc[2] = ab[2]
    BY <1>2, <1>4, JoinedFirst
  <2>3. h[1] = abc[1] /\ h[2] = abc[2]
    BY <1>3, <1>5, JoinedFirst
  <2> QED
    BY <2>1, <2>2, <2>3
<1>8. h[11] = c[1] /\ h[12] = c[2] /\ h[13] = c[3] /\ h[14] = c[4]
  <2>1. abc[11] = c[1] /\ abc[12] = c[2] /\ abc[13] = c[3] /\ abc[14] = c[4]
    BY <1>2, <1>4, JoinedSecond
  <2>2. h[11] = abc[11] /\ h[12] = abc[12] /\ h[13] = abc[13] /\ h[14] = abc[14]
    BY <1>3, <1>5, JoinedFirst
  <2> QED
    BY <2>1, <2>2
<1>9. Slice(h, 3, 10) = b
  <2>1. Slice(ab, 3, 10) = b
    BY <1>1, SliceIsSecond
  <2>2. Slice(abc, 3, 10) = Slice(ab, 3, 10)
    BY <1>2, <1>4, SliceOfJoined
  <2>3. Slice(h, 3, 10) = Slice(abc, 3, 10)
    BY <1>3, <1>5, SliceOfJoined
  <2> QED
    BY <2>1, <2>2, <2>3
<1>10. Slice(h, 15, 18) = d
  BY <1>3, <1>5, SliceIsSecond
<1> QED
  BY <1>6, <1>7, <1>8, <1>9, <1>10

\* The nonce is a system title and an invocation counter.
LEMMA TwoHalves ==
    ASSUME NEW n \in Bytes(12)
    PROVE  /\ Slice(n, 1, 8) \in Bytes(8) /\ Slice(n, 9, 12) \in Bytes(4)
           /\ Join(Slice(n, 1, 8), Slice(n, 9, 12)) = n
<1>1. 8 \in Nat /\ 4 \in Nat /\ 8 + 1 = 9 /\ 8 + 4 = 12
  OBVIOUS
<1>2. n \in Bytes(8 + 4)
  BY <1>1
<1>3. /\ Slice(n, 1, 8) \in Bytes(8) /\ Slice(n, 8 + 1, 8 + 4) \in Bytes(4)
      /\ Join(Slice(n, 1, 8), Slice(n, 8 + 1, 8 + 4)) = n
  BY <1>1, <1>2, TwoParts, Zenon
<1> QED
  BY <1>1, <1>3

LEMMA ByteRange ==
    ASSUME NEW x \in Int, 0 <= x, x <= 255
    PROVE  x \in Byte
BY ByteAssumption

\* A length that two bytes hold.
IsShort(total) == total \in Nat /\ total <= 65535

LEMMA TwoBytes ==
    ASSUME NEW total, IsShort(total)
    PROVE  /\ total \div 256 \in Byte /\ total % 256 \in Byte
           /\ (total \div 256) * 256 + (total % 256) = total
<1>1. total \in Nat /\ total <= 65535
  BY DEF IsShort
<1>2. /\ total \div 256 \in Int /\ 0 <= total \div 256 /\ total \div 256 <= 255
      /\ total % 256 \in Int /\ 0 <= total % 256 /\ total % 256 <= 255
      /\ (total \div 256) * 256 + (total % 256) = total
  BY <1>1
<1> QED
  BY <1>2, ByteRange

\* What the code reads in a header that the meter wrote.
LEMMA HeaderReads ==
    ASSUME NEW n \in Bytes(12), NEW total, IsShort(total)
    PROVE  /\ Header(n, total) \in Bytes(18)
           /\ header_bytes_consistent(Header(n, total))
           /\ Total(Header(n, total)) = total
           /\ Join(Slice(Header(n, total), 3, 10), Slice(Header(n, total), 15, 18)) = n
<1>1. PICK hi : hi = total \div 256
  OBVIOUS
<1>2. PICK lo : lo = total % 256
  OBVIOUS
<1>3. hi \in Byte /\ lo \in Byte /\ hi * 256 + lo = total
  BY <1>1, <1>2, TwoBytes
<1>4. PICK h : h = Header(n, total)
  BY Zenon
<1>5. PICK a : a = <<219, 8>>
  OBVIOUS
<1>6. PICK c : c = <<130, hi, lo, 48>>
  OBVIOUS
<1>7. h = Join(Join(Join(a, Slice(n, 1, 8)), c), Slice(n, 9, 12))
  BY <1>1, <1>2, <1>4, <1>5, <1>6 DEF Header, Join, Slice
<1>8. a \in Bytes(2) /\ a[1] = 219 /\ a[2] = 8
  <2>1. 219 \in Byte /\ 8 \in Byte
    BY ByteAssumption
  <2> QED
    BY <1>5, <2>1 DEF Bytes
<1>9. /\ c \in Bytes(4)
      /\ c[1] = 130 /\ c[2] = hi /\ c[3] = lo /\ c[4] = 48
  <2>1. 130 \in Byte /\ 48 \in Byte
    BY ByteAssumption
  <2> QED
    BY <1>3, <1>6, <2>1 DEF Bytes
<1>10. /\ Slice(n, 1, 8) \in Bytes(8) /\ Slice(n, 9, 12) \in Bytes(4)
       /\ Join(Slice(n, 1, 8), Slice(n, 9, 12)) = n
  BY TwoHalves
<1>11. /\ h \in Bytes(18)
       /\ h[1] = a[1] /\ h[2] = a[2]
       /\ h[11] = c[1] /\ h[12] = c[2] /\ h[13] = c[3] /\ h[14] = c[4]
       /\ Slice(h, 3, 10) = Slice(n, 1, 8)
       /\ Slice(h, 15, 18) = Slice(n, 9, 12)
  BY <1>7, <1>8, <1>9, <1>10, FourParts
<1>12. header_bytes_consistent(h)
  BY <1>8, <1>9, <1>11 DEF header_bytes_consistent
<1>13. Total(h) = total
  BY <1>3, <1>9, <1>11 DEF Total
<1> QED
  BY <1>4, <1>10, <1>11, <1>12, <1>13

\* What an intact packet is to the code.
IsSealed(p, m) ==
    /\ p \in Seq(Byte)
    /\ IsPacket(p)
    /\ nonce(p) = MeterNonce(m)
    /\ encrypted_telegram(p) = Cipher(m)
    /\ gcm_tag(p) = MeterTag(m)

\* What the code reads in a header, a telegram of l bytes and a tag.
LEMMA PacketReads ==
    ASSUME NEW l \in Nat, l >= 10, IsShort(l + 17),
           NEW h \in Bytes(18), NEW c \in Bytes(l), NEW t \in Bytes(12),
           header_bytes_consistent(h), Total(h) = l + 17,
           NEW p, p = Join(Join(h, c), t)
    PROVE  /\ p \in Seq(Byte) /\ IsPacket(p)
           /\ Slice(p, 3, 10) = Slice(h, 3, 10) /\ Slice(p, 15, 18) = Slice(h, 15, 18)
           /\ telegram_length(p) = l
           /\ Slice(p, 18 + 1, 18 + l) = c
           /\ Slice(p, 18 + l + 1, 18 + l + 12) = t
<1>1. PICK hc : hc = Join(h, c)
  OBVIOUS
<1>2. p = Join(hc, t)
  BY <1>1
<1>3. hc \in Bytes(18 + l)
  BY <1>1, JoinedBytes
<1>4. p \in Bytes(18 + l + 12)
  BY <1>2, <1>3, JoinedBytes
<1>5. \A i \in 1..18 : p[i] = h[i]
  <2>1. \A i \in 1..18 : hc[i] = h[i]
    BY <1>1, JoinedFirst
  <2>2. \A i \in 1..(18 + l) : p[i] = hc[i]
    BY <1>2, <1>3, JoinedFirst
  <2> QED
    BY <2>1, <2>2
<1>6. Slice(p, 3, 10) = Slice(h, 3, 10) /\ Slice(p, 15, 18) = Slice(h, 15, 18)
  <2>1. Slice(hc, 3, 10) = Slice(h, 3, 10) /\ Slice(hc, 15, 18) = Slice(h, 15, 18)
    BY <1>1, SliceOfJoined
  <2>2. Slice(p, 3, 10) = Slice(hc, 3, 10) /\ Slice(p, 15, 18) = Slice(hc, 15, 18)
    BY <1>2, <1>3, SliceOfJoined
  <2> QED
    BY <2>1, <2>2
<1>7. Slice(p, 18 + 1, 18 + l) = c
  <2>1. Slice(hc, 18 + 1, 18 + l) = c
    BY <1>1, SliceIsSecond
  <2>2. Slice(p, 18 + 1, 18 + l) = Slice(hc, 18 + 1, 18 + l)
    BY <1>2, <1>3, SliceOfJoined
  <2> QED
    BY <2>1, <2>2
<1>8. Slice(p, 18 + l + 1, 18 + l + 12) = t
  BY <1>2, <1>3, SliceIsSecond
<1>9. p \in Seq(Byte) /\ Len(p) = l + 30
  BY <1>4 DEF Bytes
<1>10. Len(p) \in Nat /\ Len(p) >= 30
  BY <1>9
<1>11. HasLength(p)
  <2>1. 12 \in 1..Len(p) /\ 13 \in 1..Len(p)
    BY <1>10
  <2> QED
    BY <1>9, <2>1, ElementOfSeq DEF HasLength
<1>12. Total(p) = l + 17 /\ header_bytes_consistent(p)
  <2>1. p[1] = h[1] /\ p[2] = h[2] /\ p[11] = h[11] /\ p[12] = h[12] /\ p[13] = h[13]
        /\ p[14] = h[14]
    BY <1>5
  <2> QED
    BY <2>1 DEF Total, header_bytes_consistent
<1>13. telegram_length(p) = l /\ expected_length(p) = l + 30
  BY <1>11, <1>12, LengthCases
<1>14. IsPacket(p)
  BY <1>9, <1>12, <1>13 DEF IsPacket, HeaderLength, TagLength
<1> QED
  BY <1>6, <1>7, <1>8, <1>9, <1>13, <1>14

LEMMA SealedIsPacket ==
    ASSUME NEW m \in Message, FitsPacket(m)
    PROVE  IsSealed(Sealed(m), m)
<1>1. PICK l : l = Len(Cipher(m))
  OBVIOUS
<1>2. /\ MeterNonce(m) \in Bytes(12)
      /\ Cipher(m) \in Bytes(l)
      /\ MeterTag(m) \in Bytes(12)
      /\ l = Len(Plain(m))
  BY <1>1, MeterAssumption, Zenon DEF Bytes, TagLength
<1>3. Cipher(m) \in Seq(Byte) /\ l \in Nat
  BY <1>1, <1>2 DEF Bytes
<1>4. l \in Nat /\ l >= 10 /\ IsShort(l + 17)
  BY <1>2, <1>3 DEF FitsPacket, IsShort
<1>5. PICK total : total = 5 + l + TagLength
  OBVIOUS
<1>6. total = l + 17
  BY <1>4, <1>5 DEF TagLength
<1>7. PICK h : h = Header(MeterNonce(m), total)
  BY Zenon
<1>8. /\ h \in Bytes(18)
      /\ header_bytes_consistent(h)
      /\ Total(h) = l + 17
      /\ Join(Slice(h, 3, 10), Slice(h, 15, 18)) = MeterNonce(m)
  BY <1>2, <1>4, <1>6, <1>7, HeaderReads
<1>9. PICK p : p = Sealed(m)
  BY Zenon
<1>10. p = Join(Join(h, Cipher(m)), MeterTag(m))
  BY <1>1, <1>5, <1>7, <1>9, Zenon DEF Sealed, Join
<1>11. /\ p \in Seq(Byte) /\ IsPacket(p)
       /\ Slice(p, 3, 10) = Slice(h, 3, 10) /\ Slice(p, 15, 18) = Slice(h, 15, 18)
       /\ telegram_length(p) = l
       /\ Slice(p, 18 + 1, 18 + l) = Cipher(m)
       /\ Slice(p, 18 + l + 1, 18 + l + 12) = MeterTag(m)
  BY <1>2, <1>4, <1>8, <1>10, PacketReads
<1>12. nonce(p) = MeterNonce(m)
  BY <1>8, <1>11, Zenon DEF nonce, Slice, Join
<1>13. encrypted_telegram(p) = Cipher(m) /\ gcm_tag(p) = MeterTag(m)
  BY <1>11, Zenon DEF encrypted_telegram, gcm_tag, Slice, HeaderLength, TagLength
<1> QED
  BY <1>9, <1>11, <1>12, <1>13, Zenon DEF IsSealed

\* A telegram, its CRC and what follows them are recognised as that telegram.
LEMMA TelegramIsFound ==
    ASSUME NEW l \in Nat, l > 1, NEW t \in Bytes(l), NEW c \in Bytes(4), NEW e \in Bytes(2),
           t[1] = StartSymbol, t[l] = EndSymbol, \A i \in 1..(l - 1) : t[i] # EndSymbol,
           CrcMatches(t, c), NEW crc, NEW p, p = Join(Join(t, c), e)
    PROVE  /\ from_bytes(p, crc) = [size |-> l + CrcLength, has_crc_suffix |-> TRUE]
           /\ Slice(p, 1, l + CrcLength) = Join(t, c)
           /\ Slice(p, 1, l) = t
<1>1. PICK tc : tc = Join(t, c)
  OBVIOUS
<1>2. p = Join(tc, e)
  BY <1>1
<1>3. tc \in Bytes(l + 4)
  BY <1>1, JoinedBytes
<1>4. p \in Bytes(l + 4 + 2)
  BY <1>2, <1>3, JoinedBytes
<1>5. \A i \in 1..l : p[i] = t[i]
  <2>1. \A i \in 1..l : tc[i] = t[i]
    BY <1>1, JoinedFirst
  <2>2. \A i \in 1..(l + 4) : p[i] = tc[i]
    BY <1>2, <1>3, JoinedFirst
  <2> QED
    BY <2>1, <2>2
<1>6. Slice(p, 1, l + 4) = tc
  BY <1>2, <1>3, SliceIsFirst
<1>7. Slice(p, 1, l) = t
  <2>1. Slice(tc, 1, l) = t
    BY <1>1, SliceIsFirst
  <2>2. Slice(p, 1, l) = Slice(tc, 1, l)
    BY <1>2, <1>3, SliceOfJoined
  <2> QED
    BY <2>1, <2>2
<1>8. Slice(p, l + 1, l + 4) = c
  <2>1. Slice(tc, l + 1, l + 4) = c
    BY <1>1, SliceIsSecond
  <2>2. Slice(p, l + 1, l + 4) = Slice(tc, l + 1, l + 4)
    BY <1>2, <1>3, SliceOfJoined
  <2> QED
    BY <2>1, <2>2
<1>9. p \in Seq(Byte) /\ Len(p) = l + 6
  BY <1>4 DEF Bytes
<1>10. StartsWithSlash(p)
  <2>1. Len(p) > 0 /\ p[1] = StartSymbol
    BY <1>5, <1>9
  <2> QED
    BY <2>1 DEF StartsWithSlash
<1>11. l \in EndPositions(p)
  <2>1. l \in 1..Len(p) /\ p[l] = EndSymbol
    BY <1>5, <1>9
  <2> QED
    BY <2>1 DEF EndPositions
<1>12. FindEnd(p) = l
  <2>1. FindEnd(p) \in EndPositions(p) /\ FindEnd(p) <= l /\ EndPositions(p) \subseteq 1..Len(p)
    BY <1>9, <1>11, FindEndFinds
  <2>2. FindEnd(p) \in 1..l /\ p[FindEnd(p)] = EndSymbol
    BY <1>9, <2>1 DEF EndPositions
  <2>3. FindEnd(p) \notin 1..(l - 1)
    BY <1>5, <2>2
  <2> QED
    BY <2>2, <2>3
<1>13. HasCrcSuffix(p)
  BY <1>9, <1>12 DEF HasCrcSuffix, CrcLength
<1>14. CrcVerified(p)
  BY <1>7, <1>8, <1>12, Zenon DEF CrcVerified, CrcLength, Slice
<1>15. from_bytes(p, crc) = [size |-> l + CrcLength, has_crc_suffix |-> TRUE]
  BY <1>10, <1>11, <1>12, <1>13, <1>14 DEF from_bytes
<1> QED
  BY <1>1, <1>6, <1>7, <1>15 DEF CrcLength

\* The plaintext of a packet is recognised as the telegram it is.
LEMMA PlainIsTelegram ==
    ASSUME NEW m \in Message, NEW crc
    PROVE  /\ from_bytes(Plain(m), crc)
                = [size |-> Len(Text(m)) + CrcLength, has_crc_suffix |-> TRUE]
           /\ SubSeq(Plain(m), 1, Len(Text(m)) + CrcLength) = Text(m) \o Crc(m)
           /\ SubSeq(Plain(m), 1, Len(Text(m))) = Text(m)
<1>1. PICK l : l = Len(Text(m))
  OBVIOUS
<1>2. IsText(Text(m)) /\ CrcMatches(Text(m), Crc(m))
  BY MeterAssumption, Zenon
<1>3. Text(m) \in Bytes(l) /\ l \in Nat /\ l > 1
  BY <1>1, <1>2 DEF IsText, Bytes
<1>4. /\ Text(m)[1] = StartSymbol /\ Text(m)[l] = EndSymbol
      /\ \A i \in 1..(l - 1) : Text(m)[i] # EndSymbol
  BY <1>1, <1>2, Zenon DEF IsText
<1>5. Crc(m) \in Bytes(4)
  BY MeterAssumption, Zenon DEF Bytes, CrcLength
<1>6. CrLf \in Bytes(2)
  <2>1. 13 \in Byte /\ 10 \in Byte
    BY ByteAssumption
  <2> QED
    BY <2>1 DEF CrLf, Bytes
<1>7. PICK p : p = Plain(m)
  BY Zenon
<1>8. p = Join(Join(Text(m), Crc(m)), CrLf)
  BY <1>7, Zenon DEF Plain, Join
<1>9. /\ from_bytes(p, crc) = [size |-> l + CrcLength, has_crc_suffix |-> TRUE]
      /\ Slice(p, 1, l + CrcLength) = Join(Text(m), Crc(m))
      /\ Slice(p, 1, l) = Text(m)
  BY <1>2, <1>3, <1>4, <1>5, <1>6, <1>8, TelegramIsFound
<1> QED
  BY <1>1, <1>7, <1>9, Zenon DEF Slice, Join

\* The content of the view that from_bytes returns of it.
LEMMA PlainIsFound ==
    ASSUME NEW m \in Message, NEW v,
           v = [size |-> Len(Text(m)) + CrcLength, has_crc_suffix |-> TRUE]
    PROVE  /\ v \in View /\ v # nullopt
           /\ full_content(Plain(m), v) = Text(m) \o Crc(m)
           /\ content_without_crc(Plain(m), v) = Text(m)
<1>1. PICK n : n = Len(Text(m))
  OBVIOUS
<1>2. n \in Nat
  <2>1. Text(m) \in Seq(Byte)
    BY MeterAssumption, Zenon DEF IsText
  <2> QED
    BY <1>1, <2>1
<1>3. v.size = n + CrcLength /\ v.has_crc_suffix = TRUE
  BY <1>1
<1>4. PICK k : k = n + CrcLength
  OBVIOUS
<1>5. k \in Nat /\ k - CrcLength = n
  BY <1>2, <1>4 DEF CrcLength
<1>6. v \in View /\ v # nullopt
  <2>1. v = [size |-> k, has_crc_suffix |-> TRUE]
    BY <1>1, <1>4, Zenon
  <2>2. v \in View
    BY <1>5, <2>1 DEF View
  <2> QED
    BY <2>2, NulloptAssumption, Zenon
<1>7. full_content(Plain(m), v) = Text(m) \o Crc(m)
  BY <1>1, <1>3, PlainIsTelegram, Zenon DEF full_content
<1>8. content_without_crc(Plain(m), v) = SubSeq(Plain(m), 1, n)
  <2>1. v.has_crc_suffix /\ v.size - CrcLength = n
    BY <1>3, <1>4, <1>5, Zenon
  <2> QED
    BY <2>1, Zenon DEF content_without_crc
<1> QED
  BY <1>1, <1>6, <1>7, <1>8, PlainIsTelegram, Zenon

-------------------------------------------------------------------------------
(* An intact packet is returned *)

\* Until the first call the memory is what was received.
IntactInv ==
    /\ calls \in 0..2
    /\ calls = 0 => bytes = received
    /\ IntactIsReturned

\* What IntactIsReturned asks of the packet and the keys, with the names it has
\* for them.
FromMeter(m) ==
    /\ received = Sealed(m)
    /\ key = MeterKey /\ aad \in {nullopt, MeterAuthKey}
    /\ FitsPacket(m)

LEMMA FirstCallSucceeds ==
    ASSUME LibraryFails = FALSE, NEW m \in Message, FromMeter(m), bytes = received
    PROVE  ~RejectPacket /\ ~FailToDecipher
<1>1. IsSealed(bytes, m)
  BY SealedIsPacket DEF FromMeter
<1>2. IsPacket(bytes) /\ nonce(bytes) = MeterNonce(m)
      /\ encrypted_telegram(bytes) = Cipher(m) /\ gcm_tag(bytes) = MeterTag(m)
  BY <1>1, Zenon DEF IsSealed
<1>3. ~RejectPacket
  BY <1>2, Zenon DEF RejectPacket
<1>4. key # nullopt
  BY MeterAssumption, Zenon DEF FromMeter
<1>5. Gcm!Authentic(nonce(bytes), gcm_tag(bytes))
  <2>1. aad # nullopt => aad = MeterAuthKey
    BY Zenon DEF FromMeter
  <2>2. key = MeterKey
    BY Zenon DEF FromMeter
  <2> QED
    BY <1>2, <2>1, <2>2, Zenon DEF Gcm!Authentic, MeterTag
<1>6. ~FailToDecipher
  BY <1>4, <1>5, Zenon DEF FailToDecipher, Gcm!Fail
<1> QED
  BY <1>3, <1>6

LEMMA FirstCallReturns ==
    ASSUME NEW m \in Message, FromMeter(m), bytes = received, Decipher
    PROVE  /\ telegram' # nullopt
           /\ full_content(encrypted_telegram(bytes'), telegram') = Text(m) \o Crc(m)
           /\ content_without_crc(encrypted_telegram(bytes'), telegram') = Text(m)
<1>1. IsSealed(bytes, m)
  BY SealedIsPacket DEF FromMeter
<1>2. nonce(bytes) = MeterNonce(m) /\ encrypted_telegram(bytes) = Cipher(m)
  BY <1>1, Zenon DEF IsSealed
<1>3. encrypted_telegram(bytes') = Crypt(key, nonce(bytes), encrypted_telegram(bytes))
  BY Zenon DEF Decipher, Gcm!Succeed
<1>4. Crypt(MeterKey, MeterNonce(m), Cipher(m)) = Plain(m)
  BY MeterAssumption, Zenon
<1>5. encrypted_telegram(bytes') = Plain(m)
  BY <1>2, <1>3, <1>4, Zenon DEF FromMeter
<1>6. telegram' = from_bytes(Plain(m), check_crc)
  BY <1>5, Zenon DEF Decipher
<1>7. telegram' = [size |-> Len(Text(m)) + CrcLength, has_crc_suffix |-> TRUE]
  BY <1>6, PlainIsTelegram, Zenon
<1> QED
  BY <1>5, <1>7, PlainIsFound, Zenon

LEMMA NextIntact ==
    ASSUME LibraryFails = FALSE
    PROVE  IntactInv /\ [Next]_vars => IntactInv'
<1> SUFFICES ASSUME IntactInv, [Next]_vars PROVE IntactInv'
  OBVIOUS
<1>1. CASE UNCHANGED vars
  BY <1>1, Zenon DEF IntactInv, IntactIsReturned, vars, config, history
<1>2. CASE Next
  <2>1. Called /\ UNCHANGED <<received, key, aad>>
    BY <1>2, Zenon DEF Next, decrypt_inplace, RejectPacket, FailToDecipher, Decipher, Called,
                       Gcm!Fail, Gcm!Succeed
  <2>2. /\ calls' \in 0..2 /\ calls' # 0
        /\ calls' = 1 => calls = 0
    BY <2>1 DEF IntactInv, Called
  <2>3. IntactIsReturned'
    <3> SUFFICES ASSUME NEW m \in Message, received' = Sealed(m), calls' = 1,
                        key' = MeterKey, aad' \in {nullopt, MeterAuthKey}, FitsPacket(m)
                 PROVE  /\ telegram' # nullopt
                        /\ full_content(encrypted_telegram(bytes'), telegram') = Text(m) \o Crc(m)
                        /\ content_without_crc(encrypted_telegram(bytes'), telegram') = Text(m)
      BY Zenon DEF IntactIsReturned
    <3>1. FromMeter(m)
      BY <2>1, Zenon DEF FromMeter
    <3>2. bytes = received
      BY <2>2, Zenon DEF IntactInv
    <3>3. Decipher
      BY <1>2, <3>1, <3>2, FirstCallSucceeds, Zenon DEF Next, decrypt_inplace
    <3> QED
      BY <3>1, <3>2, <3>3, FirstCallReturns, Zenon
  <2> QED
    BY <2>2, <2>3, Zenon DEF IntactInv
<1> QED
  BY <1>1, <1>2

\* An intact packet of the meter, of any length that a header can hold, is
\* deciphered and returned by the first call, with or without an authentication key
\* and the CRC check, unless the library itself fails.
THEOREM IntactPacketsAreReturned ==
    ASSUME LibraryFails = FALSE
    PROVE  Spec => []IntactIsReturned
<1>1. Init => IntactInv
  <2> SUFFICES ASSUME Init PROVE IntactInv
    OBVIOUS
  <2>1. calls = 0 /\ bytes = received
    BY DEF Init
  <2>2. calls \in 0..2 /\ calls # 1
    BY <2>1
  <2> QED
    BY <2>1, <2>2, Zenon DEF IntactInv, IntactIsReturned
<1>2. IntactInv /\ [Next]_vars => IntactInv'
  BY NextIntact
<1>3. IntactInv => IntactIsReturned
  BY DEF IntactInv
<1> QED
  BY <1>1, <1>2, <1>3, PTL DEF Spec

-------------------------------------------------------------------------------
(* Only an authentic telegram is returned *)

\* Whatever was written, the nonce and the tag are those that were received.
LEMMA NonceAndTagKept ==
    ASSUME IInv, IsPacket(bytes)
    PROVE  /\ IsPacket(received)
           /\ nonce(bytes) = nonce(received)
           /\ gcm_tag(bytes) = gcm_tag(received)
<1>1. bytes \in Seq(Byte) /\ received \in Seq(Byte) /\ Len(bytes) = Len(received)
  BY DEF IInv, TypeOK
<1>2. \A i \in DOMAIN received : bytes[i] # received[i] =>
        i \in (HeaderLength + 1)..(HeaderLength + telegram_length(received))
  BY DEF IInv, OnlyTelegramIsWritten
<1>3. IsPacket(received)
  <2>1. CASE bytes = received
    BY <2>1
  <2>2. CASE bytes # received
    <3>1. \E i \in DOMAIN received : bytes[i] # received[i]
      BY <1>1, <2>2
    <3> QED
      BY <3>1 DEF IInv, OnlyTelegramIsWritten
  <2> QED
    BY <2>1, <2>2
<1> QED
  BY <1>1, <1>2, <1>3, SameOutsideTelegram

LEMMA CheckedIsAuthentic ==
    ASSUME Unforged, received \in Received, IInv
    PROVE  AuthenticIsReturned
<1> SUFFICES ASSUME telegram # nullopt, aad # nullopt
             PROVE  \E m \in Message :
                        /\ full_content(encrypted_telegram(bytes), telegram) = Text(m) \o Crc(m)
                        /\ content_without_crc(encrypted_telegram(bytes), telegram) = Text(m)
  BY DEF AuthenticIsReturned
<1>1. /\ IsPacket(bytes)
      /\ telegram = from_bytes(encrypted_telegram(bytes), check_crc)
      /\ key # nullopt
  BY Zenon DEF IInv, ReturnedIsChecked
<1>2. PICK c \in Seq(Byte) :
        /\ encrypted_telegram(bytes) = Crypt(key, nonce(bytes), c)
        /\ gcm_tag(bytes) = TagOf(key, nonce(bytes), aad, c)
  BY Zenon DEF IInv, ReturnedIsChecked
<1>3. key \in Key /\ aad \in AuthKey
  BY <1>1 DEF IInv, TypeOK
<1>4. /\ IsPacket(received)
      /\ nonce(bytes) = nonce(received)
      /\ gcm_tag(bytes) = gcm_tag(received)
  BY <1>1, NonceAndTagKept
<1>5. PICK m \in Message : key = MeterKey /\ nonce(bytes) = MeterNonce(m) /\ c = Cipher(m)
  <2>1. gcm_tag(received) = TagOf(key, nonce(received), aad, c)
    BY <1>2, <1>4, Zenon
  <2>2. \E m \in Message : key = MeterKey /\ nonce(received) = MeterNonce(m) /\ c = Cipher(m)
    BY <1>3, <1>4, <2>1, Zenon DEF Unforged
  <2> QED
    BY <1>4, <2>2, Zenon
<1>6. encrypted_telegram(bytes) = Plain(m)
  <2>1. Crypt(MeterKey, MeterNonce(m), Cipher(m)) = Plain(m)
    BY MeterAssumption, Zenon
  <2> QED
    BY <1>2, <1>5, <2>1, Zenon
<1>7. telegram = [size |-> Len(Text(m)) + CrcLength, has_crc_suffix |-> TRUE]
  BY <1>1, <1>6, PlainIsTelegram, Zenon
<1>8. /\ full_content(encrypted_telegram(bytes), telegram) = Text(m) \o Crc(m)
      /\ content_without_crc(encrypted_telegram(bytes), telegram) = Text(m)
  BY <1>6, <1>7, PlainIsFound
<1> QED
  BY <1>8

\* With an authentication key, a telegram that is returned is one the meter sent, up
\* to its CRC, if nobody else could tag what was received: after any number of calls
\* on the same memory, with any key and with or without the CRC check.
THEOREM OnlyAuthenticIsReturned ==
    ASSUME CryptKeepsLength, Unforged
    PROVE  Spec => []AuthenticIsReturned
<1>1. Spec => [](received \in Received)
  <2>1. Init => received \in Received
    BY DEF Init
  <2>2. received \in Received /\ [Next]_vars => (received \in Received)'
    BY Zenon DEF Next, decrypt_inplace, RejectPacket, FailToDecipher, Decipher, Called, vars, history
  <2> QED
    BY <2>1, <2>2, PTL DEF Spec
<1>2. received \in Received /\ IInv => AuthenticIsReturned
  BY CheckedIsAuthentic
<1> QED
  BY <1>1, <1>2, Invariance, PTL

-------------------------------------------------------------------------------
(* Only what the meter sent is returned: without an authentication key the CRC *)
(* has to show it                                                               *)

\* To encipher once more is to decipher: GCM adds a key stream.
CryptIsInvolution ==
    \A k \in Key, n \in Seq(Byte), c \in Seq(Byte) : Crypt(k, n, Crypt(k, n, c)) = c

Wiped(c) == [i \in DOMAIN c |-> 0]

\* All that calls with one key can make of an encrypted telegram, however many.
Contents(p, k) ==
    LET c == encrypted_telegram(p)
    IN  {c, Wiped(c), Crypt(k, nonce(p), c), Crypt(k, nonce(p), Wiped(c))}

\* Nothing of that has a CRC that fits by accident, as one in 65536 would: where a
\* telegram is followed by its CRC, they are the meter's.
NoCrcByAccident ==
    \A p \in Received, k \in Key : IsPacket(p) =>
        \A x \in Contents(p, k) : \A e \in 1..(Len(x) - CrcLength) :
            /\ IsText(SubSeq(x, 1, e))
            /\ CrcMatches(SubSeq(x, 1, e), SubSeq(x, e + 1, e + CrcLength))
            => \E m \in Message :
                SubSeq(x, 1, e) = Text(m) /\ SubSeq(x, e + 1, e + CrcLength) = Crc(m)

\* The memory holds one of them.
ContentIsKnown ==
    IsPacket(received) /\ key # nullopt =>
        encrypted_telegram(bytes) \in Contents(received, key)

\* What replaces an encrypted telegram is the encrypted telegram afterwards.
LEMMA OverwrittenTelegram ==
    ASSUME NEW p \in Seq(Byte), IsPacket(p), NEW c \in Seq(Byte), Len(c) = telegram_length(p)
    PROVE  encrypted_telegram(Overwritten(p, c)) = c
<1> DEFINE q == Overwritten(p, c)
           n == telegram_length(p)
<1>1. HasParts(p)
  BY PacketParts
<1>2. /\ q \in Seq(Byte) /\ Len(q) = Len(p)
      /\ \A i \in DOMAIN p : q[i] # p[i] => i \in (HeaderLength + 1)..(HeaderLength + n)
  BY <1>1, OverwrittenFits
<1>3. telegram_length(q) = n
  BY <1>2, SameOutsideTelegram
<1>4. n \in Nat /\ Len(p) = 18 + n + 12 /\ Len(q) = 18 + n + 12
  BY <1>1, <1>2 DEF HasParts, HeaderLength, TagLength
<1>5. \A i \in 1..n : q[18 + i] = c[i]
  <2> TAKE i \in 1..n
  <2>1. 18 + i \in DOMAIN p /\ (18 + i) - HeaderLength = i /\ i \in DOMAIN c
    BY <1>4 DEF HeaderLength
  <2> QED
    BY <2>1 DEF Overwritten
<1>6. encrypted_telegram(q) = SubSeq(q, 19, 18 + n)
  <2>1. encrypted_telegram(q) = SubSeq(q, HeaderLength + 1, HeaderLength + n)
    BY <1>3, Zenon DEF encrypted_telegram
  <2>2. HeaderLength + 1 = 19 /\ HeaderLength + n = 18 + n
    BY DEF HeaderLength
  <2> QED
    BY <2>1, <2>2, Zenon
<1> HIDE DEF q, n
<1>7. SubSeq(q, 19, 18 + n) = c
  <2> DEFINE t == SubSeq(q, 19, 18 + n)
  <2>1. t \in Seq(Byte) /\ Len(t) = n /\ \A i \in 1..n : t[i] = q[18 + i]
    BY <1>2, <1>4
  <2>2. Len(c) = n
    BY DEF n
  <2> HIDE DEF t
  <2>3. t = c
    BY <1>4, <1>5, <2>1, <2>2, SeqEqual
  <2> QED
    BY <2>3 DEF t
<1> QED
  BY <1>6, <1>7 DEF q

\* Whatever a call leaves of one of them is one of them.
LEMMA LeftoversAreContents ==
    ASSUME CryptKeepsLength, CryptIsInvolution, IInv, ContentIsKnown,
           IsPacket(bytes), key # nullopt, NEW d \in Leftovers
    PROVE  d \in Contents(received, key)
<1> DEFINE c == encrypted_telegram(received)
           n == nonce(received)
           e == encrypted_telegram(bytes)
<1>1. IsPacket(received) /\ nonce(bytes) = n
  BY NonceAndTagKept
<1>2. e \in Contents(received, key)
  BY <1>1 DEF ContentIsKnown
<1>3. key \in Key /\ received \in Seq(Byte)
  BY DEF IInv, TypeOK
<1>4. c \in Seq(Byte) /\ n \in Seq(Byte)
  <2>1. n \in Seq(Byte)
    BY <1>1, <1>3 DEF nonce, IsPacket, HeaderLength, TagLength
  <2> QED
    BY <1>1, <1>3, <2>1, SpansOfPacket
<1> HIDE DEF c, n, e
<1>5. Wiped(c) \in Seq(Byte) /\ Len(Wiped(c)) = Len(c) /\ Wiped(Wiped(c)) = Wiped(c)
  <2>1. 0 \in Byte
    BY ByteAssumption
  <2> QED
    BY <1>4, <2>1 DEF Wiped
<1>6. \A s \in Seq(Byte) : Wiped(Crypt(key, n, s)) = Wiped(s)
  <2> TAKE s \in Seq(Byte)
  <2>1. Crypt(key, n, s) \in Seq(Byte) /\ Len(Crypt(key, n, s)) = Len(s)
    BY <1>3, <1>4 DEF CryptKeepsLength
  <2>2. DOMAIN Crypt(key, n, s) = DOMAIN s
    BY <2>1
  <2> QED
    BY <2>2 DEF Wiped
<1>7. Contents(received, key) = {c, Wiped(c), Crypt(key, n, c), Crypt(key, n, Wiped(c))}
  BY DEF Contents, c, n
<1>8. Wiped(e) = Wiped(c)
  BY <1>2, <1>4, <1>5, <1>6, <1>7, Zenon
<1>9. Crypt(key, n, e) \in Contents(received, key)
  <2>1. Crypt(key, n, Crypt(key, n, c)) = c
    BY <1>3, <1>4, Zenon DEF CryptIsInvolution
  <2>2. Crypt(key, n, Crypt(key, n, Wiped(c))) = Wiped(c)
    BY <1>3, <1>4, <1>5, Zenon DEF CryptIsInvolution
  <2> QED
    BY <1>2, <1>7, <2>1, <2>2, Zenon
<1>10. d \in {e, Wiped(e), Crypt(key, n, e)}
  BY <1>1, Zenon DEF Leftovers, Wiped, e
<1> QED
  BY <1>2, <1>7, <1>8, <1>9, <1>10, Zenon

LEMMA NextContent ==
    ASSUME CryptKeepsLength, CryptIsInvolution
    PROVE  IInv /\ ContentIsKnown /\ [Next]_vars => ContentIsKnown'
<1> SUFFICES ASSUME IInv, ContentIsKnown, [Next]_vars PROVE ContentIsKnown'
  OBVIOUS
<1>1. UNCHANGED <<key, received>>
  BY Zenon DEF Next, decrypt_inplace, RejectPacket, FailToDecipher, Decipher, Called,
               Gcm!Fail, Gcm!Succeed, vars, config, history
<1>2. CASE UNCHANGED bytes
  BY <1>1, <1>2, Zenon DEF ContentIsKnown
<1>3. CASE FailToDecipher \/ Decipher
  <2>1. IsPacket(bytes) /\ \E d \in Leftovers : bytes' = Overwritten(bytes, d)
    BY <1>3, Zenon DEF FailToDecipher, Decipher
  <2>2. PICK d \in Leftovers : bytes' = Overwritten(bytes, d)
    BY <2>1
  <2>3. bytes \in Seq(Byte) /\ key \in Key \cup {nullopt}
    BY DEF IInv, TypeOK
  <2>4. d \in Seq(Byte) /\ Len(d) = telegram_length(bytes)
    BY <2>1, <2>3, LeftoversFit
  <2>5. encrypted_telegram(bytes') = d
    BY <2>1, <2>2, <2>3, <2>4, OverwrittenTelegram
  <2>6. key # nullopt => d \in Contents(received, key)
    BY <2>1, LeftoversAreContents
  <2> QED
    BY <1>1, <2>5, <2>6, Zenon DEF ContentIsKnown
<1> QED
  BY <1>2, <1>3, Zenon DEF Next, decrypt_inplace, RejectPacket, vars

\* What from_bytes finds with its CRC is a telegram up to its '!' and four characters.
LEMMA FoundIsChecked ==
    ASSUME NEW x \in Seq(Byte), from_bytes(x, TRUE) # nullopt
    PROVE  \E e \in 1..(Len(x) - CrcLength) :
              /\ IsText(SubSeq(x, 1, e))
              /\ CrcMatches(SubSeq(x, 1, e), SubSeq(x, e + 1, e + CrcLength))
              /\ full_content(x, from_bytes(x, TRUE))
                    = SubSeq(x, 1, e) \o SubSeq(x, e + 1, e + CrcLength)
<1> DEFINE e == FindEnd(x)
           t == SubSeq(x, 1, e)
<1>1. /\ Len(x) > 0 /\ x[1] = StartSymbol
      /\ EndPositions(x) # {}
      /\ HasCrcSuffix(x) /\ CrcVerified(x)
      /\ from_bytes(x, TRUE) = [size |-> e + CrcLength, has_crc_suffix |-> TRUE]
  BY DEF from_bytes, StartsWithSlash
<1>2. e \in EndPositions(x) /\ \A i \in EndPositions(x) : e <= i
  BY <1>1, FindEndFinds
<1>3. e \in 1..(Len(x) - CrcLength) /\ x[e] = EndSymbol
  BY <1>1, <1>2 DEF HasCrcSuffix, CrcLength, EndPositions
<1>4. CrcMatches(t, SubSeq(x, e + 1, e + CrcLength))
  BY <1>1, Zenon DEF CrcVerified
<1> HIDE DEF e
<1>5. e \in Nat /\ e <= Len(x) /\ e + 4 <= Len(x) /\ e > 1
  <2>1. e # 1
    BY <1>1, <1>3, SymbolsAssumption
  <2> QED
    BY <1>3, <2>1 DEF CrcLength
<1>6. t \in Seq(Byte) /\ Len(t) = e /\ \A i \in 1..e : t[i] = x[i]
  BY <1>5
<1> HIDE DEF t
<1>7. IsText(t)
  <2>1. \A i \in 1..(e - 1) : t[i] # EndSymbol
    <3> TAKE i \in 1..(e - 1)
    <3>1. i \in 1..Len(x) /\ i < e /\ t[i] = x[i]
      BY <1>5, <1>6
    <3> QED
      BY <1>2, <3>1 DEF EndPositions
  <2>2. t[1] = StartSymbol /\ t[e] = EndSymbol
    BY <1>1, <1>3, <1>5, <1>6
  <2>3. Len(t) = e /\ Len(t) > 1 /\ t \in Seq(Byte)
    BY <1>5, <1>6
  <2> QED
    BY <2>1, <2>2, <2>3, Zenon DEF IsText
<1>8. full_content(x, from_bytes(x, TRUE)) = SubSeq(x, 1, e + 4)
  <2>1. PICK v : v = from_bytes(x, TRUE)
    BY Zenon
  <2>2. v = [size |-> e + CrcLength, has_crc_suffix |-> TRUE]
    BY <1>1, <2>1, Zenon
  <2>3. v.size = e + 4
    BY <2>2 DEF CrcLength
  <2> QED
    BY <2>1, <2>3, Zenon DEF full_content
<1>9. SubSeq(x, 1, e + 4) = t \o SubSeq(x, e + 1, e + 4)
  BY <1>5 DEF t
<1> QED
  BY <1>3, <1>4, <1>7, <1>8, <1>9 DEF t, CrcLength

LEMMA CheckedIsGenuine ==
    ASSUME CryptKeepsLength, CryptIsInvolution, Unforged, NoCrcByAccident,
           received \in Received, IInv, ContentIsKnown
    PROVE  OnlyGenuineIsReturned
<1> SUFFICES ASSUME telegram # nullopt, aad # nullopt \/ check_crc
             PROVE  \E m \in Message :
                        full_content(encrypted_telegram(bytes), telegram) = Text(m) \o Crc(m)
  BY DEF OnlyGenuineIsReturned
<1>1. CASE aad # nullopt
  <2>1. AuthenticIsReturned
    BY CheckedIsAuthentic
  <2> QED
    BY <1>1, <2>1, Zenon DEF AuthenticIsReturned
<1>2. CASE check_crc
  <2> DEFINE x == encrypted_telegram(bytes)
  <2>1. /\ IsPacket(bytes) /\ key # nullopt
        /\ telegram = from_bytes(x, check_crc)
    BY Zenon DEF IInv, ReturnedIsChecked
  <2>2. bytes \in Seq(Byte) /\ key \in Key /\ check_crc = TRUE
    BY <1>2, <2>1 DEF IInv, TypeOK
  <2>3. IsPacket(received) /\ x \in Contents(received, key)
    BY <2>1, NonceAndTagKept DEF ContentIsKnown
  <2>4. x \in Seq(Byte) /\ telegram = from_bytes(x, TRUE)
    BY <2>1, <2>2, SpansOfPacket
  <2> HIDE DEF x
  <2>5. PICK e \in 1..(Len(x) - CrcLength) :
            /\ IsText(SubSeq(x, 1, e))
            /\ CrcMatches(SubSeq(x, 1, e), SubSeq(x, e + 1, e + CrcLength))
            /\ full_content(x, telegram) = SubSeq(x, 1, e) \o SubSeq(x, e + 1, e + CrcLength)
    BY <2>4, FoundIsChecked, Zenon
  <2>6. PICK m \in Message :
            SubSeq(x, 1, e) = Text(m) /\ SubSeq(x, e + 1, e + CrcLength) = Crc(m)
    BY <2>2, <2>3, <2>5, Zenon DEF NoCrcByAccident
  <2> QED
    BY <2>5, <2>6, Zenon DEF x
<1> QED
  BY <1>1, <1>2

\* With an authentication key or the CRC check, a telegram that is returned is one the
\* meter sent, after any number of calls on the same memory: the calls wipe, decipher
\* and encipher again, and lead back to what they began with.
THEOREM OnlyGenuineTelegramsAreReturned ==
    ASSUME CryptKeepsLength, CryptIsInvolution, Unforged, NoCrcByAccident
    PROVE  Spec => []OnlyGenuineIsReturned
<1>1. Spec => [](received \in Received)
  <2>1. Init => received \in Received
    BY DEF Init
  <2>2. received \in Received /\ [Next]_vars => (received \in Received)'
    BY Zenon DEF Next, decrypt_inplace, RejectPacket, FailToDecipher, Decipher, Called, vars, history
  <2> QED
    BY <2>1, <2>2, PTL DEF Spec
<1>2. Spec => []ContentIsKnown
  <2>1. Init => ContentIsKnown
    BY DEF Init, ContentIsKnown, Contents
  <2>2. IInv /\ ContentIsKnown /\ [Next]_vars => ContentIsKnown'
    BY NextContent
  <2> QED
    BY <2>1, <2>2, Invariance, PTL DEF Spec
<1>3. received \in Received /\ IInv /\ ContentIsKnown => OnlyGenuineIsReturned
  BY CheckedIsGenuine
<1> QED
  BY <1>1, <1>2, <1>3, Invariance, PTL
===============================================================================
