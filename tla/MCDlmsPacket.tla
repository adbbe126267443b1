----------------------------- MODULE MCDlmsPacket ------------------------------
(***************************************************************************)
(* DlmsPacketDecryptor for TLC: the packets of a meter, as they were sent, *)
(* and changed, cut, merged or mixed up on the way.  The cipher is an XOR  *)
(* with a byte that depends on the key and the invocation counter; tags    *)
(* and CRCs are those of the meter's packets and match nothing else.       *)
(***************************************************************************)
EXTENDS DlmsMeter

CONSTANTS k1, k2, a1, a2

MCByte == 0..255

FlipAll(b) == 255 - b
FlipTop(b) == (b + 128) % 256
FlipSign(b) == FlipTop(FlipAll(b))

MCCrypt(k, n, c) ==
    [i \in DOMAIN c |->
        IF k = k2 THEN FlipSign(c[i]) ELSE IF n[12] = 1 THEN FlipAll(c[i]) ELSE FlipTop(c[i])]

-------------------------------------------------------------------------------
(* The meter *)

TextOf(body) == <<47>> \o body \o <<33>>        \* '/' body '!'

CrcOf(body) == <<48, 49, 65, 48 + Len(body)>>   \* four hexadecimal digits

Bodies == {<<97>>, <<97, 98>>, <<97, 98, 99>>, <<97, 98, 99, 97, 98, 99, 97>>}

MCCrcMatches(text, crc) == \E b \in Bodies : text = TextOf(b) /\ crc = CrcOf(b)

\* What the meter sends: the plaintext of the first is too short for a packet; the last
\* is so long that a packet may be cut in its CRC.
MCMessage == {[body |-> <<97>>, counter |-> 1],
              [body |-> <<97, 98>>, counter |-> 1],
              [body |-> <<97, 98, 99>>, counter |-> 2],
              [body |-> <<97, 98, 99, 97, 98, 99, 97>>, counter |-> 2]}

MCText(m) == TextOf(m.body)

MCCrc(m) == CrcOf(m.body)

MCMeterNonce(m) == <<83, 89, 83, 84, 69, 77, 73, 68, 0, 0, 0, m.counter>>

\* The tag of a message is a number of its own, twelve times.
MCTagOf(k, n, a, c) ==
    LET sealed == {m \in MCMessage :
            /\ k = k1 /\ a = a1 /\ n = MCMeterNonce(m)
            /\ c = MCCrypt(k1, n, MCText(m) \o MCCrc(m) \o <<13, 10>>)}
    IN  [i \in 1..12 |-> IF sealed = {} THEN 0 ELSE Len(c)]

-------------------------------------------------------------------------------
(* What arrives *)

Intact == {Sealed(m) : m \in MCMessage}

Changed(p) ==
    UNION {{[p EXCEPT ![i] = b] : b \in {(p[i] + 1) % 256, FlipAll(p[i]), FlipTop(47)}} :
            i \in DOMAIN p}

Cut(p) == {SubSeq(p, 1, n) : n \in 0..Len(p)} \cup {SubSeq(p, n, Len(p)) : n \in 2..Len(p)}

Lost(p) == {SubSeq(p, 1, i - 1) \o SubSeq(p, i + 1, Len(p)) : i \in DOMAIN p}

\* The lengths that come close to the checks of from_bytes, in what there is of p.
WithLength(p) ==
    {[[p EXCEPT ![12] = t \div 256] EXCEPT ![13] = t % 256] :
        t \in (Len(p) - 14)..(Len(p) - 12) \cup {0, 16, 17, 26, 27, 255, 256, 65535}}

Beginnings(p) == {SubSeq(p, 1, n) : n \in 18..Len(p)}

Merged == {p \o q : p \in Intact, q \in Intact \cup {<<13>>}}

\* The nonce of one packet before the telegram of another.
Mixed == {SubSeq(p, 1, 18) \o SubSeq(q, 19, Len(q)) : p \in Intact, q \in Intact}

MCReceived ==
    Intact \cup Merged \cup Mixed
        \cup UNION {Changed(p) \cup Cut(p) \cup Lost(p) : p \in Intact}
        \cup UNION {WithLength(q) : q \in UNION {Beginnings(p) : p \in Intact}}

===============================================================================
