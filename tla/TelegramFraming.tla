--------------------------- MODULE TelegramFraming ----------------------------
(***************************************************************************)
(* What a PacketAccumulator promises, without its buffer, its states and   *)
(* its counters.  Each received byte extends the run of bytes that began   *)
(* at the latest '/'.  A byte delivers a telegram exactly when it makes    *)
(* that run a complete frame: it ends in its first '!' or, where a CRC is  *)
(* required, in the four characters after it, and these are the CRC.  A    *)
(* frame that does not fit in the buffer is never delivered.               *)
(***************************************************************************)
EXTENDS Integers, Sequences

CONSTANTS Byte, StartSymbol, EndSymbol, nullopt, CrcMatches(_, _), BufferSize

VARIABLES
    check_crc,  \* whether a frame needs a correct CRC; never changes
    since,      \* the bytes received from the latest '/' on; <<>> before the first
    out         \* what the latest byte delivered: nullopt, or the telegram's text

vars == <<check_crc, since, out>>

\* The number of bytes a frame has after its '!'.
Trailer(crc) == IF crc THEN 4 ELSE 0

IsFrame(run, crc) ==
    \E e \in 1..Len(run) :
        /\ run[e] = EndSymbol
        /\ \A i \in 1..(e - 1) : run[i] # EndSymbol
        /\ Len(run) = e + Trailer(crc)
        /\ Len(run) <= BufferSize
        /\ crc => CrcMatches(SubSeq(run, 1, e), SubSeq(run, e + 1, e + 4))

Extended(b) ==
    IF b = StartSymbol
    THEN <<b>>
    ELSE IF since = <<>> THEN <<>> ELSE Append(since, b)

Delivery(run) ==
    IF IsFrame(run, check_crc)
    THEN [full |-> run, body |-> SubSeq(run, 1, Len(run) - Trailer(check_crc))]
    ELSE nullopt

Init ==
    /\ check_crc \in BOOLEAN
    /\ since = <<>>
    /\ out = nullopt

Receive(b) ==
    /\ since' = Extended(b)
    /\ out' = Delivery(since')
    /\ UNCHANGED check_crc

Next == \E b \in Byte : Receive(b)

Spec == Init /\ [][Next]_vars
===============================================================================
