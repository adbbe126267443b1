------------------------- MODULE MCPacketAccumulator --------------------------
(***************************************************************************)
(* PacketAccumulator for TLC: four byte values, a CRC that two different   *)
(* bodies do not share, and runs of at most MaxRun bytes without a '/'.    *)
(***************************************************************************)
EXTENDS PacketAccumulator

CONSTANT MaxRun     \* bound: bytes received after a '/' before the next one

MCByte == {"/", "!", "a", "b"}

\* A stand-in for the CRC: one character that depends on the body, then "aaa".
MCCrcMatches(body, crc) ==
    /\ crc[1] = IF \E i \in DOMAIN body : body[i] = "b" THEN "b" ELSE "a"
    /\ \A i \in 2..4 : crc[i] = "a"

MCNext ==
    \E b \in Byte :
        /\ b = StartSymbol \/ Len(since) < MaxRun
        /\ process_byte(b)

\* Unwritten memory is still arbitrary, but the same everywhere: what earlier
\* packets leave behind gives the variety.
MCInit == Init /\ raw_buffer \in {[i \in 1..BufferSize |-> b] : b \in Byte}

MCSpec == MCInit /\ [][MCNext]_vars
===============================================================================
