-------------------------- MODULE PacketAccumulator ---------------------------
(***************************************************************************)
(* PacketAccumulator (packet_accumulator.h): bytes arrive one at a time,   *)
(* process_byte collects them in a buffer the caller owns and returns a    *)
(* telegram, a view into that buffer, when one is complete.                *)
(*                                                                         *)
(* A step is one call of process_byte.  Each action is one path through    *)
(* it, the overflow check at its top included.                             *)
(***************************************************************************)
EXTENDS Telegram

CONSTANT BufferSize     \* size of the std::span given to the constructor

\* add() writes without a check, so an empty span would be overrun by the
\* first '/': a non-empty one is the caller's obligation.
ASSUME BufferAssumption == BufferSize \in Nat \ {0}

VARIABLES
    raw_buffer,             \* the caller's memory: arbitrary before it is written
    packetSize,             \* DsmrPacketBuffer::_packetSize
    state,
    amount_of_crc_nibbles,
    check_crc,
    telegram,               \* what the latest process_byte returned
    since,                  \* history: the bytes received from the latest '/' on
    held                    \* history: the latest telegram as the client read it,
                            \* <<>> once a later '/' has been received

vars == <<raw_buffer, packetSize, state, amount_of_crc_nibbles, check_crc,
          telegram, since, held>>

WaitStart == "WaitingForPacketStartSymbol"
WaitEnd   == "WaitingForPacketEndSymbol"
WaitCrc   == "WaitingForCrc"

State == {WaitStart, WaitEnd, WaitCrc}

-------------------------------------------------------------------------------
(* DsmrPacketBuffer *)

BytesIn(buffer, n) == [i \in 1..n |-> buffer[i]]

packet == BytesIn(raw_buffer, packetSize)

has_space == packetSize < BufferSize

add(b) ==
    /\ raw_buffer' = [raw_buffer EXCEPT ![packetSize + 1] = b]
    /\ packetSize' = packetSize + 1

-------------------------------------------------------------------------------
Init ==
    /\ raw_buffer \in [1..BufferSize -> Byte]
    /\ packetSize = 0
    /\ state = WaitStart
    /\ amount_of_crc_nibbles = 0
    /\ check_crc \in BOOLEAN
    /\ telegram = nullopt
    /\ since = <<>>
    /\ held = <<>>

\* process_byte returns nullopt: what was returned before stays readable.
ReturnNothing == telegram' = nullopt /\ UNCHANGED held

\* process_byte returns DsmrUnencryptedTelegram::from_bytes(packet(), crc_check).
ReturnTelegram(crc_check) ==
    /\ telegram' = from_bytes(packet', crc_check)
    /\ held' = IF telegram' = nullopt THEN held ELSE full_content(packet', telegram')

Observe(b) ==
    /\ since' = IF since = <<>> THEN <<>> ELSE Append(since, b)
    /\ UNCHANGED check_crc

\* Mutant: the buffer is not cleared first.
StartByteAppends(b) ==
    /\ b = StartSymbol
    /\ add(b)
    /\ state' = WaitEnd
    /\ telegram' = nullopt
    /\ since' = <<b>>
    /\ held' = <<>>
    /\ UNCHANGED <<amount_of_crc_nibbles, check_crc>>

\* '/' starts a packet afresh, whatever the state and however full the buffer.
StartByte(b) ==
    /\ b = StartSymbol
    /\ raw_buffer' = [raw_buffer EXCEPT ![1] = b]
    /\ packetSize' = 1
    /\ state' = WaitEnd
    /\ telegram' = nullopt
    /\ since' = <<b>>
    /\ held' = <<>>
    /\ UNCHANGED <<amount_of_crc_nibbles, check_crc>>

\* Mutant: the overflow clears the buffer and keeps the state.
OverflowByteKeepsState(b) ==
    /\ b # StartSymbol
    /\ ~has_space
    /\ packetSize' = 0
    /\ ReturnNothing
    /\ Observe(b)
    /\ UNCHANGED <<raw_buffer, state, amount_of_crc_nibbles>>

\* The buffer is full: what it holds is discarded, and b with it.
OverflowByte(b) ==
    /\ b # StartSymbol
    /\ ~has_space
    /\ packetSize' = 0
    /\ state' = WaitStart
    /\ ReturnNothing
    /\ Observe(b)
    /\ UNCHANGED <<raw_buffer, amount_of_crc_nibbles>>

\* Mutant: noise between packets is stored too.
IgnoredByteStores(b) ==
    /\ b # StartSymbol
    /\ has_space
    /\ state = WaitStart
    /\ add(b)
    /\ ReturnNothing
    /\ Observe(b)
    /\ UNCHANGED <<state, amount_of_crc_nibbles>>

IgnoredByte(b) ==
    /\ b # StartSymbol
    /\ has_space
    /\ state = WaitStart
    /\ ReturnNothing
    /\ Observe(b)
    /\ UNCHANGED <<raw_buffer, packetSize, state, amount_of_crc_nibbles>>

BodyByte(b) ==
    /\ b \notin {StartSymbol, EndSymbol}
    /\ has_space
    /\ state = WaitEnd
    /\ add(b)
    /\ ReturnNothing
    /\ Observe(b)
    /\ UNCHANGED <<state, amount_of_crc_nibbles>>

EndByteWithoutCrc(b) ==
    /\ b = EndSymbol
    /\ has_space
    /\ state = WaitEnd
    /\ ~check_crc
    /\ add(b)
    /\ state' = WaitStart
    /\ ReturnTelegram(FALSE)
    /\ Observe(b)
    /\ UNCHANGED amount_of_crc_nibbles

\* Mutant: the counter of the previous packet is kept.
EndByteKeepsNibbles(b) ==
    /\ b = EndSymbol
    /\ has_space
    /\ state = WaitEnd
    /\ check_crc
    /\ add(b)
    /\ state' = WaitCrc
    /\ ReturnNothing
    /\ Observe(b)
    /\ UNCHANGED amount_of_crc_nibbles

EndByteBeforeCrc(b) ==
    /\ b = EndSymbol
    /\ has_space
    /\ state = WaitEnd
    /\ check_crc
    /\ add(b)
    /\ state' = WaitCrc
    /\ amount_of_crc_nibbles' = 0
    /\ ReturnNothing
    /\ Observe(b)

CrcByte(b) ==
    /\ b # StartSymbol
    /\ has_space
    /\ state = WaitCrc
    /\ amount_of_crc_nibbles' = amount_of_crc_nibbles + 1
    /\ amount_of_crc_nibbles' < CrcLength
    /\ add(b)
    /\ ReturnNothing
    /\ Observe(b)
    /\ UNCHANGED state

\* Mutant: the CRC is collected and not compared.
LastCrcByteUnchecked(b) ==
    /\ b # StartSymbol
    /\ has_space
    /\ state = WaitCrc
    /\ amount_of_crc_nibbles' = amount_of_crc_nibbles + 1
    /\ amount_of_crc_nibbles' >= CrcLength
    /\ add(b)
    /\ state' = WaitStart
    /\ ReturnTelegram(FALSE)
    /\ Observe(b)

LastCrcByte(b) ==
    /\ b # StartSymbol
    /\ has_space
    /\ state = WaitCrc
    /\ amount_of_crc_nibbles' = amount_of_crc_nibbles + 1
    /\ amount_of_crc_nibbles' >= CrcLength
    /\ add(b)
    /\ state' = WaitStart
    /\ ReturnTelegram(TRUE)
    /\ Observe(b)

process_byte(b) ==
    \/ StartByte(b)
    \/ OverflowByte(b)
    \/ IgnoredByte(b)
    \/ BodyByte(b)
    \/ EndByteWithoutCrc(b)
    \/ EndByteBeforeCrc(b)
    \/ CrcByte(b)
    \/ LastCrcByte(b)

Next == \E b \in Byte : process_byte(b)

Spec == Init /\ [][Next]_vars

-------------------------------------------------------------------------------
(* Properties *)

\* Types; and packetSize never passes the end of the buffer, so that no add()
\* writes outside it (packet_accumulator.h:22 does not check).
TypeOK ==
    /\ raw_buffer \in [1..BufferSize -> Byte]
    /\ packetSize \in 0..BufferSize
    /\ state \in State
    /\ amount_of_crc_nibbles \in 0..CrcLength
    /\ check_crc \in BOOLEAN
    /\ telegram \in View \cup {nullopt}
    /\ since \in Seq(Byte)
    /\ held \in Seq(Byte)

\* The first '!' of a run is at e.
FirstEndAt(run, e) ==
    /\ run[e] = EndSymbol
    /\ \A i \in 1..(e - 1) : run[i] # EndSymbol

\* The number of bytes after the '!' of a frame.
Trailer(crc) == IF crc THEN CrcLength ELSE 0

\* The run of bytes has reached, or passed, the last byte of a frame.
Finished(run, crc) ==
    \E e \in 1..Len(run) :
        /\ FirstEndAt(run, e)
        /\ e + Trailer(crc) <= Len(run)

\* A telegram returned by process_byte lies within the packet, begins with the
\* only '/' in it, its text without the CRC ends in its first '!' and is long
\* enough for the parser's substr(1, size - 2) (parser.h:229), the CRC is there
\* exactly if the accumulator checks it, and it was verified.
TelegramWellFormed ==
    telegram # nullopt =>
        LET text == full_content(packet, telegram)
            body == content_without_crc(packet, telegram)
        IN  /\ telegram.size <= packetSize
            /\ Len(body) >= 2
            /\ \A i \in 1..Len(text) : text[i] = StartSymbol <=> i = 1
            /\ FirstEndAt(text, Len(body))
            /\ Len(text) = Len(body) + Trailer(check_crc)
            /\ telegram.has_crc_suffix = check_crc
            /\ check_crc => CrcMatches(body, SubSeq(text, Len(body) + 1, Len(text)))

\* The string_views of a telegram point into the buffer that later calls write.
\* They keep their bytes through noise, line ends and overflow: until the next '/'.
HeldTelegramIntact ==
    /\ Len(held) <= BufferSize
    /\ BytesIn(raw_buffer, Len(held)) = held

\* While the accumulator waits for the rest of a packet, its buffer holds all
\* the bytes received since the latest '/', its state says which part of a frame
\* they are and its counter how much of the CRC is there.  It stops waiting
\* only when the frame is complete or too long for the buffer: never early.
TracksRun ==
    /\ state # WaitStart => packet = since
    /\ state = WaitEnd =>
        since # <<>> /\ \A i \in 1..Len(since) : since[i] # EndSymbol
    /\ state = WaitCrc =>
        /\ check_crc
        /\ amount_of_crc_nibbles < CrcLength
        /\ amount_of_crc_nibbles < Len(since)
        /\ FirstEndAt(since, Len(since) - amount_of_crc_nibbles)
    /\ state = WaitStart =>
        since = <<>> \/ Len(since) > BufferSize \/ Finished(since, check_crc)

Framing == INSTANCE TelegramFraming WITH
    out <- IF telegram = nullopt
           THEN nullopt
           ELSE [full |-> full_content(packet, telegram),
                 body |-> content_without_crc(packet, telegram)]

\* The accumulator implements the abstract framing: every frame that fits is
\* delivered, at its last byte and with its exact text, whatever noise, aborted
\* packets, failed CRCs or overflows came before; and nothing else is delivered.
FramingSpec == Framing!Spec

-------------------------------------------------------------------------------
(* The inductive invariant of the proofs, checked by TLC first *)

\* A run begins with its only '/'.
RunStartsOnce ==
    since # <<>> =>
        \A i \in 1..Len(since) : since[i] = StartSymbol <=> i = 1

\* The return value is determined by the run alone.
DeliversFrames ==
    /\ telegram = IF Framing!IsFrame(since, check_crc)
                  THEN [size |-> Len(since), has_crc_suffix |-> check_crc]
                  ELSE nullopt
    /\ Framing!IsFrame(since, check_crc) => packet = since

IInv ==
    /\ TypeOK
    /\ HeldTelegramIntact
    /\ state # WaitStart => held = <<>>
    /\ RunStartsOnce
    /\ TracksRun
    /\ DeliversFrames
===============================================================================
