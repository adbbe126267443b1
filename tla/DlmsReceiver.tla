----------------------------- MODULE DlmsReceiver ------------------------------
(***************************************************************************)
(* The receive loop of dlms_packet_decryptor_example_test.cpp: a client    *)
(* that tells the packets of a meter by the silence between them and gives *)
(* each one to DlmsPacketDecryptor.  With it the meter, the UART and time. *)
(*                                                                         *)
(* Bytes arrive and time passes between any two steps of loop().           *)
(***************************************************************************)
EXTENDS Integers, Sequences

CONSTANTS
    Size,           \* dlms_packet_buffer.size(), 4000
    Timeout,        \* the silence that ends a packet, 1000 ms
    MaxMillis,      \* half the range of long: millis() and its differences wrap there
    Packet,         \* names of packets; a later packet may have the name again
    Lengths,        \* lengths of the packets of the meter
    MinGap,         \* the meter is silent for at least this long between packets, 10 s
    MaxByteGap,     \* and for at most this long within one
    MaxPause,       \* time between two calls of loop()
    MaxDelay        \* time that may pass in the while loop of a call, or after it

ASSUME ReceiverAssumption ==
    /\ {Timeout, MaxMillis, MinGap, MaxByteGap, MaxPause, MaxDelay} \subseteq Nat
    /\ Size \in Nat \ {0}
    /\ Lengths \subseteq Nat \ {0}

\* The longest time from one step of loop() to the same step of the next call.
Period == MaxPause + 2 * MaxDelay

\* What a client has to see to: a loop that stands still for less time than a
\* silence within a packet leaves of the timeout, and that is called often enough
\* to notice the silence between two packets.
ASSUME TimingAssumption ==
    /\ MaxByteGap + MaxDelay <= Timeout
    /\ Timeout + 2 * Period < MinGap
    /\ Timeout + Period < MaxMillis

VARIABLES
    packet, length, sent,   \* the meter's packet, its length, how many bytes were sent
    quiet,          \* for how long the meter has been silent (up to MinGap)
    uart,           \* what has arrived and was not read
    buffer,         \* the bytes of dlms_packet_buffer before its position
    last_read_timestamp,
    now,            \* millis()
    pc,             \* in loop(): "read", "check"; "idle" between two calls
    waited,         \* for how long loop() has been at pc
    intact,         \* history: no byte of this packet was lost
    whole           \* history: this packet was handed to the decryptor, complete

meter == <<packet, length, sent>>
memory == <<buffer, last_read_timestamp>>
vars == <<meter, quiet, uart, memory, now, pc, waited, intact, whole>>

\* Byte k of a packet, as one can tell it in the buffer.
Byte(k) == <<packet, k>>

\* long arithmetic
Wrap(n) == ((n + MaxMillis) % (2 * MaxMillis)) - MaxMillis

Fits == length <= Size

\* The client starts at any time, with the meter at any place in a packet.
Init ==
    /\ packet \in Packet
    /\ length \in Lengths
    /\ sent \in 0..length
    /\ quiet = 0
    /\ uart = <<>>
    /\ buffer = <<>>
    /\ last_read_timestamp = 0
    /\ now = 0
    /\ pc = "idle"
    /\ waited = 0
    /\ intact = (sent = 0)
    /\ whole = FALSE

-------------------------------------------------------------------------------
(* The meter and its line *)

Send(p, n) ==
    /\ packet' = p
    /\ length' = n
    /\ quiet' = 0
    /\ UNCHANGED <<memory, now, pc, waited>>

StartPacket ==
    /\ sent = length
    /\ quiet >= MinGap
    /\ \E p \in Packet \ {packet}, n \in Lengths : Send(p, n)
    /\ sent' = 0
    /\ intact' = TRUE
    /\ whole' = FALSE
    /\ UNCHANGED uart

\* A byte may be lost on the line, or because the UART is full.
SendByte ==
    /\ sent < length
    /\ sent' = sent + 1
    /\ Send(packet, length)
    /\ \E lost \in BOOLEAN :
        /\ uart' = IF lost THEN uart ELSE Append(uart, Byte(sent + 1))
        /\ intact' = (intact /\ ~lost)
    /\ UNCHANGED whole

MaxWait == IF pc = "idle" THEN MaxPause ELSE MaxDelay

\* Time passes, but not so much that the meter or the client would be late.
Tick ==
    /\ sent < length => quiet < MaxByteGap
    /\ waited < MaxWait
    /\ now' = Wrap(now + 1)
    /\ quiet' = IF quiet < MinGap THEN quiet + 1 ELSE quiet
    /\ waited' = waited + 1
    /\ UNCHANGED <<meter, uart, memory, pc, intact, whole>>

-------------------------------------------------------------------------------
(* loop() *)

Goto(step) == pc' = step /\ waited' = IF step = pc THEN waited ELSE 0

Loop ==
    /\ pc = "idle"
    /\ Goto("read")
    /\ UNCHANGED <<meter, quiet, uart, memory, now, intact, whole>>

position == Len(buffer)

\* Mutant of KeptBytes: the overflow is noticed a byte later.
KeptBytesLate == IF position > Size THEN <<>> ELSE buffer

\* A full buffer is filled again from its start.
KeptBytes == IF position >= Size THEN <<>> ELSE buffer

ReadByte ==
    /\ pc = "read"
    /\ uart # <<>>
    /\ buffer' = Append(KeptBytes, Head(uart))
    /\ last_read_timestamp' = now
    /\ uart' = Tail(uart)
    /\ UNCHANGED <<meter, quiet, now, pc, waited, intact, whole>>

NothingAvailable ==
    /\ pc = "read"
    /\ uart = <<>>
    /\ Goto("check")
    /\ UNCHANGED <<meter, quiet, uart, memory, now, intact, whole>>

\* Mutants of IsSilent: the timeout is a tick shorter; the clock never wraps.
IsSilentInclusive == Wrap(now - last_read_timestamp) >= Timeout

IsSilentUnwrapped == now - last_read_timestamp > Timeout

IsSilent == Wrap(now - last_read_timestamp) > Timeout

KeepWaiting ==
    /\ pc = "check"
    /\ ~(IsSilent /\ position > 0)
    /\ Goto("idle")
    /\ UNCHANGED <<meter, quiet, uart, memory, now, intact, whole>>

\* Mutant of HandPacket: position is reset only after a packet was deciphered.
HandPacketKeepsFailed ==
    /\ pc = "check"
    /\ IsSilent
    /\ position > 0
    /\ whole' = (whole \/ buffer = [k \in 1..length |-> Byte(k)])
    /\ buffer' = IF buffer = [k \in 1..length |-> Byte(k)] THEN <<>> ELSE buffer
    /\ Goto("idle")
    /\ UNCHANGED <<meter, quiet, uart, last_read_timestamp, now, intact>>

\* decrypt_inplace gets the span; position is reset whatever it answers.
HandPacket ==
    /\ pc = "check"
    /\ IsSilent
    /\ position > 0
    /\ whole' = (whole \/ buffer = [k \in 1..length |-> Byte(k)])
    /\ buffer' = <<>>
    /\ Goto("idle")
    /\ UNCHANGED <<meter, quiet, uart, last_read_timestamp, now, intact>>

Next ==
    \/ StartPacket
    \/ SendByte
    \/ Tick
    \/ Loop
    \/ ReadByte
    \/ NothingAvailable
    \/ KeepWaiting
    \/ HandPacket

\* Time does not stand still (the steps of loop() may be so fast that it does not
\* pass within a call, so Tick is not enabled all the time), the client's main loop
\* calls loop(), and no step of that is endless.  The meter owes nothing.
Fairness ==
    /\ SF_vars(Tick)
    /\ WF_vars(Loop)
    /\ WF_vars(ReadByte)
    /\ WF_vars(NothingAvailable)
    /\ WF_vars(KeepWaiting \/ HandPacket)

Spec == Init /\ [][Next]_vars /\ Fairness

-------------------------------------------------------------------------------
(* Properties *)

TypeOK ==
    /\ packet \in Packet
    /\ sent \in 0..length
    /\ quiet \in 0..MinGap
    /\ position \in 0..Size
    /\ {now, last_read_timestamp} \subseteq (-MaxMillis)..(MaxMillis - 1)
    /\ pc \in {"idle", "read", "check"}
    /\ waited \in 0..MaxWait

\* Bytes of two packets are never in the buffer, nor in the UART, together: an
\* overflow, lost bytes or a wrap of the clock spoil the packet they happen in and
\* leave the next one alone.
NeverMixed ==
    LET bytes == buffer \o uart
    IN  \A j, k \in DOMAIN bytes : j < k =>
            bytes[j][1] = bytes[k][1] /\ bytes[j][2] < bytes[k][2]

\* A packet that arrives complete and fits in the buffer has been handed to the
\* decryptor, complete, before the meter starts the next one.
NoPacketIsMissed ==
    [][StartPacket /\ intact /\ Fits => whole]_vars

\* It does not take the next packet to get the last one out.
PacketIsHandedOver ==
    (sent = length /\ intact /\ Fits) ~> whole
===============================================================================
