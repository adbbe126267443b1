-------------------------- MODULE DlmsReceiverProofs ---------------------------
(***************************************************************************)
(* DlmsReceiver for buffers, packets and times of any size that meet the   *)
(* timing assumption: packets are not mixed and not missed.                *)
(***************************************************************************)
EXTENDS DlmsReceiver, TLAPS

LEMMA Constants ==
    /\ Timeout \in Int /\ 0 <= Timeout
    /\ MaxMillis \in Int /\ 0 < MaxMillis
    /\ MinGap \in Int /\ MaxByteGap \in Int /\ 0 <= MaxByteGap
    /\ MaxPause \in Int /\ 0 <= MaxPause
    /\ MaxDelay \in Int /\ 0 <= MaxDelay
    /\ Size \in Int /\ 0 < Size
    /\ Period \in Int /\ Period = MaxPause + MaxDelay + MaxDelay
    /\ MaxByteGap + MaxDelay <= Timeout
    /\ Timeout + Period + Period < MinGap
    /\ Timeout + Period < MaxMillis
BY ReceiverAssumption, TimingAssumption DEF Period

-------------------------------------------------------------------------------
(* The clock *)

LEMMA WrapCases ==
    ASSUME NEW n \in Int
    PROVE  /\ -MaxMillis <= n /\ n < MaxMillis => Wrap(n) = n
           /\ MaxMillis <= n /\ n < 3 * MaxMillis => Wrap(n) = n - 2 * MaxMillis
           /\ -3 * MaxMillis <= n /\ n < -MaxMillis => Wrap(n) = n + 2 * MaxMillis
BY Constants DEF Wrap

InClock(n) == n \in Int /\ -MaxMillis <= n /\ n < MaxMillis

\* Time that passes is measured also where the clock wraps, up to half its range.
LEMMA WrapTick ==
    ASSUME NEW t, NEW last, InClock(t), InClock(last), Wrap(t - last) + 1 < MaxMillis
    PROVE  /\ InClock(Wrap(t + 1))
           /\ Wrap(t - last) \in Int
           /\ Wrap(Wrap(t + 1) - last) = Wrap(t - last) + 1
<1>1. /\ t \in Int /\ -MaxMillis <= t /\ t < MaxMillis
      /\ last \in Int /\ -MaxMillis <= last /\ last < MaxMillis
      /\ MaxMillis \in Int /\ 0 < MaxMillis
  BY Constants DEF InClock
<1>2. CASE t + 1 < MaxMillis
  <2>1. Wrap(t + 1) = t + 1
    BY <1>1, <1>2, WrapCases
  <2> QED
    BY <1>1, <1>2, <2>1, WrapCases DEF InClock
<1>3. CASE ~(t + 1 < MaxMillis)
  <2>1. t + 1 = MaxMillis /\ Wrap(t + 1) = -MaxMillis
    BY <1>1, <1>3, WrapCases
  <2> QED
    BY <1>1, <2>1, WrapCases DEF InClock
<1> QED
  BY <1>2, <1>3

\* Every reading of the clock, and every difference of two, is in its range.
LEMMA WrapInClock ==
    ASSUME NEW n \in Int, -3 * MaxMillis <= n, n < 3 * MaxMillis
    PROVE  InClock(Wrap(n))
BY WrapCases, Constants DEF InClock

LEMMA WrapZero == Wrap(0) = 0
BY WrapCases, Constants
-------------------------------------------------------------------------------
(* The invariant *)

Elapsed == Wrap(now - last_read_timestamp)

\* For how long, at most, nobody has looked at the clock, and has found uart empty.
SinceCheck ==
    IF pc = "idle" THEN waited
    ELSE IF pc = "read" THEN MaxPause + waited
    ELSE MaxPause + MaxDelay + waited

SinceEmpty ==
    IF pc = "check" THEN waited
    ELSE IF pc = "idle" THEN MaxDelay + waited
    ELSE MaxDelay + MaxPause + waited

Types ==
    /\ packet \in Packet
    /\ length \in Int /\ 0 < length
    /\ sent \in Int /\ 0 <= sent /\ sent <= length
    /\ quiet \in Int /\ 0 <= quiet /\ quiet <= MinGap
    /\ waited \in Int /\ 0 <= waited /\ waited <= MaxWait
    /\ pc \in {"idle", "read", "check"}
    /\ InClock(now) /\ InClock(last_read_timestamp)
    /\ intact \in BOOLEAN /\ whole \in BOOLEAN
    /\ sent < length => quiet <= MaxByteGap

Strings ==
    /\ buffer \in Seq(Packet \X Int) /\ Len(buffer) <= Size
    /\ uart \in Seq(Packet \X Int)

\* A byte does not stay where it is for long.
InTime ==
    /\ buffer # <<>> =>
        /\ 0 <= Elapsed /\ Elapsed <= Timeout + SinceCheck
        /\ quiet <= Elapsed + Period
    /\ uart # <<>> => quiet <= SinceEmpty

\* What is in the buffer, and then in the UART, are bytes of the packet that is
\* sent, in their order.
InOrder(s) == \A j, k \in 1..Len(s) : j < k => s[j][2] < s[k][2]

OfPacket(s) == \A k \in 1..Len(s) : s[k][1] = packet /\ s[k][2] <= sent

Ordered ==
    /\ OfPacket(buffer) /\ OfPacket(uart)
    /\ InOrder(buffer) /\ InOrder(uart)
    /\ \A j \in 1..Len(buffer), k \in 1..Len(uart) : buffer[j][2] < uart[k][2]

\* A packet that is to be handed over, and has not been.
Pending == intact /\ Fits /\ ~whole

\* All that was sent of it is there.
Complete ==
    Pending =>
        /\ Len(buffer) + Len(uart) = sent
        /\ \A k \in 1..Len(buffer) : buffer[k] = Byte(k)
        /\ \A k \in 1..Len(uart) : uart[k] = Byte(Len(buffer) + k)

\* A silence within it does not look like its end.
Unread ==
    Pending /\ buffer # <<>> =>
        /\ uart = <<>> => Elapsed <= quiet
        /\ pc = "check" /\ (sent < length \/ uart # <<>>) => Elapsed <= MaxByteGap + waited

IInv ==
    /\ Types
    /\ Strings
    /\ InTime
    /\ Ordered
    /\ Complete
    /\ Unread

LEMMA InitIInv == Init => IInv
<1> SUFFICES ASSUME Init PROVE IInv
  OBVIOUS
<1>1. length \in Int /\ 0 < length
  BY ReceiverAssumption DEF Init
<1>2. Types
  <2>1. intact \in BOOLEAN /\ whole \in BOOLEAN
    BY Zenon DEF Init
  <2>2. /\ packet \in Packet
        /\ sent \in Int /\ 0 <= sent /\ sent <= length
        /\ quiet = 0 /\ waited = 0 /\ pc = "idle" /\ now = 0 /\ last_read_timestamp = 0
    BY <1>1 DEF Init
  <2> QED
    BY <1>1, <2>1, <2>2, Constants DEF Types, InClock, MaxWait
<1>3. buffer = <<>> /\ uart = <<>> /\ (intact => sent = 0)
  BY DEF Init
<1>4. Strings /\ InTime /\ Ordered
  BY <1>3, Constants DEF Strings, InTime, Ordered, OfPacket, InOrder
<1>5. Complete /\ Unread
  BY <1>3 DEF Complete, Unread, Pending
<1> QED
  BY <1>2, <1>4, <1>5 DEF IInv

-------------------------------------------------------------------------------
(* What it says of a step *)

LEMMA Waits ==
    ASSUME Types
    PROVE  /\ waited \in Int /\ 0 <= waited
           /\ pc = "idle" => waited <= MaxPause
           /\ pc # "idle" => waited <= MaxDelay
           /\ SinceCheck \in Int /\ 0 <= SinceCheck /\ SinceCheck <= Period
           /\ SinceEmpty \in Int /\ 0 <= SinceEmpty /\ SinceEmpty <= Period
           /\ Elapsed \in Int
<1>1. /\ waited \in Int /\ 0 <= waited
      /\ pc = "idle" => waited <= MaxPause
      /\ pc # "idle" => waited <= MaxDelay
      /\ pc \in {"idle", "read", "check"}
  BY DEF Types, MaxWait
<1>2. Elapsed \in Int
  <2>1. /\ now - last_read_timestamp \in Int
        /\ -3 * MaxMillis <= now - last_read_timestamp
        /\ now - last_read_timestamp < 3 * MaxMillis
    BY Constants DEF Types, InClock
  <2> QED
    BY <2>1, WrapInClock DEF InClock, Elapsed
<1> QED
  BY <1>1, <1>2, Constants DEF SinceCheck, SinceEmpty

\* When the gap between two packets is over, the first of them is gone.
LEMMA GapMeansEmpty ==
    ASSUME IInv, quiet >= MinGap
    PROVE  buffer = <<>> /\ uart = <<>>
<1>1. quiet \in Int /\ Types /\ InTime
  BY DEF IInv, Types
<1> QED
  BY <1>1, Waits, Constants DEF InTime

\* The clock does not wrap while bytes are in the buffer.
LEMMA ElapsedTicks ==
    ASSUME IInv, Tick
    PROVE  /\ InClock(now')
           /\ buffer # <<>> => Elapsed' = Elapsed + 1
<1>1. /\ InClock(now) /\ InClock(last_read_timestamp)
      /\ now' = Wrap(now + 1) /\ last_read_timestamp' = last_read_timestamp
      /\ Types /\ InTime
  BY DEF IInv, Types, Tick, memory
<1>2. InClock(now')
  <2>1. /\ now + 1 \in Int /\ -3 * MaxMillis <= now + 1 /\ now + 1 < 3 * MaxMillis
    BY <1>1, Constants DEF InClock
  <2> QED
    BY <1>1, <2>1, WrapInClock
<1>3. ASSUME buffer # <<>> PROVE Elapsed' = Elapsed + 1
  <2>1. Elapsed + 1 < MaxMillis
    <3>1. waited < MaxWait
      BY DEF Tick
    <3>2. Elapsed <= Timeout + SinceCheck
      BY <1>1, <1>3 DEF InTime
    <3>3. SinceCheck < Period
      BY <1>1, <3>1, Waits, Constants DEF SinceCheck, MaxWait, Types
    <3> QED
      BY <1>1, <3>2, <3>3, Waits, Constants
  <2>2. Wrap(Wrap(now + 1) - last_read_timestamp) = Wrap(now - last_read_timestamp) + 1
    BY <1>1, <2>1, WrapTick DEF Elapsed
  <2> QED
    BY <1>1, <2>2 DEF Elapsed
<1> QED
  BY <1>2, <1>3

-------------------------------------------------------------------------------
(* Each step keeps it *)

\* What a step of the loop that moves no byte leaves as it is.
LEMMA SameBytes ==
    ASSUME IInv, UNCHANGED <<meter, uart, buffer, intact, whole>>
    PROVE  Strings' /\ Ordered' /\ Complete'
<1> USE DEF meter
<1>1. Strings'
  BY DEF IInv, Strings
<1>2. Ordered'
  BY DEF IInv, Ordered, OfPacket, InOrder
<1>3. Complete'
  BY DEF IInv, Complete, Pending, Fits, Byte
<1> QED
  BY <1>1, <1>2, <1>3

LEMMA StartPacketIInv ==
    ASSUME IInv, StartPacket
    PROVE  IInv'
<1>1. buffer = <<>> /\ uart = <<>>
  BY GapMeansEmpty DEF StartPacket
<1>2. /\ buffer' = <<>> /\ uart' = <<>> /\ sent' = 0 /\ quiet' = 0
      /\ length' \in Lengths /\ packet' \in Packet
      /\ intact' = TRUE /\ whole' = FALSE
      /\ UNCHANGED <<last_read_timestamp, now, pc, waited>>
  BY <1>1 DEF StartPacket, Send, memory
<1>3. length' \in Int /\ 0 < length'
  BY <1>2, ReceiverAssumption
<1>4. Types'
  <2>1. /\ waited' \in Int /\ 0 <= waited' /\ waited' <= MaxWait' /\ pc' \in {"idle", "read", "check"}
        /\ InClock(now') /\ InClock(last_read_timestamp')
    BY <1>2 DEF IInv, Types, MaxWait
  <2>2. /\ sent' \in Int /\ 0 <= sent' /\ sent' <= length'
        /\ quiet' \in Int /\ 0 <= quiet' /\ quiet' <= MinGap /\ quiet' <= MaxByteGap
    BY <1>2, <1>3, Constants
  <2>3. intact' \in BOOLEAN /\ whole' \in BOOLEAN
    BY <1>2, Zenon
  <2> QED
    BY <1>2, <1>3, <2>1, <2>2, <2>3 DEF Types
<1>5. Strings' /\ InTime' /\ Ordered'
  BY <1>2, Constants DEF Strings, InTime, Ordered, OfPacket, InOrder
<1>6. Complete' /\ Unread'
  BY <1>2 DEF Complete, Unread
<1> QED
  BY <1>4, <1>5, <1>6 DEF IInv

LEMMA TickIInv ==
    ASSUME IInv, Tick
    PROVE  IInv'
<1>1. Types /\ InTime /\ Unread
  BY DEF IInv
<1>2. /\ waited' = waited + 1 /\ waited < MaxWait
      /\ quiet' = (IF quiet < MinGap THEN quiet + 1 ELSE quiet)
      /\ sent < length => quiet < MaxByteGap
      /\ UNCHANGED <<packet, length, sent, uart, buffer, last_read_timestamp, pc, intact, whole>>
  BY DEF Tick, meter, memory
<1>3. Types'
  <2>1. quiet' \in Int /\ 0 <= quiet' /\ quiet' <= MinGap /\ (sent < length => quiet' <= MaxByteGap)
    BY <1>1, <1>2, Constants DEF Types
  <2>2. waited' \in Int /\ 0 <= waited' /\ waited' <= MaxWait'
    BY <1>1, <1>2, Constants DEF Types, MaxWait
  <2>3. InClock(now')
    BY ElapsedTicks
  <2> QED
    BY <1>1, <1>2, <2>1, <2>2, <2>3 DEF Types
<1>4. SinceCheck' = SinceCheck + 1 /\ SinceEmpty' = SinceEmpty + 1
  BY <1>1, <1>2, Constants DEF SinceCheck, SinceEmpty, Types
<1>5. quiet \in Int /\ quiet' <= quiet + 1
  BY <1>1, <1>2 DEF Types
<1>6. InTime'
  <2>1. CASE buffer # <<>>
    <3>1. 0 <= Elapsed /\ Elapsed <= Timeout + SinceCheck /\ quiet <= Elapsed + Period
      BY <1>1, <2>1 DEF InTime
    <3>2. Elapsed' = Elapsed + 1 /\ quiet' \in Int
      BY <1>3, <2>1, ElapsedTicks DEF Types
    <3>3. 0 <= Elapsed' /\ Elapsed' <= Timeout + SinceCheck' /\ quiet' <= Elapsed' + Period
      BY <1>1, <1>4, <1>5, <3>1, <3>2, Waits, Constants
    <3>4. uart # <<>> => quiet' <= SinceEmpty'
      BY <1>1, <1>4, <1>5, <3>2, Waits DEF InTime
    <3> QED
      BY <1>2, <3>3, <3>4 DEF InTime
  <2>2. CASE buffer = <<>>
    <3>1. quiet' \in Int
      BY <1>3 DEF Types
    <3>2. uart # <<>> => quiet' <= SinceEmpty'
      BY <1>1, <1>4, <1>5, <3>1, Waits DEF InTime
    <3> QED
      BY <1>2, <2>2, <3>2 DEF InTime
  <2> QED
    BY <2>1, <2>2
<1>7. Unread'
  <2>1. buffer # <<>> => quiet' = quiet + 1
    BY <1>1, <1>2, <1>5, GapMeansEmpty, Constants DEF Types
  <2>2. Pending' <=> Pending
    BY <1>2 DEF Pending, Fits
  <2> QED
    BY <1>1, <1>2, <1>5, <2>1, <2>2, ElapsedTicks, Waits, Constants DEF Unread
<1>8. Strings' /\ Ordered' /\ Complete'
  BY <1>2, SameBytes DEF meter
<1> QED
  BY <1>3, <1>6, <1>7, <1>8 DEF IInv

\* A step of loop() that goes on to another one, without a byte.
LEMMA GotoTypes ==
    ASSUME IInv, NEW step \in {"idle", "read", "check"}, step # pc, Goto(step),
           UNCHANGED <<meter, quiet, now, last_read_timestamp>>,
           intact' \in BOOLEAN, whole' \in BOOLEAN
    PROVE  Types' /\ pc' = step /\ waited' = 0
<1>1. pc' = step /\ waited' = 0
  BY DEF Goto
<1> QED
  BY <1>1, Constants DEF meter, IInv, Types, MaxWait

LEMMA LoopIInv ==
    ASSUME IInv, Loop
    PROVE  IInv'
<1>1. /\ pc = "idle" /\ UNCHANGED <<meter, quiet, uart, buffer, last_read_timestamp, now, intact, whole>>
      /\ Goto("read") /\ Types /\ InTime /\ Unread
  BY DEF Loop, memory, IInv
<1>2. Types' /\ pc' = "read" /\ waited' = 0
  BY <1>1, GotoTypes DEF Types
<1>3. SinceCheck <= SinceCheck' /\ SinceEmpty <= SinceEmpty' /\ SinceCheck' \in Int /\ SinceEmpty' \in Int
  BY <1>1, <1>2, Waits, Constants DEF SinceCheck, SinceEmpty
<1>4. Elapsed' = Elapsed /\ quiet \in Int
  BY <1>1 DEF Elapsed, Types
<1>5. InTime'
  BY <1>1, <1>3, <1>4, Waits, Constants DEF InTime
<1>6. Unread'
  BY <1>1, <1>2, <1>4 DEF Unread, Pending, Fits, meter
<1> QED
  BY <1>1, <1>2, <1>5, <1>6, SameBytes DEF IInv

LEMMA NothingAvailableIInv ==
    ASSUME IInv, NothingAvailable
    PROVE  IInv'
<1>1. /\ pc = "read" /\ uart = <<>>
      /\ UNCHANGED <<meter, quiet, uart, buffer, last_read_timestamp, now, intact, whole>>
      /\ Goto("check") /\ Types /\ InTime /\ Unread
  BY DEF NothingAvailable, memory, IInv
<1>2. Types' /\ pc' = "check" /\ waited' = 0
  BY <1>1, GotoTypes DEF Types
<1>3. SinceCheck <= SinceCheck' /\ SinceCheck' \in Int
  BY <1>1, <1>2, Waits, Constants DEF SinceCheck
<1>4. Elapsed' = Elapsed /\ quiet \in Int
  BY <1>1 DEF Elapsed, Types
<1>5. InTime'
  BY <1>1, <1>3, <1>4, Waits, Constants DEF InTime
<1>6. Unread'
  <2>1. sent < length => quiet <= MaxByteGap
    BY <1>1 DEF Types
  <2> QED
    BY <1>1, <1>2, <1>4, <2>1, Waits, Constants DEF Unread, Pending, Fits, meter
<1> QED
  BY <1>1, <1>2, <1>5, <1>6, SameBytes DEF IInv

LEMMA KeepWaitingIInv ==
    ASSUME IInv, KeepWaiting
    PROVE  IInv'
<1>1. /\ pc = "check" /\ ~(IsSilent /\ position > 0)
      /\ UNCHANGED <<meter, quiet, uart, buffer, last_read_timestamp, now, intact, whole>>
      /\ Goto("idle") /\ Types /\ InTime /\ Unread /\ Strings
  BY DEF KeepWaiting, memory, IInv
<1>2. Types' /\ pc' = "idle" /\ waited' = 0
  BY <1>1, GotoTypes DEF Types
<1>3. SinceCheck' = 0 /\ SinceEmpty <= SinceEmpty' /\ SinceEmpty' \in Int
  BY <1>1, <1>2, Waits, Constants DEF SinceCheck, SinceEmpty
<1>4. Elapsed' = Elapsed /\ quiet \in Int
  BY <1>1 DEF Elapsed, Types
<1>5. buffer # <<>> => Elapsed <= Timeout
  <2>1. buffer # <<>> => position > 0
    BY <1>1 DEF Strings, position
  <2> QED
    BY <1>1, <2>1, Waits, Constants DEF IsSilent, Elapsed
<1>6. InTime'
  BY <1>1, <1>3, <1>4, <1>5, Waits, Constants DEF InTime
<1>7. Unread'
  BY <1>1, <1>2, <1>4 DEF Unread, Pending, Fits, meter
<1> QED
  BY <1>1, <1>2, <1>6, <1>7, SameBytes DEF IInv

LEMMA AppendFacts ==
    ASSUME NEW S, NEW s \in Seq(S), NEW x \in S
    PROVE  /\ Append(s, x) \in Seq(S)
           /\ Len(Append(s, x)) = Len(s) + 1
           /\ Append(s, x)[Len(s) + 1] = x
           /\ \A k \in 1..Len(s) : Append(s, x)[k] = s[k]
OBVIOUS

LEMMA TailFacts ==
    ASSUME NEW S, NEW s \in Seq(S), s # <<>>
    PROVE  /\ Head(s) \in S /\ Head(s) = s[1] /\ 1 \in 1..Len(s)
           /\ Tail(s) \in Seq(S) /\ Len(Tail(s)) = Len(s) - 1
           /\ \A k \in 1..Len(Tail(s)) : Tail(s)[k] = s[k + 1] /\ k + 1 \in 1..Len(s)
OBVIOUS

\* The bytes of a string have numbers.
LEMMA Numbered ==
    ASSUME NEW s \in Seq(Packet \X Int), NEW k \in 1..Len(s)
    PROVE  s[k][2] \in Int
OBVIOUS

LEMMA SendByteIInv ==
    ASSUME IInv, SendByte
    PROVE  IInv'
<1> DEFINE byte == <<packet, sent + 1>>
<1>1. /\ sent < length /\ sent' = sent + 1 /\ quiet' = 0
      /\ UNCHANGED <<packet, length, buffer, last_read_timestamp, now, pc, waited, whole>>
      /\ \/ uart' = uart /\ intact' = FALSE
         \/ uart' = Append(uart, byte) /\ intact' = intact
  BY DEF SendByte, Send, memory, Byte, IInv, Types
<1>2. /\ Types /\ Strings /\ InTime /\ Ordered /\ Complete /\ Unread
      /\ sent \in Int /\ packet \in Packet /\ byte \in Packet \X Int
  BY DEF IInv, Types
<1>3. Types'
  <2>1. sent' \in Int /\ 0 <= sent' /\ sent' <= length
    BY <1>1, <1>2 DEF Types
  <2>2. waited' <= MaxWait'
    BY <1>1, <1>2 DEF Types, MaxWait
  <2>3. 0 <= MinGap
    BY Constants
  <2>4. intact' \in BOOLEAN
    BY <1>1, <1>2 DEF Types
  <2> QED
    BY <1>1, <1>2, <2>1, <2>2, <2>3, <2>4, Constants DEF Types
<1>4. Strings'
  <2>1. buffer \in Seq(Packet \X Int) /\ Len(buffer) <= Size /\ uart \in Seq(Packet \X Int)
    BY <1>2 DEF Strings
  <2>2. Append(uart, byte) \in Seq(Packet \X Int)
    BY <1>2, <2>1, AppendFacts, Zenon
  <2>3. uart' \in Seq(Packet \X Int)
    BY <1>1, <2>1, <2>2
  <2> QED
    BY <1>1, <2>1, <2>3 DEF Strings
<1>5. InTime'
  <2>1. /\ Elapsed' = Elapsed /\ SinceCheck' = SinceCheck
        /\ SinceEmpty' \in Int /\ 0 <= SinceEmpty'
    BY <1>1, <1>2, Waits DEF Elapsed, SinceCheck, SinceEmpty
  <2> QED
    BY <1>1, <1>2, <2>1, Waits, Constants DEF InTime
<1>6. /\ OfPacket(buffer)' /\ InOrder(buffer)'
  <2>1. \A k \in 1..Len(buffer) : buffer[k][2] \in Int
    BY <1>2, Numbered DEF Strings
  <2>2. OfPacket(buffer) /\ InOrder(buffer)
    BY <1>2 DEF Ordered
  <2>3. \A k \in 1..Len(buffer) : buffer[k][1] = packet /\ buffer[k][2] <= sent + 1
    BY <1>2, <2>1, <2>2 DEF OfPacket
  <2>4. OfPacket(buffer)'
    BY <1>1, <2>3 DEF OfPacket
  <2> QED
    BY <1>1, <2>2, <2>4 DEF InOrder
<1>7. CASE uart' = uart /\ intact' = FALSE
  <2>1. \A k \in 1..Len(uart) : uart[k][2] \in Int
    BY <1>2, Numbered DEF Strings
  <2>2. Ordered'
    BY <1>1, <1>2, <1>6, <1>7, <2>1 DEF Ordered, OfPacket, InOrder
  <2>3. Complete' /\ Unread'
    BY <1>7 DEF Complete, Unread, Pending
  <2> QED
    BY <1>3, <1>4, <1>5, <2>2, <2>3 DEF IInv
<1>8. CASE uart' = Append(uart, byte) /\ intact' = intact
  <2>1. /\ Len(uart') = Len(uart) + 1 /\ Len(uart) \in Nat
        /\ uart'[Len(uart) + 1] = byte
        /\ \A k \in 1..Len(uart) : uart'[k] = uart[k]
        /\ uart' # <<>>
    BY <1>2, <1>8, AppendFacts DEF Strings
  <2>2. \A k \in 1..Len(uart) : uart[k][2] \in Int /\ uart[k][2] <= sent /\ uart[k][1] = packet
    BY <1>2, Numbered DEF Strings, Ordered, OfPacket
  <2>3. \A k \in 1..Len(buffer) : buffer[k][2] \in Int /\ buffer[k][2] <= sent
    BY <1>2, Numbered DEF Strings, Ordered, OfPacket
  <2>4. \A k \in 1..Len(uart') : k \in 1..Len(uart) \/ k = Len(uart) + 1
    BY <2>1
  <2>5. OfPacket(uart)'
    BY <1>1, <1>2, <2>1, <2>2, <2>4 DEF OfPacket
  <2>6. InOrder(uart)'
    BY <1>2, <2>1, <2>2, <2>4 DEF Ordered, InOrder
  <2>7. \A j \in 1..Len(buffer), k \in 1..Len(uart') : buffer[j][2] < uart'[k][2]
    BY <1>2, <2>1, <2>3, <2>4 DEF Ordered
  <2>8. Ordered'
    BY <1>1, <1>6, <2>5, <2>6, <2>7 DEF Ordered
  <2>9. Pending' <=> Pending
    BY <1>1, <1>8 DEF Pending, Fits
  <2>10. Complete'
    <3>1. ASSUME Pending
          PROVE  /\ Len(buffer) + Len(uart) = sent
                 /\ \A k \in 1..Len(buffer) : buffer[k] = Byte(k)
                 /\ \A k \in 1..Len(uart) : uart[k] = Byte(Len(buffer) + k)
      BY <1>2, <3>1 DEF Complete
    <3>2. Len(buffer) \in Nat
      BY <1>2 DEF Strings
    <3>3. ASSUME Pending
          PROVE  /\ Len(buffer) + Len(uart') = sent + 1
                 /\ \A k \in 1..Len(uart') : uart'[k] = Byte(Len(buffer) + k)
      <4>1. Byte(Len(buffer) + (Len(uart) + 1)) = byte
        BY <2>1, <3>1, <3>2, <3>3 DEF Byte
      <4> QED
        BY <2>1, <2>4, <3>1, <3>2, <3>3, <4>1
    <3>4. \A k : Byte(k)' = Byte(k)
      BY <1>1 DEF Byte
    <3> QED
      BY <1>1, <2>9, <3>1, <3>3, <3>4 DEF Complete
  <2>11. Unread'
    <3>1. Elapsed' = Elapsed
      BY <1>1 DEF Elapsed
    <3> QED
      BY <1>1, <1>2, <2>1, <2>9, <3>1 DEF Unread
  <2> QED
    BY <1>3, <1>4, <1>5, <2>8, <2>10, <2>11 DEF IInv
<1> QED
  BY <1>1, <1>7, <1>8

LEMMA ReadByteIInv ==
    ASSUME IInv, ReadByte
    PROVE  IInv'
<1> DEFINE byte == uart[1]
<1>1. /\ pc = "read" /\ uart # <<>>
      /\ buffer' = Append(KeptBytes, Head(uart)) /\ uart' = Tail(uart)
      /\ last_read_timestamp' = now
      /\ UNCHANGED <<packet, length, sent, quiet, now, pc, waited, intact, whole>>
  BY DEF ReadByte, meter
<1>2. Types /\ Strings /\ InTime /\ Ordered /\ Complete /\ Unread
  BY DEF IInv
<1>3. /\ uart \in Seq(Packet \X Int) /\ buffer \in Seq(Packet \X Int)
      /\ Len(buffer) \in Nat /\ Len(uart) \in Nat /\ Len(buffer) <= Size
  BY <1>2 DEF Strings
<1>4. /\ byte \in Packet \X Int /\ Head(uart) = byte /\ 1 \in 1..Len(uart)
      /\ uart' \in Seq(Packet \X Int) /\ Len(uart') = Len(uart) - 1
      /\ \A k \in 1..Len(uart') : uart'[k] = uart[k + 1] /\ k + 1 \in 1..Len(uart)
  BY <1>1, <1>3, TailFacts
<1>5. KeptBytes = <<>> \/ KeptBytes = buffer
  BY DEF KeptBytes
<1>6. /\ KeptBytes \in Seq(Packet \X Int) /\ Len(KeptBytes) \in Nat /\ Len(KeptBytes) < Size
      /\ \A k \in 1..Len(KeptBytes) : KeptBytes[k] = buffer[k] /\ k \in 1..Len(buffer)
  BY <1>3, Constants DEF KeptBytes, position
<1>7. /\ buffer' \in Seq(Packet \X Int) /\ Len(buffer') = Len(KeptBytes) + 1
      /\ buffer'[Len(KeptBytes) + 1] = byte
      /\ \A k \in 1..Len(KeptBytes) : buffer'[k] = KeptBytes[k]
  BY <1>1, <1>4, <1>6, AppendFacts
<1>8. \A k \in 1..Len(buffer') : k \in 1..Len(KeptBytes) \/ k = Len(KeptBytes) + 1
  BY <1>6, <1>7
<1>9. Strings'
  BY <1>3, <1>4, <1>6, <1>7, Constants DEF Strings
<1>10. Types'
  BY <1>1, <1>2, Zenon DEF Types, MaxWait
<1>11. Elapsed' = 0
  <2>1. now - now = 0
    BY <1>2 DEF Types, InClock
  <2> QED
    BY <1>1, <2>1, WrapZero DEF Elapsed
<1>12. InTime'
  <2>1. /\ quiet \in Int /\ quiet <= SinceEmpty /\ quiet <= Period
    BY <1>1, <1>2, Waits, Constants DEF InTime, Types
  <2>2. SinceCheck' = SinceCheck /\ SinceEmpty' = SinceEmpty
    BY <1>1 DEF SinceCheck, SinceEmpty
  <2> QED
    BY <1>1, <1>2, <1>11, <2>1, <2>2, Waits, Constants DEF InTime
<1>13. Ordered'
  <2>1. /\ \A k \in 1..Len(uart) : uart[k][1] = packet /\ uart[k][2] <= sent
        /\ \A k \in 1..Len(buffer) : buffer[k][1] = packet /\ buffer[k][2] <= sent
        /\ \A j, k \in 1..Len(buffer) : j < k => buffer[j][2] < buffer[k][2]
        /\ \A j, k \in 1..Len(uart) : j < k => uart[j][2] < uart[k][2]
        /\ \A j \in 1..Len(buffer), k \in 1..Len(uart) : buffer[j][2] < uart[k][2]
    BY <1>2 DEF Ordered, OfPacket, InOrder
  <2>2. \A k \in 1..Len(buffer) : buffer[k][2] \in Int
    BY <1>3, Numbered
  <2>3. \A k \in 1..Len(uart) : uart[k][2] \in Int
    BY <1>3, Numbered
  <2>4. \A k \in 1..Len(KeptBytes) :
            k \in 1..Len(buffer) /\ buffer'[k] = buffer[k] /\ buffer'[k][2] < byte[2]
    BY <1>4, <1>6, <1>7, <2>1
  <2>5. OfPacket(buffer)'
    <3>1. ASSUME NEW k \in 1..Len(buffer')
          PROVE  buffer'[k][1] = packet /\ buffer'[k][2] <= sent
      <4>1. CASE k \in 1..Len(KeptBytes)
        BY <2>1, <2>4, <4>1
      <4>2. CASE k = Len(KeptBytes) + 1
        BY <1>4, <1>7, <2>1, <4>2
      <4> QED
        BY <1>8, <4>1, <4>2
    <3> QED
      BY <1>1, <3>1 DEF OfPacket
  <2>6. OfPacket(uart)'
    <3>1. ASSUME NEW k \in 1..Len(uart')
          PROVE  uart'[k][1] = packet /\ uart'[k][2] <= sent
      BY <1>4, <2>1
    <3> QED
      BY <1>1, <3>1 DEF OfPacket
  <2>7. InOrder(buffer)'
    <3>1. ASSUME NEW j \in 1..Len(buffer'), NEW k \in 1..Len(buffer'), j < k
          PROVE  buffer'[j][2] < buffer'[k][2]
      <4>1. j \in 1..Len(KeptBytes)
        BY <1>6, <1>7, <3>1
      <4>2. CASE k \in 1..Len(KeptBytes)
        BY <2>1, <2>4, <3>1, <4>1, <4>2
      <4>3. CASE k = Len(KeptBytes) + 1
        BY <1>7, <2>4, <4>1, <4>3
      <4> QED
        BY <1>8, <4>2, <4>3
    <3> QED
      BY <3>1 DEF InOrder
  <2>8. InOrder(uart)'
    <3>1. ASSUME NEW j \in 1..Len(uart'), NEW k \in 1..Len(uart'), j < k
          PROVE  uart'[j][2] < uart'[k][2]
      <4>1. j + 1 < k + 1
        BY <3>1
      <4> QED
        BY <1>4, <2>1, <4>1
    <3> QED
      BY <3>1 DEF InOrder
  <2>9. ASSUME NEW j \in 1..Len(buffer'), NEW k \in 1..Len(uart')
        PROVE  buffer'[j][2] < uart'[k][2]
    <3>1. 1 < k + 1 /\ k + 1 \in 1..Len(uart) /\ uart'[k] = uart[k + 1]
      BY <1>4
    <3>2. CASE j \in 1..Len(KeptBytes)
      BY <2>1, <2>4, <3>1, <3>2
    <3>3. CASE j = Len(KeptBytes) + 1
      BY <1>4, <1>7, <2>1, <3>1, <3>3
    <3> QED
      BY <1>8, <3>2, <3>3
  <2> QED
    BY <2>5, <2>6, <2>7, <2>8, <2>9 DEF Ordered
<1>14. Pending' <=> Pending
  BY <1>1 DEF Pending, Fits
<1>15. \A k : Byte(k)' = Byte(k)
  BY <1>1 DEF Byte
<1>16. Complete'
  <2>1. ASSUME Pending
        PROVE  /\ Len(buffer') + Len(uart') = sent
               /\ \A k \in 1..Len(buffer') : buffer'[k] = Byte(k)
               /\ \A k \in 1..Len(uart') : uart'[k] = Byte(Len(buffer') + k)
    <3>1. /\ Len(buffer) + Len(uart) = sent
          /\ \A k \in 1..Len(buffer) : buffer[k] = Byte(k)
          /\ \A k \in 1..Len(uart) : uart[k] = Byte(Len(buffer) + k)
      BY <1>2, <2>1 DEF Complete
    <3>2. sent \in Int /\ sent <= Size
      <4>1. length <= Size
        BY <2>1 DEF Pending, Fits
      <4> QED
        BY <1>2, <4>1, Constants DEF Types
    <3>3. Len(uart) > 0
      BY <1>3, <1>4
    <3>4. KeptBytes = buffer
      <4>1. Len(buffer) < Size
        BY <1>3, <3>1, <3>2, <3>3, Constants
      <4> QED
        BY <1>3, <4>1, Constants DEF KeptBytes, position
    <3>5. byte = Byte(Len(buffer) + 1)
      BY <1>4, <3>1
    <3>6. \A k \in 1..Len(uart') : Len(buffer) + (k + 1) = Len(buffer') + k
      BY <1>3, <1>4, <1>7, <3>4
    <3>7. Len(buffer') + Len(uart') = sent
      BY <1>3, <1>4, <1>7, <3>1, <3>4
    <3>8. ASSUME NEW k \in 1..Len(buffer')
          PROVE  buffer'[k] = Byte(k)
      <4>1. CASE k \in 1..Len(KeptBytes)
        BY <1>6, <1>7, <3>1, <4>1
      <4>2. CASE k = Len(KeptBytes) + 1
        BY <1>7, <3>4, <3>5, <4>2
      <4> QED
        BY <1>8, <4>1, <4>2
    <3>9. ASSUME NEW k \in 1..Len(uart')
          PROVE  uart'[k] = Byte(Len(buffer') + k)
      BY <1>4, <3>1, <3>6
    <3> QED
      BY <3>7, <3>8, <3>9
  <2> QED
    BY <1>1, <1>14, <1>15, <2>1 DEF Complete
<1>17. Unread'
  <2>1. quiet \in Int /\ 0 <= quiet
    BY <1>2 DEF Types
  <2> QED
    BY <1>1, <1>11, <2>1 DEF Unread
<1> QED
  BY <1>9, <1>10, <1>12, <1>13, <1>16, <1>17 DEF IInv

\* When the loop takes a silence for the end of a packet that is pending, it is.
LEMMA SilenceIsEnd ==
    ASSUME IInv, HandPacket, Pending
    PROVE  buffer = [k \in 1..length |-> Byte(k)]
<1>1. /\ pc = "check" /\ Types /\ Strings /\ Complete /\ Unread
      /\ Elapsed > Timeout /\ Len(buffer) > 0
  BY DEF HandPacket, IInv, IsSilent, Elapsed, position
<1>2. buffer # <<>>
  BY <1>1
<1>3. ~(sent < length \/ uart # <<>>)
  BY <1>1, <1>2, Waits, Constants DEF Unread
<1>4. sent = length /\ uart = <<>>
  BY <1>1, <1>3 DEF Types
<1>5. /\ Len(buffer) \in Nat /\ Len(buffer) = length
      /\ \A k \in 1..Len(buffer) : buffer[k] = Byte(k)
  BY <1>1, <1>4 DEF Complete, Strings, Types
<1> QED
  BY <1>1, <1>5 DEF Strings

LEMMA HandPacketIInv ==
    ASSUME IInv, HandPacket
    PROVE  IInv'
<1>1. /\ pc = "check" /\ buffer' = <<>> /\ Goto("idle")
      /\ whole' = (whole \/ buffer = [k \in 1..length |-> Byte(k)])
      /\ UNCHANGED <<meter, quiet, uart, last_read_timestamp, now, intact>>
      /\ Types /\ Strings /\ InTime /\ Ordered
  BY DEF HandPacket, IInv
<1>2. intact' \in BOOLEAN /\ whole' \in BOOLEAN
  <2>1. intact' \in BOOLEAN
    BY <1>1 DEF Types
  <2>2. whole' \in BOOLEAN
    BY <1>1, Zenon
  <2> QED
    BY <2>1, <2>2
<1>3. Types' /\ pc' = "idle" /\ waited' = 0
  BY <1>1, <1>2, GotoTypes
<1>4. Strings'
  BY <1>1, Constants DEF Strings
<1>5. InTime'
  <2>1. SinceEmpty <= SinceEmpty' /\ SinceEmpty' \in Int /\ quiet \in Int
    BY <1>1, <1>3, Waits, Constants DEF SinceEmpty, Types
  <2> QED
    BY <1>1, <2>1, Waits DEF InTime
<1>6. Ordered'
  BY <1>1 DEF Ordered, OfPacket, InOrder, meter
<1>7. ~Pending'
  <2>1. CASE Pending
    BY <1>1, <2>1, SilenceIsEnd DEF Pending
  <2>2. CASE ~Pending
    BY <1>1, <2>2 DEF Pending, Fits, meter
  <2> QED
    BY <2>1, <2>2
<1>8. Complete' /\ Unread'
  BY <1>7 DEF Complete, Unread
<1> QED
  BY <1>3, <1>4, <1>5, <1>6, <1>8 DEF IInv

LEMMA NextIInv ==
    ASSUME IInv, [Next]_vars
    PROVE  IInv'
<1>1. CASE StartPacket
  BY <1>1, StartPacketIInv
<1>2. CASE SendByte
  BY <1>2, SendByteIInv
<1>3. CASE Tick
  BY <1>3, TickIInv
<1>4. CASE Loop
  BY <1>4, LoopIInv
<1>5. CASE ReadByte
  BY <1>5, ReadByteIInv
<1>6. CASE NothingAvailable
  BY <1>6, NothingAvailableIInv
<1>7. CASE KeepWaiting
  BY <1>7, KeepWaitingIInv
<1>8. CASE HandPacket
  BY <1>8, HandPacketIInv
<1>9. CASE UNCHANGED vars
  <2>1. UNCHANGED <<packet, length, sent, quiet, uart, buffer, last_read_timestamp, now,
                    pc, waited, intact, whole>>
    BY <1>9 DEF vars, meter, memory
  <2>2. Strings' /\ Ordered' /\ Complete'
    BY <2>1, SameBytes DEF meter
  <2>3. Types'
    BY <2>1 DEF IInv, Types, MaxWait
  <2>4. Elapsed' = Elapsed /\ SinceCheck' = SinceCheck /\ SinceEmpty' = SinceEmpty
    BY <2>1 DEF Elapsed, SinceCheck, SinceEmpty
  <2>5. InTime'
    BY <2>1, <2>4 DEF IInv, InTime
  <2>6. Unread'
    BY <2>1, <2>4 DEF IInv, Unread, Pending, Fits
  <2> QED
    BY <2>2, <2>3, <2>5, <2>6 DEF IInv
<1> QED
  BY <1>1, <1>2, <1>3, <1>4, <1>5, <1>6, <1>7, <1>8, <1>9 DEF Next

\* The strengthening of what follows holds in every state.
THEOREM Invariance == Spec => []IInv
<1>1. Init => IInv
  BY InitIInv
<1>2. IInv /\ [Next]_vars => IInv'
  BY NextIInv
<1> QED
  BY <1>1, <1>2, PTL DEF Spec

-------------------------------------------------------------------------------
(* The theorems *)

\* position stays within dlms_packet_buffer, also where a packet does not fit, and
\* last_read_timestamp within long, also where millis() wraps.
THEOREM TypeCorrect == Spec => []TypeOK
<1>1. IInv => TypeOK
  <2> SUFFICES ASSUME IInv PROVE TypeOK
    OBVIOUS
  <2>1. Types /\ Strings
    BY DEF IInv
  <2>2. position \in 0..Size
    BY <2>1, Constants DEF Strings, position
  <2>3. now \in (-MaxMillis)..(MaxMillis - 1) /\ last_read_timestamp \in (-MaxMillis)..(MaxMillis - 1)
    BY <2>1, Constants DEF Types, InClock
  <2>4. /\ packet \in Packet /\ sent \in 0..length /\ quiet \in 0..MinGap
        /\ pc \in {"idle", "read", "check"}
    BY <2>1, Constants DEF Types
  <2>5. waited \in 0..MaxWait
    BY <2>1, Constants DEF Types, MaxWait
  <2> QED
    BY <2>2, <2>3, <2>4, <2>5 DEF TypeOK
<1> QED
  BY <1>1, Invariance, PTL

LEMMA ConcatFacts ==
    ASSUME NEW S, NEW s \in Seq(S), NEW t \in Seq(S)
    PROVE  /\ Len(s) \in Nat /\ Len(t) \in Nat
           /\ DOMAIN (s \o t) = 1..(Len(s) + Len(t))
           /\ \A k \in 1..Len(s) : (s \o t)[k] = s[k]
           /\ \A k \in (Len(s) + 1)..(Len(s) + Len(t)) : (s \o t)[k] = t[k - Len(s)]
OBVIOUS

\* What loop() has read and what waits to be read never belongs to two packets,
\* whatever was lost and wherever the buffer overflowed.
THEOREM PacketsAreNotMixed == Spec => []NeverMixed
<1>1. IInv => NeverMixed
  <2> SUFFICES ASSUME IInv PROVE NeverMixed
    OBVIOUS
  <2> DEFINE bytes == buffer \o uart
             m == Len(buffer)
             n == Len(uart)
  <2>1. Strings /\ Ordered
    BY DEF IInv
  <2>2. /\ m \in Nat /\ n \in Nat /\ DOMAIN bytes = 1..(m + n)
        /\ \A k \in 1..m : bytes[k] = buffer[k]
        /\ \A k \in (m + 1)..(m + n) : bytes[k] = uart[k - m]
    <3>1. buffer \in Seq(Packet \X Int) /\ uart \in Seq(Packet \X Int)
      BY <2>1 DEF Strings
    <3> QED
      BY <3>1, ConcatFacts
  <2>3. /\ \A k \in 1..n : uart[k][1] = packet
        /\ \A k \in 1..m : buffer[k][1] = packet
        /\ \A j, k \in 1..m : j < k => buffer[j][2] < buffer[k][2]
        /\ \A j, k \in 1..n : j < k => uart[j][2] < uart[k][2]
        /\ \A j \in 1..m, k \in 1..n : buffer[j][2] < uart[k][2]
    BY <2>1 DEF Ordered, OfPacket, InOrder
  <2> HIDE DEF bytes, m, n
  <2>4. ASSUME NEW j \in 1..(m + n), NEW k \in 1..(m + n), j < k
        PROVE  bytes[j][1] = bytes[k][1] /\ bytes[j][2] < bytes[k][2]
    <3>1. CASE j \in 1..m /\ k \in 1..m
      BY <2>2, <2>3, <2>4, <3>1
    <3>2. CASE j \in 1..m /\ k \in (m + 1)..(m + n)
      <4>1. k - m \in 1..n
        BY <2>2, <3>2
      <4> QED
        BY <2>2, <2>3, <3>2, <4>1
    <3>3. CASE j \in (m + 1)..(m + n) /\ k \in (m + 1)..(m + n)
      <4>1. k - m \in 1..n /\ j - m \in 1..n /\ j - m < k - m
        BY <2>2, <2>4, <3>3
      <4> QED
        BY <2>2, <2>3, <3>3, <4>1
    <3>4. \/ j \in 1..m /\ k \in 1..m
          \/ j \in 1..m /\ k \in (m + 1)..(m + n)
          \/ j \in (m + 1)..(m + n) /\ k \in (m + 1)..(m + n)
      <4>1. m \in Nat /\ n \in Nat
        BY <2>2
      <4> QED
        BY <2>4, <4>1
    <3> QED
      BY <3>1, <3>2, <3>3, <3>4, Zenon
  <2>5. \A j, k \in DOMAIN bytes : j < k =>
            bytes[j][1] = bytes[k][1] /\ bytes[j][2] < bytes[k][2]
    BY <2>2, <2>4
  <2> QED
    BY <2>5 DEF NeverMixed, bytes
<1> QED
  BY <1>1, Invariance, PTL

\* A packet that no byte of was lost, and that fits, is handed to the decryptor in
\* one piece before the next one starts, however the calls of loop() fall.
THEOREM PacketsAreNotMissed == Spec => NoPacketIsMissed
<1>1. ASSUME IInv, StartPacket, intact, Fits
      PROVE  whole
  <2>1. buffer = <<>> /\ uart = <<>>
    BY <1>1, GapMeansEmpty DEF StartPacket
  <2>2. sent = length /\ sent \in Int /\ 0 < length
    BY <1>1 DEF StartPacket, IInv, Types
  <2>3. Pending => Len(buffer) + Len(uart) = sent
    BY <1>1 DEF IInv, Complete
  <2>4. ~Pending
    BY <2>1, <2>2, <2>3
  <2> QED
    BY <1>1, <2>4 DEF Pending
<1>2. IInv => [StartPacket /\ intact /\ Fits => whole]_vars
  BY <1>1
<1> QED
  BY <1>2, Invariance, PTL DEF NoPacketIsMissed
===============================================================================
