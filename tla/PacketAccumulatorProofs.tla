------------------------ MODULE PacketAccumulatorProofs ------------------------
(***************************************************************************)
(* Proofs about PacketAccumulator, for every buffer size, every set of     *)
(* byte values and every CRC.                                              *)
(***************************************************************************)
EXTENDS PacketAccumulator, SequenceTheorems, TLAPS

-------------------------------------------------------------------------------
(* Lemmas about the operators of the model *)

\* DsmrPacketBuffer::packet() is a string of _packetSize bytes.
LEMMA BytesInIsSeq ==
    ASSUME NEW buffer \in [1..BufferSize -> Byte], NEW n \in 0..BufferSize
    PROVE  /\ BytesIn(buffer, n) \in Seq(Byte)
           /\ Len(BytesIn(buffer, n)) = n
           /\ \A i \in 1..n : BytesIn(buffer, n)[i] = buffer[i]
  BY BufferAssumption DEF BytesIn

\* DsmrPacketBuffer::add appends to packet().
LEMMA AddAppends ==
    ASSUME NEW buffer \in [1..BufferSize -> Byte], NEW n \in 0..(BufferSize - 1),
           NEW b \in Byte
    PROVE  BytesIn([buffer EXCEPT ![n + 1] = b], n + 1) = Append(BytesIn(buffer, n), b)
<1> DEFINE new == [buffer EXCEPT ![n + 1] = b]
           old == BytesIn(buffer, n)
<1>1. new \in [1..BufferSize -> Byte] /\ n + 1 \in 0..BufferSize /\ n \in 0..BufferSize
  BY BufferAssumption
<1>2. /\ BytesIn(new, n + 1) \in Seq(Byte)
      /\ Len(BytesIn(new, n + 1)) = n + 1
      /\ \A i \in 1..(n + 1) : BytesIn(new, n + 1)[i] = new[i]
  BY <1>1, BytesInIsSeq
<1>3. /\ old \in Seq(Byte)
      /\ Len(old) = n
      /\ \A i \in 1..n : old[i] = buffer[i]
  BY <1>1, BytesInIsSeq
<1>4. /\ Append(old, b) \in Seq(Byte)
      /\ Len(Append(old, b)) = n + 1
      /\ \A i \in 1..n : Append(old, b)[i] = buffer[i]
      /\ Append(old, b)[n + 1] = b
  BY <1>3, AppendProperties
<1>5. \A i \in 1..(n + 1) : new[i] = IF i = n + 1 THEN b ELSE buffer[i]
  BY BufferAssumption
<1>6. \A i \in 1..(n + 1) : BytesIn(new, n + 1)[i] = Append(old, b)[i]
  <2> HIDE DEF new, old
  <2> QED
    BY <1>2, <1>4, <1>5
<1> QED
  BY <1>2, <1>4, <1>6, SeqEqual

\* A string has one first '!', and find('!') returns it.
LEMMA FindEndIsFirst ==
    ASSUME NEW bytes \in Seq(Byte), NEW e \in 1..Len(bytes), FirstEndAt(bytes, e)
    PROVE  FindEnd(bytes) = e /\ EndPositions(bytes) # {}
<1>1. e \in EndPositions(bytes) /\ \A i \in EndPositions(bytes) : e <= i
  BY DEF EndPositions, FirstEndAt
<1>2. FindEnd(bytes) \in EndPositions(bytes)
      /\ \A i \in EndPositions(bytes) : FindEnd(bytes) <= i
  BY <1>1 DEF FindEnd
<1> QED
  BY <1>1, <1>2 DEF EndPositions

\* from_bytes on a string that ends where a frame ends.
LEMMA FromBytesOfFrame ==
    ASSUME NEW run \in Seq(Byte), NEW e \in 1..Len(run), NEW crc \in BOOLEAN,
           run[1] = StartSymbol, FirstEndAt(run, e),
           Len(run) = e + Trailer(crc)
    PROVE  from_bytes(run, crc) =
             IF crc => CrcMatches(SubSeq(run, 1, e), SubSeq(run, e + 1, e + 4))
             THEN [size |-> Len(run), has_crc_suffix |-> crc]
             ELSE nullopt
<1>1. FindEnd(run) = e /\ EndPositions(run) # {} /\ StartsWithSlash(run)
  BY FindEndIsFirst DEF StartsWithSlash
<1>2. HasCrcSuffix(run) = crc
  BY <1>1 DEF HasCrcSuffix, CrcLength, Trailer
<1>3. crc => CrcVerified(run) = CrcMatches(SubSeq(run, 1, e), SubSeq(run, e + 1, e + 4))
  BY <1>1 DEF CrcVerified, CrcLength
<1>4. CASE crc
  BY <1>1, <1>2, <1>3, <1>4 DEF from_bytes, CrcLength, Trailer
<1>5. CASE ~crc
  BY <1>1, <1>2, <1>5 DEF from_bytes, CrcLength, Trailer
<1> QED
  BY <1>4, <1>5

\* The run is a frame exactly if its first '!' is where a frame's last byte
\* puts it.
LEMMA FrameAt ==
    ASSUME NEW run \in Seq(Byte), NEW e \in 1..Len(run), NEW crc \in BOOLEAN,
           FirstEndAt(run, e)
    PROVE  Framing!IsFrame(run, crc) <=>
             /\ Len(run) = e + Trailer(crc)
             /\ Len(run) <= BufferSize
             /\ crc => CrcMatches(SubSeq(run, 1, e), SubSeq(run, e + 1, e + 4))
<1>1. \A f \in 1..Len(run) :
        run[f] = EndSymbol /\ (\A i \in 1..(f - 1) : run[i] # EndSymbol) => f = e
  BY DEF FirstEndAt
<1> QED
  BY <1>1 DEF FirstEndAt, Framing!IsFrame, Framing!Trailer, Trailer, CrcLength

LEMMA NoEndNoFrame ==
    ASSUME NEW run \in Seq(Byte), NEW crc \in BOOLEAN,
           \A i \in 1..Len(run) : run[i] # EndSymbol
    PROVE  ~Framing!IsFrame(run, crc)
  BY DEF Framing!IsFrame

\* A first '!' stays the first when the run grows.
LEMMA FirstEndStays ==
    ASSUME NEW run \in Seq(Byte), NEW b \in Byte, NEW e \in 1..Len(run),
           FirstEndAt(run, e)
    PROVE  FirstEndAt(Append(run, b), e) /\ e \in 1..Len(Append(run, b))
  BY AppendProperties DEF FirstEndAt

\* A finished run that grows is finished and no longer a frame.
LEMMA FinishedStays ==
    ASSUME NEW run \in Seq(Byte), NEW b \in Byte, NEW crc \in BOOLEAN,
           Finished(run, crc)
    PROVE  /\ Finished(Append(run, b), crc)
           /\ ~Framing!IsFrame(Append(run, b), crc)
<1>1. PICK e \in 1..Len(run) : FirstEndAt(run, e) /\ e + Trailer(crc) <= Len(run)
  BY DEF Finished
<1>2. FirstEndAt(Append(run, b), e) /\ e \in 1..Len(Append(run, b))
  BY <1>1, FirstEndStays
<1>3. Append(run, b) \in Seq(Byte) /\ Len(Append(run, b)) = Len(run) + 1
  BY AppendProperties
<1>4. e + Trailer(crc) < Len(Append(run, b))
  BY <1>1, <1>3 DEF Trailer, CrcLength
<1>5. Finished(Append(run, b), crc)
  BY <1>2, <1>3, <1>4 DEF Finished, Trailer, CrcLength
<1>6. ~Framing!IsFrame(Append(run, b), crc)
  <2>1. Framing!IsFrame(Append(run, b), crc) => Len(Append(run, b)) = e + Trailer(crc)
    BY <1>2, <1>3, FrameAt
  <2>2. e + Trailer(crc) \in Int /\ Len(Append(run, b)) \in Int
    BY <1>3 DEF Trailer, CrcLength
  <2> QED
    BY <2>1, <2>2, <1>4
<1> QED
  BY <1>5, <1>6

-------------------------------------------------------------------------------
(* Lemmas about the steps *)

\* A byte other than '/' extends the run, if there is one.
LEMMA ObserveExtends ==
    ASSUME TypeOK, RunStartsOnce, NEW b \in Byte, b # StartSymbol, Observe(b)
    PROVE  /\ since' \in Seq(Byte)
           /\ RunStartsOnce'
           /\ check_crc' = check_crc /\ check_crc' \in BOOLEAN
           /\ since = <<>> => since' = <<>>
           /\ since # <<>> => /\ since' = Append(since, b)
                              /\ Len(since) >= 1
                              /\ Len(since') = Len(since) + 1
<1>1. since \in Seq(Byte) /\ check_crc \in BOOLEAN
  BY DEF TypeOK
<1>2. CASE since = <<>>
  BY <1>1, <1>2 DEF Observe, RunStartsOnce
<1>3. CASE since # <<>>
  <2>1. /\ since' = Append(since, b)
        /\ since' \in Seq(Byte)
        /\ Len(since) >= 1
        /\ Len(since') = Len(since) + 1
        /\ \A i \in 1..Len(since) : since'[i] = since[i]
        /\ since'[Len(since) + 1] = b
    BY <1>1, <1>3, EmptySeq, AppendProperties DEF Observe
  <2>2. RunStartsOnce'
    BY <1>3, <2>1 DEF RunStartsOnce
  <2> QED
    BY <1>1, <1>3, <2>1, <2>2 DEF Observe
<1> QED
  BY <1>2, <1>3

\* While a packet is collected, add(b) keeps packet() equal to the run.
LEMMA AddTracks ==
    ASSUME IInv, NEW b \in Byte, b # StartSymbol, has_space, state # WaitStart,
           add(b), Observe(b)
    PROVE  /\ raw_buffer' \in [1..BufferSize -> Byte]
           /\ packetSize' \in 0..BufferSize
           /\ since # <<>>
           /\ since' = Append(since, b)
           /\ packet' = since'
           /\ Len(since') = packetSize'
<1>1. /\ packet = since
      /\ raw_buffer \in [1..BufferSize -> Byte]
      /\ packetSize \in 0..(BufferSize - 1)
      /\ since \in Seq(Byte)
  BY BufferAssumption DEF IInv, TypeOK, TracksRun, has_space
<1>2. raw_buffer' \in [1..BufferSize -> Byte] /\ packetSize' \in 0..BufferSize
  BY <1>1, BufferAssumption DEF add
<1>3. packet' = Append(packet, b)
  BY <1>1, AddAppends DEF add, packet
<1>4. since # <<>>
  <2>1. state = WaitEnd \/ state = WaitCrc
    BY DEF IInv, TypeOK, State
  <2>2. CASE state = WaitEnd
    BY <2>2 DEF IInv, TracksRun
  <2>3. CASE state = WaitCrc
    <3>1. amount_of_crc_nibbles \in Nat /\ amount_of_crc_nibbles < Len(since)
      BY <2>3 DEF IInv, TypeOK, TracksRun, CrcLength
    <3> QED
      BY <3>1, <1>1, EmptySeq
  <2> QED
    BY <2>1, <2>2, <2>3
<1>5. since' = Append(since, b)
  BY <1>4 DEF Observe
<1>6. Len(packet') = packetSize'
  BY <1>2, BytesInIsSeq DEF packet
<1> QED
  BY <1>1, <1>2, <1>3, <1>4, <1>5, <1>6

\* HeldTelegramIntact depends on the memory and on what is held alone.
LEMMA NothingHeld ==
    ASSUME raw_buffer' \in [1..BufferSize -> Byte], held' = <<>>
    PROVE  HeldTelegramIntact' /\ held' \in Seq(Byte)
<1>1. held' \in Seq(Byte) /\ Len(held') = 0
  BY EmptySeq
<1>2. /\ BytesIn(raw_buffer', 0) \in Seq(Byte)
      /\ Len(BytesIn(raw_buffer', 0)) = 0
  BY BytesInIsSeq, BufferAssumption
<1>3. BytesIn(raw_buffer', 0) = <<>>
  BY <1>2, EmptySeq
<1> QED
  BY <1>1, <1>3, BufferAssumption DEF HeldTelegramIntact

-------------------------------------------------------------------------------
(* The inductive invariant *)

LEMMA InitIInv == Init => IInv
<1> SUFFICES ASSUME Init PROVE IInv
  OBVIOUS
<1>1. <<>> \in Seq(Byte) /\ Len(<<>>) = 0
  BY EmptySeq
<1>2. TypeOK
  BY <1>1, BufferAssumption DEF Init, TypeOK, State, CrcLength
<1>3. HeldTelegramIntact
  <2>1. /\ BytesIn(raw_buffer, 0) \in Seq(Byte)
        /\ Len(BytesIn(raw_buffer, 0)) = 0
    BY BytesInIsSeq, BufferAssumption DEF Init
  <2>2. BytesIn(raw_buffer, 0) = <<>>
    BY <2>1, EmptySeq
  <2> QED
    BY <1>1, <2>2, BufferAssumption DEF Init, HeldTelegramIntact
<1>4. RunStartsOnce /\ TracksRun
  BY DEF Init, RunStartsOnce, TracksRun, WaitStart, WaitEnd, WaitCrc
<1>5. DeliversFrames
  <2>1. ~Framing!IsFrame(since, check_crc)
    BY <1>1 DEF Init, Framing!IsFrame
  <2> QED
    BY <2>1 DEF Init, DeliversFrames
<1> QED
  BY <1>2, <1>3, <1>4, <1>5 DEF IInv, Init

LEMMA StartByteIInv ==
    ASSUME IInv, NEW b \in Byte, StartByte(b)
    PROVE  IInv'
<1>1. since' = <<b>> /\ since' \in Seq(Byte) /\ Len(since') = 1 /\ since'[1] = StartSymbol
  BY DEF StartByte
<1>2. /\ raw_buffer' \in [1..BufferSize -> Byte]
      /\ raw_buffer'[1] = b
      /\ packetSize' = 1
      /\ packetSize' \in 0..BufferSize
      /\ held' = <<>>
  BY BufferAssumption DEF StartByte, IInv, TypeOK
<1>3. HeldTelegramIntact' /\ held' \in Seq(Byte)
  BY <1>2, NothingHeld
<1>4. TypeOK'
  BY <1>1, <1>2, <1>3 DEF StartByte, IInv, TypeOK, State
<1>5. RunStartsOnce'
  BY <1>1 DEF RunStartsOnce
<1>6. packet' = since'
  <2>1. /\ packet' \in Seq(Byte)
        /\ Len(packet') = 1
        /\ \A i \in 1..1 : packet'[i] = raw_buffer'[i]
    BY <1>2, BytesInIsSeq DEF packet
  <2> QED
    BY <1>1, <1>2, <2>1, SeqEqual DEF StartByte
<1>7. \A i \in 1..Len(since') : since'[i] # EndSymbol
  BY <1>1, SymbolsAssumption
<1>8. TracksRun'
  BY <1>1, <1>6, <1>7 DEF StartByte, TracksRun, WaitStart, WaitEnd, WaitCrc
<1>9. DeliversFrames'
  <2>1. ~Framing!IsFrame(since', check_crc')
    BY <1>1, <1>4, <1>7, NoEndNoFrame DEF TypeOK
  <2> QED
    BY <2>1 DEF StartByte, DeliversFrames
<1> QED
  BY <1>2, <1>3, <1>4, <1>5, <1>8, <1>9 DEF IInv

\* The bytes that are not stored leave the memory and what is held alone.
LEMMA UnstoredHeld ==
    ASSUME IInv, UNCHANGED <<raw_buffer, held>>
    PROVE  HeldTelegramIntact' /\ held' \in Seq(Byte)
  BY DEF IInv, TypeOK, HeldTelegramIntact

LEMMA OverflowByteIInv ==
    ASSUME IInv, NEW b \in Byte, OverflowByte(b)
    PROVE  IInv'
<1>1. /\ since' \in Seq(Byte)
      /\ RunStartsOnce'
      /\ check_crc' = check_crc /\ check_crc' \in BOOLEAN
      /\ since = <<>> => since' = <<>>
      /\ since # <<>> => /\ since' = Append(since, b)
                         /\ Len(since) >= 1
                         /\ Len(since') = Len(since) + 1
  BY ObserveExtends DEF OverflowByte, IInv
<1>2. HeldTelegramIntact' /\ held' \in Seq(Byte)
  BY UnstoredHeld DEF OverflowByte, ReturnNothing
<1>3. TypeOK'
  BY <1>1, <1>2, BufferAssumption DEF OverflowByte, ReturnNothing, IInv, TypeOK, State
<1>4. \/ since' = <<>>
      \/ Len(since') > BufferSize
      \/ /\ Finished(since', check_crc')
         /\ ~Framing!IsFrame(since', check_crc')
  <2>1. CASE since = <<>>
    BY <1>1, <2>1
  <2>2. CASE since # <<>> /\ state # WaitStart
    <3>1. Len(since) = packetSize
      BY <2>2, BytesInIsSeq DEF IInv, TypeOK, TracksRun, packet
    <3> QED
      BY <1>1, <2>2, <3>1, BufferAssumption DEF OverflowByte, has_space, IInv, TypeOK
  <2>3. CASE since # <<>> /\ state = WaitStart
    <3>1. since \in Seq(Byte) /\ check_crc \in BOOLEAN
      BY DEF IInv, TypeOK
    <3>2. Len(since) > BufferSize \/ Finished(since, check_crc)
      BY <2>3 DEF IInv, TracksRun
    <3>3. CASE Len(since) > BufferSize
      BY <1>1, <2>3, <3>1, <3>3, BufferAssumption
    <3>4. CASE Finished(since, check_crc)
      BY <1>1, <2>3, <3>1, <3>4, FinishedStays
    <3> QED
      BY <3>2, <3>3, <3>4
  <2> QED
    BY <2>1, <2>2, <2>3
<1>5. TracksRun'
  BY <1>4 DEF OverflowByte, TracksRun, WaitStart, WaitEnd, WaitCrc
<1>6. ~Framing!IsFrame(since', check_crc')
  BY <1>1, <1>4, EmptySeq, BufferAssumption DEF Framing!IsFrame
<1>7. DeliversFrames'
  BY <1>6 DEF OverflowByte, ReturnNothing, DeliversFrames
<1> QED
  BY <1>1, <1>2, <1>3, <1>5, <1>7 DEF OverflowByte, IInv

LEMMA IgnoredByteIInv ==
    ASSUME IInv, NEW b \in Byte, IgnoredByte(b)
    PROVE  IInv'
<1>1. /\ since' \in Seq(Byte)
      /\ RunStartsOnce'
      /\ check_crc' = check_crc /\ check_crc' \in BOOLEAN
      /\ since = <<>> => since' = <<>>
      /\ since # <<>> => /\ since' = Append(since, b)
                         /\ Len(since) >= 1
                         /\ Len(since') = Len(since) + 1
  BY ObserveExtends DEF IgnoredByte, IInv
<1>2. HeldTelegramIntact' /\ held' \in Seq(Byte)
  BY UnstoredHeld DEF IgnoredByte, ReturnNothing
<1>3. TypeOK'
  BY <1>1, <1>2 DEF IgnoredByte, ReturnNothing, IInv, TypeOK
<1>4. \/ since' = <<>>
      \/ Len(since') > BufferSize
      \/ /\ Finished(since', check_crc')
         /\ ~Framing!IsFrame(since', check_crc')
  <2>1. since \in Seq(Byte) /\ check_crc \in BOOLEAN
    BY DEF IInv, TypeOK
  <2>2. since = <<>> \/ Len(since) > BufferSize \/ Finished(since, check_crc)
    BY DEF IgnoredByte, IInv, TracksRun
  <2>3. CASE since = <<>>
    BY <1>1, <2>3
  <2>4. CASE since # <<>> /\ Len(since) > BufferSize
    BY <1>1, <2>1, <2>4, BufferAssumption
  <2>5. CASE since # <<>> /\ Finished(since, check_crc)
    BY <1>1, <2>1, <2>5, FinishedStays
  <2> QED
    BY <2>2, <2>3, <2>4, <2>5
<1>5. TracksRun'
  BY <1>4 DEF IgnoredByte, TracksRun, WaitStart, WaitEnd, WaitCrc
<1>6. ~Framing!IsFrame(since', check_crc')
  BY <1>1, <1>4, EmptySeq, BufferAssumption DEF Framing!IsFrame
<1>7. DeliversFrames'
  BY <1>6 DEF IgnoredByte, ReturnNothing, DeliversFrames
<1> QED
  BY <1>1, <1>2, <1>3, <1>5, <1>7 DEF IgnoredByte, IInv

LEMMA BodyByteIInv ==
    ASSUME IInv, NEW b \in Byte, BodyByte(b)
    PROVE  IInv'
<1>1. state = WaitEnd /\ state # WaitStart /\ b # StartSymbol /\ b # EndSymbol
  BY DEF BodyByte, WaitStart, WaitEnd
<1>2. /\ since' \in Seq(Byte) /\ RunStartsOnce'
      /\ check_crc' = check_crc /\ check_crc' \in BOOLEAN
      /\ Len(since') = Len(since) + 1
  BY <1>1, ObserveExtends, AddTracks DEF BodyByte, IInv
<1>3. /\ raw_buffer' \in [1..BufferSize -> Byte]
      /\ packetSize' \in 0..BufferSize
      /\ since # <<>>
      /\ since' = Append(since, b)
      /\ packet' = since'
  BY <1>1, AddTracks DEF BodyByte
<1>4. held' = <<>>
  BY <1>1 DEF BodyByte, ReturnNothing, IInv
<1>5. HeldTelegramIntact' /\ held' \in Seq(Byte)
  BY <1>3, <1>4, NothingHeld
<1>6. TypeOK'
  BY <1>2, <1>3, <1>5 DEF BodyByte, ReturnNothing, IInv, TypeOK
<1>7. \A i \in 1..Len(since') : since'[i] # EndSymbol
  <2>1. since \in Seq(Byte) /\ \A i \in 1..Len(since) : since[i] # EndSymbol
    BY <1>1 DEF IInv, TypeOK, TracksRun
  <2> QED
    BY <1>1, <1>3, <2>1, AppendProperties
<1>8. TracksRun'
  BY <1>1, <1>3, <1>7, <1>2, EmptySeq, AppendProperties
  DEF BodyByte, TracksRun, WaitStart, WaitEnd, WaitCrc, IInv, TypeOK
<1>9. DeliversFrames'
  <2>1. ~Framing!IsFrame(since', check_crc')
    BY <1>2, <1>7, NoEndNoFrame
  <2> QED
    BY <2>1 DEF BodyByte, ReturnNothing, DeliversFrames
<1> QED
  BY <1>2, <1>4, <1>5, <1>6, <1>8, <1>9 DEF IInv

LEMMA EndByteBeforeCrcIInv ==
    ASSUME IInv, NEW b \in Byte, EndByteBeforeCrc(b)
    PROVE  IInv'
<1>1. state = WaitEnd /\ state # WaitStart /\ b # StartSymbol /\ has_space
  BY SymbolsAssumption DEF EndByteBeforeCrc, WaitStart, WaitEnd, WaitCrc
<1>2. /\ raw_buffer' \in [1..BufferSize -> Byte]
      /\ packetSize' \in 0..BufferSize
      /\ since # <<>>
      /\ since' = Append(since, b)
      /\ packet' = since'
      /\ Len(since') = packetSize'
  BY <1>1, AddTracks DEF EndByteBeforeCrc
<1>3. /\ since' \in Seq(Byte) /\ RunStartsOnce'
      /\ check_crc' = check_crc /\ check_crc' \in BOOLEAN
      /\ Len(since') = Len(since) + 1
      /\ since'[1] = StartSymbol
  <2>1. /\ since' \in Seq(Byte) /\ RunStartsOnce'
        /\ check_crc' = check_crc /\ check_crc' \in BOOLEAN
        /\ Len(since) >= 1
        /\ Len(since') = Len(since) + 1
    BY <1>1, <1>2, ObserveExtends DEF EndByteBeforeCrc, IInv
  <2> QED
    BY <1>2, <2>1, EmptySeq DEF RunStartsOnce, IInv, TypeOK
<1>4. held' = <<>>
  BY <1>1 DEF EndByteBeforeCrc, ReturnNothing, IInv
<1>5. HeldTelegramIntact' /\ held' \in Seq(Byte)
  BY <1>2, <1>4, NothingHeld
<1>6. TypeOK'
  BY <1>2, <1>3, <1>5
  DEF EndByteBeforeCrc, ReturnNothing, IInv, TypeOK, State, CrcLength
<1>7. FirstEndAt(since', Len(since')) /\ Len(since') \in 1..Len(since')
  <2>1. since \in Seq(Byte) /\ \A i \in 1..Len(since) : since[i] # EndSymbol
    BY <1>1 DEF IInv, TypeOK, TracksRun
  <2> QED
    BY <1>2, <1>3, <2>1, AppendProperties DEF EndByteBeforeCrc, FirstEndAt
<1>8. TracksRun'
  BY <1>2, <1>3, <1>7
  DEF EndByteBeforeCrc, TracksRun, WaitStart, WaitEnd, WaitCrc, CrcLength
<1>9. DeliversFrames'
  <2>1. ~Framing!IsFrame(since', check_crc')
    <3>1. Framing!IsFrame(since', check_crc') =>
            Len(since') = Len(since') + Trailer(check_crc')
      BY <1>3, <1>7, FrameAt
    <3>2. Trailer(check_crc') = 4
      BY <1>3 DEF EndByteBeforeCrc, Trailer, CrcLength
    <3> QED
      BY <1>7, <3>1, <3>2
  <2> QED
    BY <2>1 DEF EndByteBeforeCrc, ReturnNothing, DeliversFrames
<1> QED
  BY <1>3, <1>4, <1>5, <1>6, <1>8, <1>9 DEF IInv

LEMMA CrcByteIInv ==
    ASSUME IInv, NEW b \in Byte, CrcByte(b)
    PROVE  IInv'
<1>1. state = WaitCrc /\ state # WaitStart /\ b # StartSymbol /\ has_space
  BY SymbolsAssumption DEF CrcByte, WaitStart, WaitEnd, WaitCrc
<1>2. /\ raw_buffer' \in [1..BufferSize -> Byte]
      /\ packetSize' \in 0..BufferSize
      /\ since # <<>>
      /\ since' = Append(since, b)
      /\ packet' = since'
      /\ Len(since') = packetSize'
  BY <1>1, AddTracks DEF CrcByte
<1>3. /\ since' \in Seq(Byte) /\ RunStartsOnce'
      /\ check_crc' = check_crc /\ check_crc' \in BOOLEAN
      /\ Len(since') = Len(since) + 1
      /\ since'[1] = StartSymbol
  <2>1. /\ since' \in Seq(Byte) /\ RunStartsOnce'
        /\ check_crc' = check_crc /\ check_crc' \in BOOLEAN
        /\ Len(since) >= 1
        /\ Len(since') = Len(since) + 1
    BY <1>1, <1>2, ObserveExtends DEF CrcByte, IInv
  <2> QED
    BY <1>2, <2>1, EmptySeq DEF RunStartsOnce, IInv, TypeOK
<1>4. held' = <<>>
  BY <1>1 DEF CrcByte, ReturnNothing, IInv
<1>5. HeldTelegramIntact' /\ held' \in Seq(Byte)
  BY <1>2, <1>4, NothingHeld
<1>6. TypeOK'
  BY <1>2, <1>3, <1>5
  DEF CrcByte, ReturnNothing, IInv, TypeOK, CrcLength
<1> DEFINE e == Len(since) - amount_of_crc_nibbles
<1>7. /\ FirstEndAt(since', e)
      /\ e \in 1..Len(since')
      /\ e = Len(since') - amount_of_crc_nibbles'
      /\ e + CrcLength > Len(since')
  <2>1. /\ since \in Seq(Byte) /\ Len(since) \in Nat
        /\ FirstEndAt(since, e)
        /\ amount_of_crc_nibbles \in Nat
        /\ amount_of_crc_nibbles < Len(since)
    BY <1>1, LenProperties DEF IInv, TypeOK, TracksRun, CrcLength
  <2>2. e \in 1..Len(since)
    BY <2>1
  <2>3. FirstEndAt(since', e)
    BY <1>2, <2>1, <2>2, FirstEndStays
  <2> QED
    BY <1>3, <2>1, <2>2, <2>3 DEF CrcByte, CrcLength
<1>8. TracksRun'
  <2>1. amount_of_crc_nibbles' < Len(since') /\ amount_of_crc_nibbles' < CrcLength
    BY <1>3, <1>6, <1>7 DEF CrcByte, TypeOK, CrcLength
  <2> HIDE DEF e
  <2>2. FirstEndAt(since', Len(since') - amount_of_crc_nibbles')
    BY <1>7
  <2>3. check_crc'
    BY <1>1, <1>3 DEF IInv, TracksRun
  <2> QED
    BY <1>1, <1>2, <2>1, <2>2, <2>3 DEF CrcByte, TracksRun, WaitStart, WaitEnd, WaitCrc
<1>9. DeliversFrames'
  <2>1. check_crc'
    BY <1>1, <1>3 DEF IInv, TracksRun
  <2> HIDE DEF e
  <2>2. ~Framing!IsFrame(since', check_crc')
    <3>1. Framing!IsFrame(since', check_crc') => Len(since') = e + Trailer(check_crc')
      BY <1>3, <1>7, FrameAt
    <3>2. Trailer(check_crc') = CrcLength
      BY <2>1 DEF Trailer
    <3> QED
      BY <1>7, <3>1, <3>2
  <2> QED
    BY <2>2 DEF CrcByte, ReturnNothing, DeliversFrames
<1> QED
  BY <1>3, <1>4, <1>5, <1>6, <1>8, <1>9 DEF IInv

\* What both actions that end a packet return and leave behind.
LEMMA ReturnIInv ==
    ASSUME NEW e \in 1..Len(since'), FirstEndAt(since', e),
           Len(since') = e + Trailer(check_crc'),
           raw_buffer' \in [1..BufferSize -> Byte], packetSize' \in 0..BufferSize,
           since' \in Seq(Byte), since'[1] = StartSymbol, RunStartsOnce',
           packet' = since', Len(since') = packetSize',
           check_crc' \in BOOLEAN, state' = WaitStart,
           amount_of_crc_nibbles' \in 0..CrcLength,
           held = <<>>, ReturnTelegram(check_crc')
    PROVE  IInv'
<1>1. telegram' = IF check_crc' => CrcMatches(SubSeq(since', 1, e), SubSeq(since', e + 1, e + 4))
                  THEN [size |-> Len(since'), has_crc_suffix |-> check_crc']
                  ELSE nullopt
  BY FromBytesOfFrame DEF ReturnTelegram
<1>2. Framing!IsFrame(since', check_crc') <=>
        (check_crc' => CrcMatches(SubSeq(since', 1, e), SubSeq(since', e + 1, e + 4)))
  BY FrameAt
<1>3. DeliversFrames'
  BY <1>1, <1>2 DEF DeliversFrames
<1>4. telegram' \in View \cup {nullopt}
  BY <1>1 DEF View
<1>5. held' = <<>> \/ held' = since'
  <2>1. CASE telegram' = nullopt
    BY <2>1 DEF ReturnTelegram
  <2>2. CASE telegram' # nullopt
    <3>1. telegram'.size = Len(since')
      BY <1>1, <2>2
    <3>2. full_content(packet', telegram') = since'
      BY <3>1, SubSeqFull DEF full_content
    <3> QED
      BY <2>2, <3>2 DEF ReturnTelegram
  <2> QED
    BY <2>1, <2>2
<1>6. HeldTelegramIntact' /\ held' \in Seq(Byte)
  <2>1. CASE held' = <<>>
    BY <2>1, NothingHeld
  <2>2. CASE held' = since'
    BY <2>2 DEF HeldTelegramIntact, packet
  <2> QED
    BY <1>5, <2>1, <2>2
<1>7. TypeOK'
  BY <1>4, <1>6 DEF TypeOK, State
<1>8. TracksRun'
  <2>1. Finished(since', check_crc')
    BY DEF Finished, Trailer, CrcLength
  <2> QED
    BY <2>1 DEF TracksRun, WaitStart, WaitEnd, WaitCrc
<1> QED
  BY <1>3, <1>6, <1>7, <1>8 DEF IInv

LEMMA EndByteWithoutCrcIInv ==
    ASSUME IInv, NEW b \in Byte, EndByteWithoutCrc(b)
    PROVE  IInv'
<1>1. state = WaitEnd /\ state # WaitStart /\ b # StartSymbol /\ has_space
  BY SymbolsAssumption DEF EndByteWithoutCrc, WaitStart, WaitEnd, WaitCrc
<1>2. /\ raw_buffer' \in [1..BufferSize -> Byte]
      /\ packetSize' \in 0..BufferSize
      /\ since # <<>>
      /\ since' = Append(since, b)
      /\ packet' = since'
      /\ Len(since') = packetSize'
  BY <1>1, AddTracks DEF EndByteWithoutCrc
<1>3. /\ since' \in Seq(Byte) /\ RunStartsOnce'
      /\ check_crc' = check_crc /\ check_crc' \in BOOLEAN
      /\ Len(since') = Len(since) + 1
      /\ since'[1] = StartSymbol
  <2>1. /\ since' \in Seq(Byte) /\ RunStartsOnce'
        /\ check_crc' = check_crc /\ check_crc' \in BOOLEAN
        /\ Len(since) >= 1
        /\ Len(since') = Len(since) + 1
    BY <1>1, <1>2, ObserveExtends DEF EndByteWithoutCrc, IInv
  <2> QED
    BY <1>2, <2>1, EmptySeq DEF RunStartsOnce, IInv, TypeOK
<1>4. held = <<>> /\ check_crc' = FALSE
  BY <1>1, <1>3 DEF EndByteWithoutCrc, IInv
<1>5. /\ FirstEndAt(since', Len(since'))
      /\ Len(since') \in 1..Len(since')
      /\ Len(since') = Len(since') + Trailer(check_crc')
  <2>1. since \in Seq(Byte) /\ \A i \in 1..Len(since) : since[i] # EndSymbol
    BY <1>1 DEF IInv, TypeOK, TracksRun
  <2> QED
    BY <1>2, <1>3, <1>4, <2>1, AppendProperties DEF EndByteWithoutCrc, FirstEndAt, Trailer
<1>6. /\ state' = WaitStart
      /\ amount_of_crc_nibbles' \in 0..CrcLength
      /\ ReturnTelegram(check_crc')
  BY <1>4 DEF EndByteWithoutCrc, IInv, TypeOK
<1> QED
  BY <1>2, <1>3, <1>4, <1>5, <1>6, ReturnIInv

LEMMA LastCrcByteIInv ==
    ASSUME IInv, NEW b \in Byte, LastCrcByte(b)
    PROVE  IInv'
<1>1. state = WaitCrc /\ state # WaitStart /\ b # StartSymbol /\ has_space
  BY SymbolsAssumption DEF LastCrcByte, WaitStart, WaitEnd, WaitCrc
<1>2. /\ raw_buffer' \in [1..BufferSize -> Byte]
      /\ packetSize' \in 0..BufferSize
      /\ since # <<>>
      /\ since' = Append(since, b)
      /\ packet' = since'
      /\ Len(since') = packetSize'
  BY <1>1, AddTracks DEF LastCrcByte
<1>3. /\ since' \in Seq(Byte) /\ RunStartsOnce'
      /\ check_crc' = check_crc /\ check_crc' \in BOOLEAN
      /\ Len(since') = Len(since) + 1
      /\ since'[1] = StartSymbol
  <2>1. /\ since' \in Seq(Byte) /\ RunStartsOnce'
        /\ check_crc' = check_crc /\ check_crc' \in BOOLEAN
        /\ Len(since) >= 1
        /\ Len(since') = Len(since) + 1
    BY <1>1, <1>2, ObserveExtends DEF LastCrcByte, IInv
  <2> QED
    BY <1>2, <2>1, EmptySeq DEF RunStartsOnce, IInv, TypeOK
<1>4. held = <<>> /\ check_crc' = TRUE
  BY <1>1, <1>3 DEF IInv, TypeOK, TracksRun
<1> DEFINE e == Len(since) - amount_of_crc_nibbles
<1>5. /\ FirstEndAt(since', e)
      /\ e \in 1..Len(since')
      /\ amount_of_crc_nibbles' = CrcLength
      /\ Len(since') = e + CrcLength
  <2>1. /\ since \in Seq(Byte) /\ Len(since) \in Nat
        /\ FirstEndAt(since, e)
        /\ amount_of_crc_nibbles \in 0..3
        /\ amount_of_crc_nibbles < Len(since)
    BY <1>1, LenProperties DEF IInv, TypeOK, TracksRun, CrcLength
  <2>2. e \in 1..Len(since)
    BY <2>1
  <2>3. FirstEndAt(since', e)
    BY <1>2, <2>1, <2>2, FirstEndStays
  <2> QED
    BY <1>3, <2>1, <2>2, <2>3 DEF LastCrcByte, CrcLength
<1>6. /\ state' = WaitStart
      /\ amount_of_crc_nibbles' \in 0..CrcLength
      /\ ReturnTelegram(check_crc')
      /\ Len(since') = e + Trailer(check_crc')
  <2> HIDE DEF e
  <2>1. Trailer(check_crc') = CrcLength
    BY <1>4 DEF Trailer
  <2>2. ReturnTelegram(check_crc')
    BY <1>4, Zenon DEF LastCrcByte
  <2> QED
    BY <1>5, <2>1, <2>2 DEF LastCrcByte, CrcLength
<1> HIDE DEF e
<1> QED
  BY <1>2, <1>3, <1>4, <1>5, <1>6, ReturnIInv

LEMMA NextIInv == IInv /\ [Next]_vars => IInv'
<1> SUFFICES ASSUME IInv, [Next]_vars PROVE IInv'
  OBVIOUS
<1>1. CASE UNCHANGED vars
  BY <1>1 DEF vars, IInv, TypeOK, HeldTelegramIntact, RunStartsOnce, TracksRun,
              DeliversFrames, packet
<1>2. ASSUME NEW b \in Byte, process_byte(b) PROVE IInv'
  <2>1. CASE StartByte(b)
    BY <2>1, StartByteIInv
  <2>2. CASE OverflowByte(b)
    BY <2>2, OverflowByteIInv
  <2>3. CASE IgnoredByte(b)
    BY <2>3, IgnoredByteIInv
  <2>4. CASE BodyByte(b)
    BY <2>4, BodyByteIInv
  <2>5. CASE EndByteWithoutCrc(b)
    BY <2>5, EndByteWithoutCrcIInv
  <2>6. CASE EndByteBeforeCrc(b)
    BY <2>6, EndByteBeforeCrcIInv
  <2>7. CASE CrcByte(b)
    BY <2>7, CrcByteIInv
  <2>8. CASE LastCrcByte(b)
    BY <2>8, LastCrcByteIInv
  <2> QED
    BY <1>2, <2>1, <2>2, <2>3, <2>4, <2>5, <2>6, <2>7, <2>8 DEF process_byte
<1> QED
  BY <1>1, <1>2 DEF Next

\* The strengthened invariant of PacketAccumulator::process_byte.
THEOREM Invariance == Spec => []IInv
  BY InitIInv, NextIInv, PTL DEF Spec

-------------------------------------------------------------------------------
(* The results *)

\* No call of process_byte ever writes outside the buffer, for any input.
THEOREM TypeCorrect == Spec => []TypeOK
<1>1. IInv => TypeOK
  BY DEF IInv
<1> QED
  BY <1>1, Invariance, PTL

\* A telegram handed to the client is intact until the next '/' is received.
THEOREM HeldStaysIntact == Spec => []HeldTelegramIntact
<1>1. IInv => HeldTelegramIntact
  BY DEF IInv
<1> QED
  BY <1>1, Invariance, PTL

\* The buffer, the state and the CRC counter always agree with what was
\* received since the latest '/'; a packet is never given up early.
THEOREM RunIsTracked == Spec => []TracksRun
<1>1. IInv => TracksRun
  BY DEF IInv
<1> QED
  BY <1>1, Invariance, PTL

\* What a non-empty return value says of the run of bytes.
LEMMA TelegramIsFrame ==
    ASSUME IInv, telegram # nullopt
    PROVE  /\ full_content(packet, telegram) = since
           /\ content_without_crc(packet, telegram) =
                SubSeq(since, 1, Len(since) - Trailer(check_crc))
           /\ Framing!IsFrame(since, check_crc)
           /\ packet = since
           /\ telegram = [size |-> Len(since), has_crc_suffix |-> check_crc]
<1>1. Framing!IsFrame(since, check_crc)
  BY DEF IInv, DeliversFrames
<1>2. packet = since /\ telegram = [size |-> Len(since), has_crc_suffix |-> check_crc]
  BY <1>1 DEF IInv, DeliversFrames
<1>3. since \in Seq(Byte) /\ Len(since) \in Nat
  BY LenProperties DEF IInv, TypeOK
<1>4. full_content(packet, telegram) = since
  BY <1>2, <1>3, SubSeqFull DEF full_content
<1>5. (IF telegram.has_crc_suffix THEN telegram.size - CrcLength ELSE telegram.size)
        = Len(since) - Trailer(check_crc)
  BY <1>2, <1>3 DEF Trailer, CrcLength
<1> QED
  BY <1>1, <1>2, <1>4, <1>5 DEF content_without_crc

\* Every telegram returned is a frame, within the packet, with its CRC verified.
THEOREM TelegramsAreWellFormed == Spec => []TelegramWellFormed
<1>1. IInv => TelegramWellFormed
  <2> SUFFICES ASSUME IInv, telegram # nullopt PROVE TelegramWellFormed
    BY DEF TelegramWellFormed
  <2> DEFINE text == full_content(packet, telegram)
             body == content_without_crc(packet, telegram)
  <2>1. /\ text = since
        /\ body = SubSeq(since, 1, Len(since) - Trailer(check_crc))
        /\ Framing!IsFrame(since, check_crc)
        /\ packet = since
        /\ telegram = [size |-> Len(since), has_crc_suffix |-> check_crc]
    BY TelegramIsFrame
  <2>2. since \in Seq(Byte) /\ Len(since) \in Nat /\ check_crc \in BOOLEAN
    BY LenProperties DEF IInv, TypeOK
  <2>3. PICK e \in 1..Len(since) :
          /\ FirstEndAt(since, e)
          /\ Len(since) = e + Trailer(check_crc)
          /\ check_crc => CrcMatches(SubSeq(since, 1, e), SubSeq(since, e + 1, e + 4))
    BY <2>1 DEF Framing!IsFrame, Framing!Trailer, FirstEndAt, Trailer, CrcLength
  <2>4. Trailer(check_crc) \in Nat
    BY DEF Trailer, CrcLength
  <2>5. body = SubSeq(since, 1, e) /\ Len(body) = e /\ \A i \in 1..e : body[i] = since[i]
    <3>1. Len(since) - Trailer(check_crc) = e
      BY <2>2, <2>3, <2>4
    <3>2. \A i \in 1..e : since[i] \in Byte
      BY <2>2, <2>3, ElementOfSeq
    <3> QED
      BY <2>1, <2>3, <3>1, <3>2, SubSeqProperties
  <2>6. \A i \in 1..Len(since) : since[i] = StartSymbol <=> i = 1
    BY <2>3, <2>2, EmptySeq DEF IInv, RunStartsOnce
  <2>7. e >= 2
    BY <2>3, <2>6, SymbolsAssumption DEF FirstEndAt
  <2>8. telegram.size <= packetSize
    BY <2>1, <2>2, BytesInIsSeq DEF IInv, TypeOK, packet
  <2>9. check_crc => CrcMatches(body, SubSeq(text, Len(body) + 1, Len(text)))
    BY <2>1, <2>3, <2>5 DEF Trailer, CrcLength
  <2>10. /\ telegram.has_crc_suffix = check_crc
         /\ FirstEndAt(text, Len(body))
         /\ Len(body) >= 2
         /\ Len(text) = Len(body) + Trailer(check_crc)
    <3> HIDE DEF text, body
    <3>1. text = since /\ Len(body) = e
      BY <2>1, <2>5
    <3>2. telegram.has_crc_suffix = check_crc
      BY <2>1
    <3> QED
      BY <3>1, <3>2, <2>3, <2>7
  <2>11. \A i \in 1..Len(text) : text[i] = StartSymbol <=> i = 1
    BY <2>1, <2>6
  <2> HIDE DEF text, body
  <2> QED
    BY <2>8, <2>9, <2>10, <2>11 DEF TelegramWellFormed, text, body
<1> QED
  BY <1>1, Invariance, PTL

\* What the framing's out stands for here.
MappedOut ==
    IF telegram = nullopt
    THEN nullopt
    ELSE [full |-> full_content(packet, telegram),
          body |-> content_without_crc(packet, telegram)]

OutIsDelivery == MappedOut = Framing!Delivery(since)

LEMMA IInvOut == IInv => OutIsDelivery
<1> SUFFICES ASSUME IInv PROVE OutIsDelivery
  OBVIOUS
<1>1. CASE telegram = nullopt
  <2>1. ~Framing!IsFrame(since, check_crc)
    <3>1. [size |-> Len(since), has_crc_suffix |-> check_crc] \in View
      BY LenProperties DEF IInv, TypeOK, View
    <3> QED
      BY <1>1, <3>1, NulloptAssumption DEF IInv, DeliversFrames
  <2> QED
    BY <1>1, <2>1 DEF OutIsDelivery, MappedOut, Framing!Delivery
<1>2. CASE telegram # nullopt
  <2>1. /\ full_content(packet, telegram) = since
        /\ content_without_crc(packet, telegram) =
             SubSeq(since, 1, Len(since) - Trailer(check_crc))
        /\ Framing!IsFrame(since, check_crc)
    BY <1>2, TelegramIsFrame
  <2> QED
    BY <1>2, <2>1 DEF OutIsDelivery, MappedOut, Framing!Delivery,
                      Framing!Trailer, Trailer, CrcLength
<1> QED
  BY <1>1, <1>2

\* A step of process_byte is a step of the abstract framing.
LEMMA StepRefines == OutIsDelivery' /\ [Next]_vars => [Framing!Next]_Framing!vars
<1> SUFFICES ASSUME OutIsDelivery', [Next]_vars PROVE [Framing!Next]_Framing!vars
  OBVIOUS
<1>1. CASE UNCHANGED vars
  BY <1>1 DEF vars, Framing!vars, packet
<1>2. ASSUME NEW b \in Byte, process_byte(b) PROVE Framing!Receive(b)
  <2>1. check_crc' = check_crc /\ since' = Framing!Extended(b)
    <3>1. StartByte(b) \/ (b # StartSymbol /\ Observe(b))
      BY <1>2, SymbolsAssumption
      DEF process_byte, OverflowByte, IgnoredByte, BodyByte, EndByteWithoutCrc,
          EndByteBeforeCrc, CrcByte, LastCrcByte
    <3> QED
      BY <3>1 DEF StartByte, Observe, Framing!Extended
  <2>2. MappedOut' = IF Framing!IsFrame(since', check_crc')
                     THEN [full |-> since',
                           body |-> SubSeq(since', 1, Len(since') - Framing!Trailer(check_crc'))]
                     ELSE nullopt
    BY DEF OutIsDelivery, Framing!Delivery
  <2> QED
    BY <2>1, <2>2 DEF Framing!Receive, Framing!Delivery, MappedOut
<1> QED
  BY <1>1, <1>2 DEF Next, Framing!Next

\* PacketAccumulator implements TelegramFraming: every frame that fits the
\* buffer is delivered with its exact text, and nothing else is.
THEOREM Refinement == Spec => FramingSpec
<1>1. Init => Framing!Init
  BY DEF Init, Framing!Init
<1>2. Spec => []OutIsDelivery
  BY IInvOut, Invariance, PTL
<1> QED
  BY <1>1, <1>2, StepRefines, PTL DEF Spec, FramingSpec, Framing!Spec
===============================================================================
