# A verification of arduino-dsmr

`arduino-dsmr` (under `src/`) is a C++20 header-only library that reads the P1 port of smart meters:
it collects bytes into telegrams, checks their CRC, deciphers telegrams that come as encrypted DLMS
packets, and parses a telegram into typed fields. The modules in this directory model that code, TLC
checks them on small instances, and TLAPS proves the most important results for every value of their
constants. `PROJECT.json` maps every definition to the lines it models.

```
 bytes of a P1 port                                                     (a line that changes bytes)
   |                                                                             |
   |  process_byte                                                               |  the client's receive loop
   v                                                                             v
 PacketAccumulator ----> DsmrUnencryptedTelegram::from_bytes <---- DlmsPacketDecryptor::decrypt_inplace
   |  a view into the        |          ^                              |   in the client's memory
   |  caller's buffer        |          | calculate_crc16, to_crc      v
   |                         v                                    Aes128GcmDecryptor (interface)
   +----------------> DsmrParser::parse                           Aes128GcmBearSsl / MbedTls / TfPsa
                             |
                             v
                      ParsedData::parse_line -> fields: parse_string, parse_obis, parse_num, ...
```

The library is single-threaded: there are no locks, callbacks or tasks, and nothing is persisted.
What is hard in it is something else: data arrives a byte at a time, damaged and incomplete, for
months; every object keeps state from one packet to the next; views are returned into memory that
later calls write; lengths come from the line; and the crypto libraries may fail at each of several
calls.

## 1. Inventory

| component (source) | state | operations | who calls it |
|---|---|---|---|
| `DsmrUnencryptedTelegram` (`util.h`) | a `string_view` it does not own, whether it ends in a CRC | `from_bytes`, `full_content`, `content_without_crc` | accumulator, decryptor, client |
| CRC (`util.h`) | locals only | `calculate_crc16`, `to_crc` | `from_bytes` |
| `PacketAccumulator` (`packet_accumulator.h`) | caller's buffer, fill level, state of three, CRC nibble counter | `process_byte` | client, once a byte |
| `DsmrParser`, `ParsedData` (`parser.h`) | cursor, start of line, bracket flag; the fields | `parse`, `parse_line`, `parse_string`, `parse_obis`, `parse_num`, `parse_float_or_int` | client, once a telegram |
| field types (`fields.h`) | presence flag and value | `parse`, `val` | `ParsedData` |
| table of fields (`fields.h`) | none: names, ids and units | - | - |
| `DlmsPacketDecryptor` (`dlms_packet_decryptor.h`) | a reference to a decryptor, the CRC option | `decrypt_inplace` | client, once a packet |
| `Aes128Key` (`aes128gcm.h`) | 16 bytes | `from_hex` | client |
| `Aes128GcmDecryptor` (`aes128gcm.h`) | the associated data, from the authentication key | `set_encryption_key`, `set_authentication_key`, `decrypt_inplace`, destructor | client; `DlmsPacketDecryptor` |
| `Aes128GcmBearSsl` | AES keys, a GCM context used again for every packet, `initialized` | as above | |
| `Aes128GcmMbedTls` | a GCM context | as above | |
| `Aes128GcmTfPsa` | `initialized`, the id of a key in the library's store; an operation object inside a call | as above | |
| receive loop (`tests/dlms_packet_decryptor_example_test.cpp`) | packet buffer, time of the latest byte | `loop` | the documented way to use the decryptor |
| `Logger` (`util.h`) | the client's log function | `log` | everything |

What makes each correct, and what is hard about it:

- **Framing.** Exactly the frames on the line that fit in the buffer are delivered, each once, at
  its last byte, with its exact text; an aborted packet, a failed CRC or an overflow leaves nothing
  behind in the next packet; no byte is written outside the buffer; a delivered telegram stays
  readable while the client may use it. Hard: a `/` in every state, a full buffer at every position,
  counters of the previous packet, off-by-one at `!` and at the CRC.
- **CRC.** It is CRC-16/ARC; an intact telegram is accepted with digits in either case; one
  with a burst of up to 16 changed bits, or an odd number of them, is not, however long it is, as long
  as the end of its body can still be found. Hard: bit order, masking, the borders of the digit ranges,
  and that `from_bytes` finds the end of the body in what it received: the line may make a `!`, or
  take it away.
- **Parsing.** `parse` returns; it loses no character; its look-ahead tells line breaks in values
  from the ends of lines; a field is stored at most once and is present without a value only if
  parsing failed on it; what precedes the first bad line is stored exactly. Hard: texts that are cut
  anywhere, doubled brackets, LF and CR LF, unread rests, duplicate lines.
- **Fields.** A field has the value of its reading, in its own unit, or refuses the line; a count the
  telegram gives does not decide how long `parse` runs. Hard: an `int32_t` that overflows, decimals
  that are missing or surplus, two units tried one after the other, zeros without a unit, narrowing,
  counts that are negative, zero, or more than what follows.
- **Receive loop.** Bytes of two packets never meet in the buffer; every packet that arrives complete
  is handed over, once it is complete and before the next. Hard: bytes and time pass between any two
  steps, `millis()` wraps, bytes are lost, packets exceed the buffer, the client is late.
- **Decryption.** The spans passed to the decryptor lie in the packet for every 16-bit length,
  including those whose `size_t` wraps; nothing but the telegram is overwritten; with an
  authentication key or the CRC check only what the meter sent is returned, on a first or a later
  call on the same memory.
- **The three back ends.** Each does what the interface promises after any sequence of keys, packets
  and failures: a stale hash state, key or operation must not reach the next packet, no failure is
  taken for success, no key or operation is leaked.

All hazards are listed in `PROJECT.json`, at the line where they bite, with the properties that
would catch them.

## 2. Modules

| module | models | |
|---|---|---|
| `Telegram` | `DsmrUnencryptedTelegram`, over any CRC function | operators only; used by the next and by `DlmsPacketDecryptor` |
| `PacketAccumulator` | `process_byte`: an action for each path through it | refines `TelegramFraming` |
| `TelegramFraming` | what an accumulator promises: the run of bytes since the latest `/`, and when it is a frame | abstract |
| `CrcCheck` | `from_bytes` with `calculate_crc16` and `to_crc`, behind a line that changes bytes | |
| `StringParser` | `parse_string` | operators only |
| `NumberParser` | `parse_num`, `parse_float_or_int` in `int32_t` | extends `StringParser`; operators only |
| `FieldParser` | `parse` of `FixedField`, `TimestampedFixedField`, `LastFixedField`, `AveragedFixedField`, `IntField`, `HexStringOrRegularStringField`: a turn of a loop is a step | extends `NumberParser` |
| `FieldLines` | what lines mean: texts in brackets, readings among them, and the value a field must find in each | extends `FieldParser`; operators and properties only |
| `DsmrParser` | `parse`, `parse_line`, `ParsedData::parse_line`, the end of `parse_obis`, `StringField`, `RawField` | extends `StringParser`; a step is one turn of a loop |
| `TelegramLines` | what telegrams mean: lines of an id and values, the layouts of their text, and which of them are stored | extends `DsmrParser`; operators and properties only |
| `DlmsReceiver` | the receive loop, with a meter, its line, the UART and time | |
| `DlmsPacketDecryptor` | `DlmsPacket` and `decrypt_inplace`, in the caller's memory, called repeatedly | uses the actions of `Aes128Gcm` |
| `DlmsMeter` | the meter at the other end: how it seals a telegram, and what it may expect | extends `DlmsPacketDecryptor`; operators and properties only |
| `Aes128GcmDecryptor` | constants and operations the back ends share | |
| `Aes128Gcm` | what every back end promises | abstract |
| `Aes128GcmBearSsl`, `Aes128GcmMbedTls`, `Aes128GcmTfPsa` | the back ends, with the part of each library's state that survives a call; in the last every library call is a step | each refines `Aes128Gcm` |
| `Aes128Key` | `from_hex`, a turn of its loop a step | |
| `IdealGcm` | AES-GCM for TLC: key streams as sets, tags as tuples | only for MC modules |
| `MC*` | instances for TLC | |
| `*Proofs` | theorems; `Aes128GcmProofs` has those of BearSSL and Mbed TLS | |

How the state corresponds to the code:

- A byte string is a sequence of bytes; positions are 1-based in `Telegram` and
  `DlmsPacketDecryptor` and 0-based, as in the code, in `DsmrParser` (`At(i)` is `input[i]`). A view
  is what it adds to its bytes: a length and the CRC flag.
- `PacketAccumulator`: `raw_buffer`, `packetSize`, `state`, `amount_of_crc_nibbles` are the code's;
  `telegram` is the return value of the latest call. `since` (bytes since the latest `/`) and `held`
  (the latest telegram as the client read it) are history that no guard reads. Unwritten memory is
  arbitrary.
- `CrcCheck`: a step is one character: the meter sends it and what arrives, changed or not, is taken
  into what `from_bytes` computes of it (it has it all, but reads it once from the front). Meter and
  `from_bytes` have separate places in the telegram: `sent_digits` says where the meter is, and `digits`
  that `from_bytes` has found a `!`, which need not be the meter's. `crc` and `parsed` are the locals of
  `calculate_crc16` and `to_crc`. A `uint16_t` is the set of its one bits. Nothing is idealised: the
  characters are all 256 and the arithmetic is the code's. Nothing follows the telegram; behind a
  `PacketAccumulator` the next `/` would begin another.
- `DsmrParser`: `pos`, `line_start`, `open_bracket` are the locals of `parse`; `loop` says which of
  its loops runs. `present` and `val` are the fields. `handled` is history. `parse_obis` is modelled
  by where it stops and whether it refuses: it takes the longest run of id characters, and the ids
  it refuses (a number over 255) are a constant. Two things of it are left out: that it also stops at a
  separator in the wrong place (`parser.h:174-181`), and that it compares six numbers, a missing one as
  255, where the model compares texts; neither matters for ids that are written in full. `Ts` are the fields in their order, of which two may
  have one id.
- `TelegramLines`: `telegram` is a text together with the lines it was written from and where each of them
  and each of their values begins; `IsTelegram` is what a layout may be: one line end throughout, of one
  or two characters, at most two line breaks before a further value, no id of one character (see below).
- `NumberParser`: an operation that overflows may give any `int32_t`, so a parser returns the set of
  its possible results, each with a flag `overflows`. The width (`MaxInt`) and the number of decimals
  are constants. A unit is the set of its spellings, which stands for the comparison without case.
- `FieldParser`: one call of `parse` on what follows the id of a line. `at` is the statement that comes
  next and `rest` the view `res` of the code; `last`, `count`, `i` and `total` are the locals of the
  loops. `overflowed` is history.
- `FieldLines`: `line` is an abstract line and `input` its rendering. A reading is a sign, digits, decimals
  and a unit, `Worth` what it is worth in thousandths. The properties compare what `parse` made of the
  characters with the readings they were written from.
- `DlmsReceiver`: `buffer` is what `dlms_packet_buffer` holds before `position`, so `position` is its
  length; `uart` is what `Serial` has not handed out. `now` and `last_read_timestamp` wrap as
  Arduino's `unsigned long` does; the example declares them as `long`, where the difference would
  overflow at the wrap, which C++ leaves undefined. `pc` is the place in `loop()`: any number of bytes and up to `MaxDelay` ticks may come while it
  stays there, up to `MaxPause` between two calls. A byte is the name of its packet and its number in
  it. `intact` and `whole` are history: whether every byte of the current packet reached the UART, and
  whether it was handed over complete.
- `DlmsPacketDecryptor`: `bytes` is the caller's memory; `SizeT` is 2^w, and `telegram_length` is
  computed modulo it, as `static_cast<size_t>` does; it is a constant because TLC's integers have 32
  bits. `received` and `calls` are history.
- The back ends: `content` is the memory the ciphertext span covers; a library call that fails may
  leave anything in it. In `Aes128GcmTfPsa`, `store` has the keys the library holds for this decryptor,
  `undestroyed` (history) those that `psa_destroy_key` failed on, and `unaborted` (history) says that
  `psa_aead_abort` failed on `op`. `LibraryFails` says whether calls may fail on good arguments: FALSE for
  BearSSL, whose functions return nothing.
- Operators introduced as `Mutant` are plausible bugs that no specification uses; with one in the
  place of the definition after it, the run named in `PROJECT.json` fails. They show that each
  property depends on the code.

## 3. What TLC checks

| run | instance | shows |
|---|---|---|
| `accumulator` | 4 byte values, buffer of 7, up to 9 bytes after a `/`, with and without CRC | `TypeOK` (no write outside the buffer), `TelegramWellFormed`, `HeldTelegramIntact`, `TracksRun`, `FramingSpec` (refinement), and `IInv`, which the proofs use |
| `crc` | bodies of up to 4 of 5 bytes, 6 patterns of noise on any of them, two longer bodies, 29 characters around the digit ranges | `IsReferenceCrc` (equal to a polynomial division), `IntactIsAccepted`, `ErrorIsDetected`, `OneChangeIsNeverMasked`, `IInv` |
| `parser_any_text` | every text of up to 8 of 4 characters that begins with a line break, and the short ones that do not | `LinesCoverInput`, `LinesAreWhole`, `PresentMeansParsed`, `Terminates` |
| `parser_telegrams` | up to 3 lines in every layout of the parser's tests, both line ends, both settings of `unknown_error` | `StoresLinesBeforeFirstBad`, `ValuesAreFinal` |
| `fields` | readings of up to 3 digits and 2 decimals, signs, 6 units; lists of up to 2; counts -1..3, 199 and one that overflows; hexadecimal ids; `MaxInt` 199, 1 decimal | `ReadingIsExact`, `IntIsCongruent`, `LastIsTaken`, `AverageOfCounted`, `HexIsDecoded`, `EveryTurnConsumes` |
| `fields_overflow` | the same | the second finding below |
| `receiver` | packets of 2 and 3 bytes, a buffer of 2, a timeout of 2, a clock that wraps every 12 ticks | `NeverMixed`, `NoPacketIsMissed`, `PacketIsHandedOver` (liveness) |
| `bearssl`, `mbedtls`, `tfpsa` | 2 keys, 2 authentication keys, 2 nonces, 4 packets, any order of calls | `ContractSpec` (refinement); for TF-PSA also `OperationReleased` and `KeysHeld`, with failures of the calls that clean up |
| `dlms_packet` | the packets of a meter of 1..3 and 7 body bytes, every byte of them changed in three ways, every cut, every lost byte, every near-miss of a length, concatenations, and headers of one with telegrams of another | `SpansInBounds`, `OnlyTelegramIsWritten`, `OnlyGenuineIsReturned`, `IntactIsReturned` |
| `aes128_key` | keys of two bytes, strings of 3..5 characters | the first finding below |

The runs `accumulator`, `crc`, `parser_any_text`, `fields`, `receiver` and `dlms_packet` also check the
`TypeOK` of their modules.

Why the bounds are enough:

- *Accumulator.* The shortest frame with a CRC has 6 bytes (`/!` and four), so in a buffer of 7 a
  frame of 7 just fits, one of 8 does not, and overflow happens in the body, at the `!` and at each
  position of the CRC. Runs go to 9 bytes, so overflow is followed by bytes of the same run. `/` is
  never bounded.
- *CRC.* `BitStep` has no state but the register. Three bytes let every bit of a noise byte pass
  through the whole register, and the reference shares no definition with the loop. The noise turns a
  `1` into a `!`, a `!` into another character, and a character of the CRC into the `!` that was lost,
  so `from_bytes` is before, behind and at the place of the meter. The two longer bodies
  (`MCStories`) have what `ErrorIsDetected` must leave out: the shortest change the CRC does not show,
  the 17 bits of its generator, and a false end that is accepted: `/128DC!`, where one bit
  turns the `1` into a `!`, and `28DC` is the CRC of `/!`. Longer bodies are covered by proof.
- *Parser.* The look-ahead reaches two characters and brackets double, so eight characters hold two
  complete lines or one line with a broken value in every combination of damage. `parser_telegrams`
  has longer texts, but only those that have a meaning to compare with.
- *Fields.* What matters of the width of `int32_t` is that readings lie below it, above it, and above
  it only after scaling; with `MaxInt` 199 and one decimal three digits do all of this. A list of two is
  shorter than, as long as, and longer than the counts. `IntRange` is 16, so readings wrap several times.
- *Receiver.* One packet just fits and one does not. A packet may be cut by a late start, by loss at any
  byte, and by the overflow. The timing is the tightest the assumptions allow: `MaxByteGap + MaxDelay`
  equals `Timeout`, and `Timeout + 2 * Period` is one less than `MinGap`. The clock wraps within most
  packets. `TimingAssumption` is what a client has to see to: with the timeout of 1 s and packets 10 s
  apart, a byte must be noticed within less than 4.5 s and no packet may pause for a second.
- *Back ends.* Two of each value are enough to mix up two of them. With two ids a key that could not
  be destroyed may lie beside the one in use, and after a second one there is no room for an import.
  The state left in a library after
  a call does not grow with the number of calls, but for those keys.
- *DLMS.* `MCReceived` contains all lengths around each comparison of `from_bytes`, and 0, 16, 17,
  26, 27, 255, 256 and 65535. The longest message may be cut within its CRC and still be a packet, so
  without a CRC check a telegram is returned that has none. `SizeT` is 2^20 in the instance; the proof has it arbitrary.

Deadlock is checked where the system cannot stop: the accumulator, `DlmsPacketDecryptor`,
`DlmsReceiver` (where it would mean that the timing assumptions stop time) and `Aes128GcmBearSsl`
(whose destructor does nothing). `CrcCheck`, `DsmrParser`, `FieldParser` and `Aes128Key` end with their
call, and a destroyed `Aes128GcmMbedTls` or `Aes128GcmTfPsa` takes no more calls.

**Fairness.** `DsmrParser` has `WF_vars(Next)`: `parse` is one call on one thread and each step is a turn
of its loop, so a step that can be taken is. `DlmsReceiver` has weak fairness of every step of `loop()`
and of its being called, since Arduino calls it forever, and strong fairness of time: the steps of
`loop()` may be too fast for a tick within a call, so `Tick` is not enabled all the time. The meter and
the line have none. That `parse` of a field returns is stated as a safety property,
`EveryTurnConsumes`: every turn of its loops makes the unread text shorter, from which it follows. All
other specifications react to input that need not come; liveness is not claimed of them.

**First finding.** `aes128_key` is expected to be violated. `Aes128Key::from_hex` reads two characters at
a time with `std::from_chars` and looks only at its error code. That fails if the first character is
no digit; if only the second is none, the result is the first digit's value. So `"0G..."` becomes a
key, where `tests/dlms_packet_decryptor_test.cpp:30` says that a string with "non hex symbols in
key" is refused (its own string has the wrong symbol in first place). `NonHexIsRejected` states the
test's comment; TLC finds the string.

**Second finding.** `fields_overflow` is expected to be violated. `parse_float_or_int` tries the unit
with decimals first, and `parse_num` multiplies the number by 1000 (`parser.h:110`) before it looks at
the unit. So a reading in the integer unit, such as `(002147484*Wh)`, overflows an `int32_t` although its
value fits and the second attempt reads it; `fields.h:119` names this form as one that is read. It is
undefined behaviour, which a build with `-fsanitize=undefined` reports; an ordinary build stores the
right value, because the first attempt's result is dropped. `ReadingIsExact` shows the latter: whatever
the overflow gives, a reading that fits has its value.

What else the models make visible, and no property calls an error: `from_bytes` without CRC check
takes any four characters after `!` for a CRC; with it, a single bit may turn a `1` (0x31) of the body into a
`!` (0x21), and if the four characters after it happen to be the CRC of what precedes, as in `/x1HHHH`
with `HHHH` that of `/x!`, the short telegram is accepted: the CRC protects a telegram only from its `/`
to the first `!` that arrives; `Aes128GcmTfPsa` ignores the status of `psa_destroy_key` and forgets the
id, so a key that could not be destroyed stays in the library, and nobody is left to destroy it; a telegram with bare LF line ends whose next line has
an id of one character before its bracket is read as a continuation; a field that fails to parse is
present without a value; of two fields with one id (`gas_delivered` and `gas_delivered_gj`) the second
is never present. A field in kWh takes `(0.0005*m3)` and `()` for 0, because a zero may lack its unit; a
number over 2147483.647 overflows; an `IntField` of eight bits has 1 for 257 and 255 for -1; a
negative count gives the average 0.

## 4. What is proved

| module | theorem | from |
|---|---|---|
| `PacketAccumulatorProofs` | `TypeCorrect`, `HeldStaysIntact`, `RunIsTracked`, `TelegramsAreWellFormed`: the four invariants, for every alphabet, CRC function and buffer size | `SymbolsAssumption`, `NulloptAssumption`, `BufferAssumption` (a buffer of at least one byte: `add` writes a `/` unchecked) |
| | `Refinement`: the accumulator implements `TelegramFraming` | the same |
| `CrcCheckProofs` | `RegisterIsReference`: the register of `calculate_crc16` is the remainder that defines CRC-16/ARC, for whatever `from_bytes` takes for the body, of any length | `NulloptAssumption` |
| | `OneChangeDetected`: one changed byte leaves the registers different, for telegrams of any length, as long as both ends take the same bytes for the body | the same |
| | `IntactTelegramsAreAccepted`: an unchanged telegram is accepted, whatever its length and the case of its digits | the same |
| | `ErrorsAreDetected`: one whose `/` was changed is not; nor, unless a `!` was made before the meter's, one whose `!` was, or bits of its body that are no more than 16 apart or of an odd number, or one character of its CRC | the same |
| | `TypeCorrect` | the same |
| `Aes128GcmProofs` | `Implementation`: `Aes128GcmBearSsl` keeps the contract, for every cipher | `GcmAssumption` |
| | `MbedImplementation`: so does `Aes128GcmMbedTls`, whichever calls of the library fail | the same |
| `Aes128GcmTfPsaProofs` | `Implementation`: the calls of `Aes128GcmTfPsa` together keep the contract, whichever of them fail | `GcmAssumption`, `KeyIdAssumption` (the id 0 is no key's) |
| | `OperationsAreReleased`, `NoOtherKeyIsHeld`: the library is left with no operation but one that `psa_aead_abort` failed on, and no key but the one in use and those that `psa_destroy_key` failed on | the same |
| `DsmrParserProofs` | `TypeCorrect`, `LinesCover`, `LinesWhole`, `PresentIsParsed`, `ValuesStay`: for texts of any length, any alphabet and any list of fields | `CharAssumption`, `FieldAssumption`, `NulloptAssumption` |
| | `OutcomeOfLines`: what is present, stored and accepted is what the lines say, one line a field | the same |
| | `TelegramsAreStored`: `parse` stores every line before the first bad one of a telegram with its exact text, and succeeds if none is bad, for any number and length of lines and values, any layout and any fields | the same and `TelegramAssumption` (the telegrams are such layouts; the identification is a `RawField`) |
| | `EveryTurnCounts`: each turn of a loop lowers a natural number | the same |
| `FieldParserProofs` | `TypeCorrect`, `EveryTurnReads`: for every text, every width of `int32_t` and any number of decimals | `NumberAssumption` (digits have the values 0..9 and are no other sign), `FieldAssumption` (of `FieldParser`) |
| | `ReadsWithinItsArgument`, `DivisionIsDefined`, `StoresOnSuccess`: what is left unread is a part of the argument; the average's division is defined; a value is stored exactly on success | the same |
| | `ReadingsAreExact`, `IntegersAreCongruent`, `LastReadingIsTaken`, `AverageIsOfCounted`, `HexIdsAreDecoded`: the field has the value of what the line says, or refuses it, for readings of any length, any number of texts, any units and any width | the same and `LineAssumption` (the signs differ; no unit is a `)`; a field with one unit has it as its integer unit; there are decimals) |
| | `ReadingsDoNotOverflow`: a reading whose thousandths fit is read without an overflow | the same |
| `DlmsReceiverProofs` | `TypeCorrect`, `PacketsAreNotMixed`, `PacketsAreNotMissed`: for buffers, packets and times of any size | `ReceiverAssumption`, `TimingAssumption` |
| `DlmsPacketProofs` | `Bounds`: the spans lie in the packet, for every header | `ByteAssumption`, `SizeAssumption` (a `size_t` of more than 16 bits), `ReceivedAssumption`, `CryptKeepsLength` (GCM is a stream cipher) |
| | `Frame`: only the telegram is overwritten, on however many calls; `TypeCorrect` | the same |
| | `ReturnedTelegramIsChecked`: what is returned passed every check there is | the same |
| | `IntactPacketsAreReturned`: the first call on an intact packet of the meter returns its telegram, of any length a header can hold | the first three of `Bounds`, `MeterAssumption` (the meter's telegrams, CRC and cipher are what the client expects) and `LibraryFails = FALSE` |
| | `OnlyAuthenticIsReturned`: with an authentication key only what the meter sent is returned, on however many calls | the four of `Bounds`, `MeterAssumption` and `Unforged` (no received packet has a tag that is right for anything but the meter's ciphertext: the security of GCM) |
| | `OnlyGenuineTelegramsAreReturned`: with the key or the CRC check, the same | these, `CryptIsInvolution` (GCM adds a key stream) and `NoCrcByAccident` (nothing calls can make of a received packet has a CRC that fits, unless the meter sent it) |

The arguments:

- *Accumulator.* The invariants are not inductive: `TracksRun` says nothing of the return value, and
  `HeldTelegramIntact` needs to know that nothing is held while a packet is collected. `IInv` adds
  three parts: `held` is empty unless the accumulator waits for a `/`; a run has one `/`, its first
  byte; and the return value is a frame exactly if the run is one (`DeliversFrames`). Each of the
  eight actions keeps it. For the refinement, `IInv` gives the value of `out` in every state, so
  that a step of `process_byte` is the step `Receive` on the same byte.
- *CRC.* `BitStep` is injective (`0x8000` is set exactly in the results that took the polynomial),
  therefore so is `ByteStep` in the register and in the byte. Equal registers stay equal on equal
  bytes, one different byte makes them different, and equal bytes keep them different. More changes
  need the polynomials: each `BitStep` is a step of the division by the generator, so the register is
  the remainder of the message, and remainders are unique. The change is then itself a multiple of the
  generator if it is masked; such a multiple has its ends 16 or more powers apart, and an even number of
  terms, because the generator has four. The remainder is a recursive function of TLA+; what is said
  of all its values is proved by taking the least power where it fails.
  Where `from_bytes` is, compared with the meter, is one of three things (`Places`): at the same place,
  which every change but one into or from `!` leaves it at (`InStep`); past an end that it found too
  early; or behind the meter, whose `!` it missed, and then it never sees four characters after
  another (`PlaceAtEnd`). `BitsOfChar`: two characters with the same bits are one, so the end is found
  by the bits. `DigitsRead` says, in step, which digits of the CRC that was sent `parsed` has so far, so
  that four unchanged digits make it that CRC (`ParsedIsSent`) and a changed one another (`NibblesTell`).
- *BearSSL.* `IInv`: the hash key in the context is the key that deciphers. `br_gcm_reset` makes
  everything else fresh, so the tag that is compared depends on this packet alone (`ContextAfter`).
- *Mbed TLS.* The types are invariant enough: its state is the key in the context, which is the
  contract's, so this model is close to the contract. That a `setkey` that fails leaves no key (the
  library frees the old one first), and that without one both its calls refuse, are assumptions on the
  library: a half-set key is not modelled.
- *TF-PSA.* `IInv` has, for each library call still to come, what the operation has been given before
  it (`Stage`) and that key, nonce and tag are there (`Called`). So when the last call verifies, it
  verifies this packet with the latest key; all calls before it are stutters of the contract. `KeysHeld`
  and `OperationReleased` are parts of `IInv`: a key that could not be destroyed is never that of
  `key_id` again (`DestroyKeyLeaves`), because an import takes an id that is not in the store.
- *Parser.* `LinesCoverInput` speaks of the lines parsed so far; the invariant adds that the line which
  is read begins right after the latest of them (`LineStart`), and that no line is left unparsed on a
  success. `ValuesAreFinal` needs that a value is assigned only to a field that was absent, and that
  absent fields have no value (`ValuesOfPresent`). That `parse_string` finds a bracket, or the end, is
  `PrefixExists`, from the well-foundedness of `<`. For `LinesAreWhole`, `Scanned` says of the piece of a
  data line read so far what `open_bracket` stands for: every bracket opened in it has been closed
  since, unless the flag is set, and then one still is open; and a line break in it was in brackets or
  looked ahead to one. For `OutcomeOfLines`, `OutcomeInv` relates the fields to all lines handled so
  far, and a new line changes nothing it says of the earlier ones: a field that is stored was absent,
  so no earlier line was for it (`LineOutcome`). `TurnsLeft` is the number that each turn lowers.
  For telegrams, `LayoutInv` says where in the layout `parse` is: the lines found so far are those of the
  telegram (`Segmented`, with an empty one between the characters of each CR LF), and it stands in the
  next line (`IsAt`): in its id, between two values, or in one exactly if `open_bracket` is set. `LineStep`
  is a turn from there, `EndsLine` that the look-ahead sees no bracket at a line end. Then `FieldOfLine`
  says what `parse_string` makes of the payload, and `FailedIsBad` and `AcceptedIsGood` compare what
  `OutcomeInv` says of the lines found with what they were written as.
- *Fields.* `IInv` has four parts. `Views`: what is unread, and the last value of a list, are ends of
  the argument. `Ways`: which statements a kind of field reaches. `Counters`: a value is added only
  where the count is positive, so a negative count comes to the division with a total of 0.
  `StoredOnce`: nothing is stored before the statement that returns. The loops read on because every
  number or string begins with a bracket that is consumed. For the values, a line is taken apart first:
  the rendering of a line, the value of digits and the sum of an average are recursive functions, which
  exist by an induction stated over a set (`UpTo`, `RecursionExists`), so that each step of the
  recursion can be cited (`AfterIs`, `ValueIs`, `TotalIs`). `Written` is the layout of a reading;
  `NumberIs` follows `parse_num` through it, whose searches stop at the point, the star and the bracket,
  and `FixedNumberIs` through both attempts of `parse_float_or_int`. Then each kind of field has an
  invariant of its own that says how far it has got: `LastInv`, that `last` is the view before the text
  read latest; `AverageInv`, that `total` is the sum of the readings up to the `i`-th, unless an
  addition overflowed.
- *Receiver.* `InTime` bounds how old anything can be: while bytes are in the buffer, the clock shows at
  most `Timeout` plus the time since `loop()` last looked (so it cannot have wrapped), and the meter has
  been silent for at most a `Period` more; bytes in the UART are younger than one `Period`. Hence the
  gap between packets finds both empty (`GapMeansEmpty`), which is why packets do not mix. `Complete`
  says that of a packet that lost nothing, fits and was not handed over, buffer and UART have every byte
  that was sent; `Unread`, that a silence within it does not reach the timeout. So what is handed over is
  all of it (`SilenceIsEnd`), and what is gone by the next packet was handed over.
- *DLMS.* `WrappedLength`: if the length in the header is under 17, `telegram_length` wraps to a
  value near 2^w, and `expected_length` wraps back to less than 30, which no packet of at least 30
  bytes has. For the frame, `IInv` says that memory and packet differ at most within the telegram;
  so the header of the memory is the packet's, and the next call finds the telegram at the same
  place. It also has `ReturnedIsChecked`; what passed those checks has the nonce and the tag that were
  received, so by `Unforged` it is the ciphertext of one of the meter's messages, and `from_bytes` finds
  in its plaintext just the telegram and its CRC (`PlainIsTelegram`). Without an authentication key
  there is only the CRC, and a call may find what an earlier one left: `ContentIsKnown` says that the
  memory of the telegram holds one of four strings: what was received, zeros, or what one of these
  deciphers to. For intact packets, `Sealed(m)` is
  taken apart again: header and length are those `from_bytes` expects and the parts are nonce,
  ciphertext and tag, so nothing refuses the packet (`FirstCallSucceeds`).

Only model-checked:

- `Terminates` and `PacketIsHandedOver`: liveness is out of the prover's reach. `EveryTurnCounts` is the
  safety half of the first: only fairness is missing.
- `NonHexIsRejected` and `FittingReadingNeverOverflows`, which do not hold.

## 5. What is not modelled

- `Logger` and the hex dump of packets: formatting.
- The table of fields: data. Its names and units have no behaviour; that two of its fields have one id
  is in `DsmrParser`'s instance.
- The conversions of a `FixedValue` to `float`, and the accessors: they change no state.
- The fields of `FieldParser` inside `DsmrParser`: the parser gives every field the same view and takes
  back a rest, which `StringField` and `RawField` show in both forms (all of it taken, or something
  left), so each is modelled on its own.
- One specification from the meter to the fields. The parts meet at values that their own
  specifications fix: a telegram the client reads while bytes go on arriving is `HeldTelegramIntact`,
  which frames come out is the refinement of `TelegramFraming`, the memory the decryptor shares with the
  receive loop is `OnlyTelegramIsWritten`, and the back end behind `DlmsPacketDecryptor` is the contract
  that each of them refines.
- The value a client reads from a `FixedValue` that was never assigned (`fields.h:104`): `PresentMeansParsed`
  is about String and Raw fields, and the fields of `FieldParser` have `nullopt` there.
- Build files, the examples other than the receive loop, and the vendored test framework.
