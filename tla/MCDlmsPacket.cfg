CONSTANTS
    Byte <- MCByte
    StartSymbol = 47
    EndSymbol = 33
    nullopt = nullopt
    CrcMatches <- MCCrcMatches
    k1 = k1
    k2 = k2
    a1 = a1
    a2 = a2
    Key = {k1, k2}
    AuthKey = {a1, a2}
    Crypt <- MCCrypt
    TagOf <- MCTagOf
    LibraryFails = FALSE
    SizeT = 1048576
    Received <- MCReceived
    Message <- MCMessage
    Text <- MCText
    Crc <- MCCrc
    MeterNonce <- MCMeterNonce
    MeterKey = k1
    MeterAuthKey = a1
SPECIFICATION Spec
INVARIANTS
    TypeOK
    SpansInBounds
    OnlyTelegramIsWritten
    OnlyGenuineIsReturned
    IntactIsReturned
