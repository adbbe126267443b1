CONSTANTS
    Byte <- MCByte
    StartSymbol = "/"
    EndSymbol = "!"
    nullopt = nullopt
    CrcMatches <- MCCrcMatches
    BufferSize = 7
    MaxRun = 9
SPECIFICATION MCSpec
INVARIANTS
    TypeOK
    TelegramWellFormed
    HeldTelegramIntact
    TracksRun
    IInv
PROPERTIES
    FramingSpec
