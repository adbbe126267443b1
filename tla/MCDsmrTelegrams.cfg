CONSTANTS
    Char <- MCChar
    OpenBracket = "("
    CloseBracket = ")"
    LineBreak = {"CR", "LF"}
    IdChar = {"1", "2"}
    OverflowingId <- MCOverflowingId
    Ts <- MCTs
    ObisId <- MCObisId
    identification <- MCIdentification
    RawField <- MCRawField
    MinLength = 1
    MaxLength = 3
    nullopt = nullopt
    Telegrams <- MCTelegrams
    MaxLines = 3
SPECIFICATION TelegramSpec
INVARIANTS
    StoresLinesBeforeFirstBad
PROPERTIES
    ValuesAreFinal
CHECK_DEADLOCK FALSE
