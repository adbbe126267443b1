CONSTANTS
    Char <- MCChar
    OpenBracket = "("
    CloseBracket = ")"
    LineBreak = {"NL"}
    IdChar = {"1"}
    OverflowingId <- MCOverflowingId
    Ts <- MCTs
    ObisId <- MCObisId
    identification <- MCIdentification
    RawField = {"first line"}
    MinLength = 0
    MaxLength = 2
    nullopt = nullopt
    MaxText = 8
SPECIFICATION MCSpec
INVARIANTS
    TypeOK
    LinesCoverInput
    LinesAreWhole
    PresentMeansParsed
PROPERTIES
    Terminates
CHECK_DEADLOCK FALSE
