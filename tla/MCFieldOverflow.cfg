CONSTANTS
    OpenBracket = "("
    CloseBracket = ")"
    Digit <- MCDigit
    Minus = "-"
    Point = "."
    Star = "*"
    MaxInt = 199
    Char <- MCChar
    Kind = {"fixed", "timestamped", "last", "averaged", "int", "hex"}
    FloatUnit = {"kWh", "kwh"}
    IntUnit = {"Wh"}
    Decimals = 1
    IntRange = 16
    TimestampLength = 2
    MaxLength = 6
    MaxIdLength = 4
    HexDigit = {"1", "3", "4", "9", "A"}
    Decode <- MCDecode
    nullopt = nullopt
    Lines <- MCLines
SPECIFICATION LineSpec
INVARIANTS
    FittingReadingNeverOverflows
CHECK_DEADLOCK FALSE
