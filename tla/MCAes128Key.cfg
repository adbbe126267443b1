CONSTANTS
    KeyLength = 2
    NotHex = NotHex
    nullopt = nullopt
    Input <- MCInput
SPECIFICATION Spec
INVARIANTS
    NonHexIsRejected
CHECK_DEADLOCK FALSE
