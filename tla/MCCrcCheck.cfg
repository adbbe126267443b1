CONSTANTS
    nullopt = nullopt
    MaxBody = 4
SPECIFICATION MCSpec
INVARIANTS
    TypeOK
    IntactIsAccepted
    ErrorIsDetected
    IInv
    OneChangeIsNeverMasked
    IsReferenceCrc
CHECK_DEADLOCK FALSE
