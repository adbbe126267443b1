CONSTANTS
    Size = 2
    Timeout = 2
    MaxMillis = 6
    Packet = {p, q}
    Lengths = {2, 3}
    MinGap = 9
    MaxByteGap = 1
    MaxPause = 1
    MaxDelay = 1
SPECIFICATION Spec
INVARIANTS
    TypeOK
    NeverMixed
PROPERTIES
    NoPacketIsMissed
    PacketIsHandedOver
