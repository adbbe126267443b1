CONSTANTS
    k1 = k1
    k2 = k2
    a1 = a1
    a2 = a2
    n1 = n1
    n2 = n2
    nullopt = nullopt
    Key <- IdealKey
    AuthKey <- IdealAuthKey
    Nonce <- IdealNonce
    Tag <- IdealTag
    Content <- IdealContent
    Packet <- IdealPacket
    Crypt <- IdealCrypt
    TagOf <- IdealTagOf
    LibraryFails = FALSE
SPECIFICATION Spec
PROPERTIES
    ContractSpec
