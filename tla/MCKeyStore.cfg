\* Two slots, four keys, bytes of two bits.
SPECIFICATION KeysSpec
CONSTANTS
    MAX_CRYPTO_KEYS = 2
    ByteMod = 4
    IdMod = 8
    MinXor = 2
    MaxXor = 3
    Requests <- SomeRequests
    MessageLength = 2
    MaxIssued = 4
    XorByte <- BitXor
INVARIANTS
    StoreExact
    RoundTrip
