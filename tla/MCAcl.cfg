\* Lists of up to three entries in sixteen addresses, between other blocks.
SPECIFICATION AclSpec
CONSTANTS
    Base = 3
    Page = 4
    AddrModulus = 16
    CopySize = 2
    Sizes <- SmallSizes
    MaxBlocks = 4
    NUsers = 2
    NGroups = 2
    Entries <- SomeEntries
    ResourceSize = 2
CHECK_DEADLOCK FALSE
INVARIANTS
    BlocksDisjoint
    ListKept
PROPERTY
    RemovalRevokes
