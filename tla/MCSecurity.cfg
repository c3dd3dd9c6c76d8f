\* A log of two slots, ids modulo 4, a table of two rules.
SPECIFICATION SecSpec
CONSTANTS
    MaxLogs = 2
    IdModulus = 4
    Types <- SomeTypes
    Users <- TwoUsers
    CallLevels <- OneLevel
    MaxEvents = 4
    MaxRules = 2
    Fields <- Port
    Packets <- TwoPackets
    Rules <- SomeRules
INVARIANTS
    Latest
    IdsContiguous
    QueriesExact
PROPERTIES
    Settled
    ChangesTraced
