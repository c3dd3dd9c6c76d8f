\* A ring of two; the backlog may outgrow it by one after a lost count.
SPECIFICATION FairSpec
CONSTANTS
    BufferSize = 2
    Keys <- SomeKeys
    Modes <- SomeModes
    Layouts <- OtherLayout
    MaxBacklog = 3
INVARIANTS
    NoPhantom
    ShiftSound
    NothingForgotten
PROPERTIES
    ReadsInOrder
    ReaderServed
