\* One file, two descriptors, sizes modulo 4, krealloc keeps one byte.
SPECIFICATION Spec
CONSTANTS
    Files <- OneFile
    FileName <- FNames
    Names <- SomeNames
    Paths <- SomePaths
    MAX_FD = 5
    Modulus = 4
    CopySize = 1
    Masks <- SomeMasks
    Counts <- SomeCounts
    MaxLength = 3
INVARIANTS
    LinksExact
    DataKept
    ReadExact
PROPERTY
    OpenOutcomes
\* A callback that calls itself, a walk round a ring or a stray store stops the kernel.
CHECK_DEADLOCK FALSE
