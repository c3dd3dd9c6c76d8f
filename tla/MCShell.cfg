\* Four processes and two words to a line; argv holds three arguments.
SPECIFICATION ShellSpec
CONSTANTS
    MaxPid = 3
    TimeSlice = 2
    TickMod = 5
    Killable <- NoPids
    ThreadSwitch = FALSE
    MaxArgs = 3
    Words <- Vocabulary
    MaxWords = 2
    Gaps <- Spaces
    OddLines <- Typed
    DirNames <- Dirs
    FileNames <- Regular
    RawFiles <- Raw
INVARIANT
    SplitExact
PROPERTIES
    RoundRobin
    DirResolves
    CommandsReturn
