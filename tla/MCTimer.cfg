\* Two wraps of the tick counter, at every frequency.
SPECIFICATION Spec
CONSTANTS
    Modulus = 8
    Second = 6
    MinFreq = 2
    MaxFreq = 4
    Requested <- Frequencies
    Waits <- Milliseconds
    Parts = 2
    MaxTotal = 18
CHECK_DEADLOCK FALSE
INVARIANTS
    SecondsExact
PROPERTIES
    NeverATickShort
    UptimeRead
