\* Every process may be terminated, the kernel too; the thread switches as well.
SPECIFICATION FairSpec
CONSTANTS
    MaxPid = 3
    TimeSlice = 2
    TickMod = 5
    Killable <- AllPids
    ThreadSwitch = TRUE
INVARIANTS
    ListExact
    CurrentSound
PROPERTIES
    TableSpec
    HandlerReturns
\* After a null process pointer is followed the kernel is stopped.
CHECK_DEADLOCK FALSE
