\* A kernel whose drivers open their lines and close the clock's.
SPECIFICATION FairSpec
CONSTANTS
    Lines <- TimerKeyboardClock
    FirmwareMask <- PcFirmware
    Opens <- WithCascade
    Closes <- ClockClosed
    WithScheduler = TRUE
    WithSyscalls = TRUE
    MaxRaise = 2
INVARIANTS
    InServiceOnlyRunning
    MaskShadow
    TicksCounted
PROPERTIES
    OpenLinesServed
    KeyReachesKernel
\* The devices stop after MaxRaise requests.
CHECK_DEADLOCK FALSE
