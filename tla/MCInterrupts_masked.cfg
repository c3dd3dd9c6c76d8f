\* The kernel as it is: no line is ever opened.
SPECIFICATION FairSpec
CONSTANTS
    Lines <- TimerKeyboard
    FirmwareMask <- PcFirmware
    Opens <- NoLines
    Closes <- NoLines
    WithScheduler = FALSE
    WithSyscalls = FALSE
    MaxRaise = 1
PROPERTY KeyStartsShell
CHECK_DEADLOCK FALSE
